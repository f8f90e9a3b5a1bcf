---------------------------- MODULE ChatService ----------------------------
(***************************************************************************)
(* What the agent's chat endpoint promises its clients and the memory      *)
(* service, without the workflow that keeps the promise: a request is      *)
(* refused or accepted once, an accepted request makes a bounded number of *)
(* model calls, each call is sent to the memory at most once and only while*)
(* it is the latest call of a request still in progress, and every accepted*)
(* request is answered, after which the service does nothing more for it.  *)
(* What was sent may be remembered at any time, or never.  CognitiveGraph  *)
(* implements SafeSpec.                                                    *)
(***************************************************************************)
EXTENDS Naturals

CONSTANTS Requests,   \* the chat requests the service will ever receive
          CallLimit   \* how many model calls one request may cost

VARIABLES phase,       \* "new", "accepted" or "answered", per request
          calls,       \* model calls made so far, per request
          sent,        \* the calls sent to the memory: a set of <<request, call number>>
          remembered   \* those of them that it has stored

vars == <<phase, calls, sent, remembered>>

Init ==
  /\ phase = [r \in Requests |-> "new"]
  /\ calls = [r \in Requests |-> 0]
  /\ sent = {}
  /\ remembered = {}

Refuse(r) ==
  /\ phase[r] = "new"
  /\ phase' = [phase EXCEPT ![r] = "answered"]
  /\ UNCHANGED <<calls, sent, remembered>>

Accept(r) ==
  /\ phase[r] = "new"
  /\ phase' = [phase EXCEPT ![r] = "accepted"]
  /\ UNCHANGED <<calls, sent, remembered>>

Call(r) ==
  /\ phase[r] = "accepted"
  /\ calls[r] < CallLimit
  /\ calls' = [calls EXCEPT ![r] = @ + 1]
  /\ UNCHANGED <<phase, sent, remembered>>

Send(r) ==
  /\ phase[r] = "accepted"
  /\ calls[r] > 0
  /\ <<r, calls[r]>> \notin sent
  /\ sent' = sent \cup {<<r, calls[r]>>}
  /\ UNCHANGED <<phase, calls, remembered>>

Remember(c) ==
  /\ c \in sent \ remembered
  /\ remembered' = remembered \cup {c}
  /\ UNCHANGED <<phase, calls, sent>>

\* The last call of a stream may be made by the step that ends the request.
Answer(r) ==
  /\ phase[r] = "accepted"
  /\ phase' = [phase EXCEPT ![r] = "answered"]
  /\ \/ UNCHANGED calls
     \/ calls[r] < CallLimit /\ calls' = [calls EXCEPT ![r] = @ + 1]
  /\ UNCHANGED <<sent, remembered>>

Next ==
  \/ \E r \in Requests : Refuse(r) \/ Accept(r) \/ Call(r) \/ Send(r) \/ Answer(r)
  \/ \E c \in sent : Remember(c)

SafeSpec == Init /\ [][Next]_vars

\* An accepted request is eventually answered.
Progress == \A r \in Requests : (phase[r] = "accepted") ~> (phase[r] = "answered")

Spec == SafeSpec /\ Progress
=============================================================================
