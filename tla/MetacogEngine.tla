--------------------------- MODULE MetacogEngine ----------------------------
(***************************************************************************)
(* The metacognition service (metacognition/engine.py): /verify sends an   *)
(* answer through up to four gates, each a call to the oracle.  All        *)
(* requests share one engine object and with it its HTTP client, which     *)
(* every request replaces when it enters and closes when it leaves.  One   *)
(* action per await.                                                       *)
(***************************************************************************)
EXTENDS Naturals, FiniteSets

CONSTANTS Requests,   \* the verifications asked for
          Jobs        \* what may be asked, see JobSet

Gates == {"self-check", "evidence", "confidence", "symbolic"}

\* What comes back from the oracle: it approves, it objects, the text is no
\* JSON of the expected form, or it is the "{}" that stands for a failed call.
OracleReplies == {"yes", "no", "garbled"}
Heard == OracleReplies \cup {"silent", "unasked"}

\* A job: what the oracle thinks of the answer at each gate, whether Letta has
\* evidence for it, and context["requires_verification"].
JobSet == [oracle : [Gates -> OracleReplies], evidence : BOOLEAN, symbolic : BOOLEAN]

ASSUME RequestsAssumption == IsFiniteSet(Requests)
ASSUME JobsAssumption == Jobs \subseteq JobSet

VARIABLES pc,        \* the await each request is in: "new", "recall", a gate, "done"
          job,       \* what it verifies
          outage,    \* whether calls to Letta and the oracle may fail by themselves
          client,    \* the engine's HTTP client, 0 before the first
          open,      \* the clients that are not closed
          conn,      \* the client its call was sent on, 0 if it was closed
          evidence,  \* whether it recalled any evidence
          heard,     \* what it heard at each gate (history)
          verdict,   \* "none", "passed" or the gate that failed
          alone      \* no other request was under way with it (history)

vars == <<pc, job, outage, client, open, conn, evidence, heard, verdict, alone>>

Init ==
  /\ pc = [r \in Requests |-> "new"]
  /\ job \in [Requests -> Jobs]
  /\ outage \in BOOLEAN
  /\ client = 0
  /\ open = {}
  /\ conn = [r \in Requests |-> 0]
  /\ evidence = [r \in Requests |-> FALSE]
  /\ heard = [r \in Requests |-> [g \in Gates |-> "unasked"]]
  /\ verdict = [r \in Requests |-> "none"]
  /\ alone = [r \in Requests |-> TRUE]
-----------------------------------------------------------------------------
\* (variant) a missing key is taken for approval at every gate
FailsOnLenient(gate) == {"no"}

\* (variant) a missing key is taken for an objection at every gate
FailsOnStrict(gate) == {"no", "silent"}

\* What fails each gate: the keys "consistent" and "confidence" default to a
\* failure when they are missing, "supported" and "valid" to a pass, and an
\* exception while reading the reply passes any gate.
FailsOn(gate) == IF gate \in {"self-check", "confidence"} THEN {"no", "silent"} ELSE {"no"}

Fails(gate, h) == h \in FailsOn(gate)

Following(gate) ==
  CASE gate = "self-check" -> "recall" [] gate = "evidence" -> "confidence"
    [] gate = "confidence" -> "symbolic" [] gate = "symbolic" -> "done"

\* The await a request turns to after passing a gate; the symbolic gate is
\* only for answers that require it.
After(r, gate) ==
  IF gate = "confidence" /\ ~job[r].symbolic THEN "done" ELSE Following(gate)

Active == {r \in Requests : pc[r] \notin {"new", "done"}}

\* (variant) a client is created only when there is none
EnteredReusing == IF client = 0 THEN 1 ELSE client

\* (variant) a request that finds no client open makes another one for its call
EnteredTwice == client + 2

\* The client __aenter__ installs; it never asks what became of the old one.
Entered == client + 1

\* The next call of r is sent, on the client the engine has by then.
Send(r) == conn' = [conn EXCEPT ![r] = IF client' \in open' THEN client' ELSE 0]

\* POST /verify: __aenter__, and the first call is sent.
verify(r) ==
  /\ pc[r] = "new"
  /\ client' = Entered
  /\ open' = open \cup ({Entered} \ {client})
  /\ pc' = [pc EXCEPT ![r] = "self-check"]
  /\ Send(r)
  /\ alone' = [q \in Requests |-> alone[q] /\ (q \in Active \cup {r} => Active = {})]
  /\ UNCHANGED <<job, outage, evidence, heard, verdict>>

\* Leave with a verdict: __aexit__ closes the engine's present client.
Leave(r, v) ==
  /\ verdict' = [verdict EXCEPT ![r] = v]
  /\ pc' = [pc EXCEPT ![r] = "done"]
  /\ open' = open \ {client}
  /\ UNCHANGED <<client, conn>>

Continue(r, next) ==
  /\ pc' = [pc EXCEPT ![r] = next]
  /\ UNCHANGED <<client, verdict, open>>
  /\ Send(r)

\* A call sent on a closed client fails at once; one in flight may fail when its
\* client is closed, and any call when its service does.
MayAnswer(r) == conn[r] # 0
MayFail(r) == outage \/ conn[r] \notin open

\* The oracle's reply to the call of a gate arrives, or "{}" in its place.
ask(r, gate) ==
  /\ pc[r] = gate /\ gate \in Gates
  /\ \E h \in Heard :
       /\ \/ MayAnswer(r) /\ h = job[r].oracle[gate]
          \/ MayFail(r) /\ h = "silent"
       /\ heard' = [heard EXCEPT ![r][gate] = h]
       /\ IF Fails(gate, h) THEN Leave(r, gate)
          ELSE IF After(r, gate) = "done" THEN Leave(r, "passed")
          ELSE Continue(r, After(r, gate))
  /\ UNCHANGED <<job, outage, evidence, alone>>

\* Letta's evidence arrives, or none; without any the evidence gate is skipped.
recall_evidence(r) ==
  /\ pc[r] = "recall"
  /\ \E found \in BOOLEAN :
       /\ \/ MayAnswer(r) /\ found = job[r].evidence
          \/ MayFail(r) /\ ~found
       /\ evidence' = [evidence EXCEPT ![r] = found]
       /\ Continue(r, IF found THEN "evidence" ELSE "confidence")
  /\ UNCHANGED <<job, outage, heard, alone>>

Next ==
  \E r \in Requests :
    \/ verify(r)
    \/ \E gate \in Gates : ask(r, gate)
    \/ recall_evidence(r)

Spec == Init /\ [][Next]_vars
-----------------------------------------------------------------------------
TypeOK ==
  /\ pc \in [Requests -> Gates \cup {"new", "recall", "done"}]
  /\ job \in [Requests -> JobSet]
  /\ outage \in BOOLEAN
  /\ client \in 0..Cardinality(Requests)
  /\ open \subseteq 1..client
  /\ conn \in [Requests -> 0..client]
  /\ evidence \in [Requests -> BOOLEAN]
  /\ heard \in [Requests -> [Gates -> Heard]]
  /\ verdict \in [Requests -> Gates \cup {"none", "passed"}]
  /\ alone \in [Requests -> BOOLEAN]

\* What the pipeline decides about a job when every call is answered: the first
\* gate in order whose reply objects, among those the job goes through.
Order == <<"self-check", "evidence", "confidence", "symbolic">>
GatesOf(j) ==
  {"self-check", "confidence"} \cup (IF j.evidence THEN {"evidence"} ELSE {})
                               \cup (IF j.symbolic THEN {"symbolic"} ELSE {})
Objecting(j) == {i \in 1..4 : Order[i] \in GatesOf(j) /\ j.oracle[Order[i]] = "no"}
TrueVerdict(j) ==
  IF Objecting(j) = {} THEN "passed"
  ELSE Order[CHOOSE i \in Objecting(j) : \A k \in Objecting(j) : i <= k]

\* Without an outage, a verification that overlaps no other one gets the verdict
\* its own answer deserves, however many closed the shared client before it.
SequentialIsExact ==
  \A r \in Requests : ~outage /\ pc[r] = "done" /\ alone[r] => verdict[r] = TrueVerdict(job[r])

\* Nothing passes unheard: whatever fails, and whoever closes the client, an
\* answer passes only after the oracle has replied to the self-check and to the
\* confidence gate, to both without objecting.
OutageFailsClosed ==
  \A r \in Requests : verdict[r] = "passed" =>
    \A gate \in {"self-check", "confidence"} :
      heard[r][gate] = job[r].oracle[gate] /\ heard[r][gate] # "no"

\* What interference may do to a verdict: an approved answer is never rejected
\* but at the two gates that fail without a reply, and an answer that deserves
\* rejection passes only where nobody but the other two gates would object.
InterferenceIsConfined ==
  \A r \in Requests : pc[r] = "done" =>
    /\ TrueVerdict(job[r]) = "passed" => verdict[r] \in {"passed", "self-check", "confidence"}
    /\ verdict[r] = "passed" => TrueVerdict(job[r]) \in {"passed", "evidence", "symbolic"}
-----------------------------------------------------------------------------
\* "async with engine": within the block the engine has a client to call with.
ClientOpenInBlock == \A r \in Active : client \in open
=============================================================================
