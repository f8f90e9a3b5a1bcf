---------------------------- MODULE LegacyRouter ----------------------------
(***************************************************************************)
(* The archived router (agent/router_legacy.py): CognitiveRouter picks one *)
(* of two model endpoints by complexity and by a cached health status, and *)
(* AgentOrchestrator calls it, falls back, asks for a verdict and records  *)
(* a trajectory.  Requests, and refreshes of the whole cache, interleave   *)
(* at their HTTP exchanges, while the endpoints fail and recover.          *)
(***************************************************************************)
EXTENDS Naturals, FiniteSets

CONSTANTS Requests,          \* calls of process and process_stream
          Refreshes,         \* calls of refresh_health
          Inputs,            \* what may be asked, see InputSet
          health_cache_ttl,  \* for how long a cached status is believed
          CHECK_TIMEOUT,     \* the longest a health check takes in all
          Faults,            \* the ways an endpoint fails, see Statuses
          MAX_TIME,          \* bound: the clock stops here
          MAX_CHANGES        \* bound: endpoints fail or recover so often

\* The tests that estimate_complexity makes, and which method is called.
InputSet == [trivial_word : BOOLEAN, short : BOOLEAN, tools : BOOLEAN,
             complex_word : BOOLEAN, long : BOOLEAN, stream : BOOLEAN]

ASSUME InputsAssumption == Inputs \subseteq InputSet
ASSUME TimesAssumption == health_cache_ttl \in Nat \ {0} /\ CHECK_TIMEOUT \in Nat
ASSUME BoundsAssumption == MAX_TIME \in Nat /\ MAX_CHANGES \in Nat

\* The endpoints that a request can be routed to; the two in cold storage are
\* asked for their health by refresh_health and never used.
ModelEndpoint == {"DEEPSEEK_V32", "QWEN_EXECUTOR"}

\* An endpoint answers, answers every request with an error ("sick"), or is not
\* there ("down").
ASSUME FaultsAssumption == Faults \subseteq {"sick", "down"}
Statuses == {"up"} \cup Faults

ASSUME ProbersAssumption == Requests \cap (Refreshes \X ModelEndpoint) = {}
Probers == Requests \cup (Refreshes \X ModelEndpoint)

VARIABLES now,           \* time.time(), in whole units
          status, since, \* how each endpoint is, and since when
          changes,       \* how often one of them changed
          health_cache,  \* what the router remembers: healthy, and when asked
          probe,         \* the health check each prober waits for
          refreshed,     \* the refreshes that have begun
          pc,            \* the await each request is in
          input,         \* what it asks
          decision,      \* its RoutingDecision, and when that was taken
          reply          \* who answered: an endpoint, "apology", "error", "empty";
                         \* "none" before, and once the client and GEPA have it

vars == <<now, status, since, changes, health_cache, probe, refreshed, pc, input,
          decision, reply>>
world == <<now, status, since, changes>>

NoProbe == [to |-> "none", sent |-> 0]
NoInput == [trivial_word |-> FALSE, short |-> FALSE, tools |-> FALSE,
            complex_word |-> FALSE, long |-> FALSE, stream |-> FALSE]
NoDecision == [primary |-> "none", fallback |-> "none", at |-> 0]

Init ==
  /\ now = 0
  /\ status = [m \in ModelEndpoint |-> "up"]
  /\ since = [m \in ModelEndpoint |-> 0]
  /\ changes = 0
  /\ health_cache = [m \in {} |-> [healthy |-> FALSE, time |-> 0]]
  /\ probe = [p \in Probers |-> NoProbe]
  /\ refreshed = {}
  /\ pc = [r \in Requests |-> "new"]
  /\ input = [r \in Requests |-> NoInput]
  /\ decision = [r \in Requests |-> NoDecision]
  /\ reply = [r \in Requests |-> "none"]
-----------------------------------------------------------------------------
estimate_complexity(q) ==
  CASE q.trivial_word /\ q.short -> "TRIVIAL"
    [] ~(q.trivial_word /\ q.short) /\ q.tools -> "TOOL_HEAVY"
    [] ~(q.trivial_word /\ q.short) /\ ~q.tools /\ (q.complex_word \/ q.long) -> "COMPLEX"
    [] OTHER -> "ROUTINE"

Streams(q) == estimate_complexity(q) \in {"COMPLEX", "TOOL_HEAVY"}

\* _select_model: the primary, and the other one as its fallback.
Primary(q) == IF Streams(q) THEN "DEEPSEEK_V32" ELSE "QWEN_EXECUTOR"

Fallback(q) == IF Streams(q) THEN "QWEN_EXECUTOR" ELSE "DEEPSEEK_V32"

\* (variant) a status is believed for one unit longer
FreshLonger(m) ==
  m \in DOMAIN health_cache /\ now <= health_cache[m].time + health_cache_ttl

\* Whether _is_healthy answers from the cache, without waiting.
Fresh(m) == m \in DOMAIN health_cache /\ now < health_cache[m].time + health_cache_ttl

Remembered(m, ok) ==
  [x \in DOMAIN health_cache \cup {m} |->
     IF x = m THEN [healthy |-> ok, time |-> now] ELSE health_cache[x]]

\* The request turns to its model call.
Decide(r, primary, fallback) ==
  /\ decision' = [decision EXCEPT ![r] = [primary |-> primary, fallback |-> fallback, at |-> now]]
  /\ pc' = [pc EXCEPT ![r] = "call"]
  /\ probe' = [probe EXCEPT ![r] = NoProbe]

Ask(r, m) ==
  /\ probe' = [probe EXCEPT ![r] = [to |-> m, sent |-> now]]
  /\ pc' = [pc EXCEPT ![r] = "probe"]
  /\ UNCHANGED decision

\* The rest of route, once the health of the fallback, or of the primary, is known.
FallbackKnown(r, q, ok) ==
  \/ ok /\ Decide(r, Fallback(q), "none")
  \/ ~ok /\ Decide(r, Primary(q), Fallback(q))

PrimaryKnown(r, q, ok) ==
  LET fallback == Fallback(q)
  IN \/ ok /\ Decide(r, Primary(q), fallback)
     \/ ~ok /\ Fresh(fallback) /\ FallbackKnown(r, q, health_cache[fallback].healthy)
     \/ ~ok /\ ~Fresh(fallback) /\ Ask(r, fallback)

\* process or process_stream begins, and with it route.
route(r, q) ==
  LET primary == Primary(q)
  IN /\ pc[r] = "new"
     /\ input' = [input EXCEPT ![r] = q]
     /\ \/ Fresh(primary) /\ PrimaryKnown(r, q, health_cache[primary].healthy)
        \/ ~Fresh(primary) /\ Ask(r, primary)
     /\ UNCHANGED <<world, health_cache, refreshed, reply>>

\* (variant) any answer is a sign of health
FindingsLenient(p) ==
  LET m == probe[p].to
  IN {status[m] # "down"} \cup (IF since[m] >= probe[p].sent THEN BOOLEAN ELSE {})

\* What a health check can find: how the endpoint is, or either if the endpoint has
\* changed since the check was sent.  An error, and no answer, mean unhealthy.
Findings(p) ==
  LET m == probe[p].to
  IN {status[m] = "up"} \cup (IF since[m] >= probe[p].sent THEN BOOLEAN ELSE {})

\* A finding reaches _is_healthy, perhaps after that of a later check.
_is_healthy(r) ==
  /\ pc[r] = "probe"
  /\ \E ok \in Findings(r) :
       /\ health_cache' = Remembered(probe[r].to, ok)
       /\ \/ probe[r].to = Primary(input[r]) /\ PrimaryKnown(r, input[r], ok)
          \/ probe[r].to = Fallback(input[r]) /\ FallbackKnown(r, input[r], ok)
  /\ UNCHANGED <<world, refreshed, input, reply>>

\* refresh_health asks every endpoint at once whose status is not fresh.
refresh_health(f) ==
  /\ f \notin refreshed
  /\ refreshed' = refreshed \cup {f}
  /\ probe' = [p \in Probers |->
                 IF p \in {f} \X ModelEndpoint /\ ~Fresh(p[2])
                 THEN [to |-> p[2], sent |-> now] ELSE probe[p]]
  /\ UNCHANGED <<world, health_cache, pc, input, decision, reply>>

refresh_answered(f, m) ==
  /\ probe[<<f, m>>].to = m
  /\ \E ok \in Findings(<<f, m>>) : health_cache' = Remembered(m, ok)
  /\ probe' = [probe EXCEPT ![<<f, m>>] = NoProbe]
  /\ UNCHANGED <<world, refreshed, pc, input, decision, reply>>
-----------------------------------------------------------------------------
\* How a model call can end: as the endpoint is, or in any way if the endpoint
\* has changed since the request was routed.
Outcomes(r, m) ==
  (IF since[m] >= decision[r].at THEN {"answer", "refusal", "exception"} ELSE {}) \cup
  {CASE status[m] = "up" -> "answer" [] status[m] = "sick" -> "refusal"
     [] status[m] = "down" -> "exception"}

\* (variant) no call checks the status
RaisesOn(r, outcome) == outcome = "exception"

\* A streamed call checks the status; the others take an error for no exception.
Raises(r, outcome) ==
  outcome = "exception" \/ (outcome = "refusal" /\ Streams(input[r]))

\* The reply is there; what was asked and decided has served.
Answered(r, who, next) ==
  /\ reply' = [reply EXCEPT ![r] = who]
  /\ decision' = [decision EXCEPT ![r] = NoDecision]
  /\ input' = [input EXCEPT ![r] = NoInput]
  /\ pc' = [pc EXCEPT ![r] = next]
  /\ UNCHANGED <<world, health_cache, probe, refreshed>>

\* _call_model and _call_model_streaming_buffered.
_call_model(r) ==
  /\ pc[r] = "call" /\ ~input[r].stream
  /\ \E outcome \in Outcomes(r, decision[r].primary) :
       \/ outcome = "answer" /\ Answered(r, decision[r].primary, "verify")
       \/ /\ Raises(r, outcome) /\ decision[r].fallback # "none"
          /\ pc' = [pc EXCEPT ![r] = "call_fallback"]
          /\ UNCHANGED <<world, health_cache, probe, refreshed, input, decision, reply>>
       \/ /\ outcome # "answer" /\ (Raises(r, outcome) => decision[r].fallback = "none")
          /\ Answered(r, "apology", "verify")

call_fallback(r) ==
  /\ pc[r] = "call_fallback"
  /\ \E outcome \in Outcomes(r, decision[r].fallback) :
       Answered(r, IF outcome = "answer" THEN decision[r].fallback ELSE "apology", "verify")

\* process_stream with _call_model_stream: no fallback, no look at the status
\* and no verification; the client has its answer before it is recorded.
_call_model_stream(r) ==
  /\ pc[r] = "call" /\ input[r].stream
  /\ \E outcome \in Outcomes(r, decision[r].primary) :
       Answered(r, CASE outcome = "answer" -> decision[r].primary
                     [] outcome = "refusal" -> "empty"
                     [] outcome = "exception" -> "error", "record")

\* The verdict, asked of another service, goes into the reply and the record.
_verify_output(r) ==
  /\ pc[r] = "verify"
  /\ pc' = [pc EXCEPT ![r] = "record"]
  /\ UNCHANGED <<world, health_cache, probe, refreshed, input, decision, reply>>

_record_trajectory(r) ==
  /\ pc[r] = "record"
  /\ pc' = [pc EXCEPT ![r] = "done"]
  /\ reply' = [reply EXCEPT ![r] = "none"]
  /\ UNCHANGED <<world, health_cache, probe, refreshed, input, decision>>
-----------------------------------------------------------------------------
\* An endpoint fails or recovers.
change(m) ==
  /\ changes < MAX_CHANGES
  /\ changes' = changes + 1
  /\ \E s \in Statuses \ {status[m]} : status' = [status EXCEPT ![m] = s]
  /\ since' = [since EXCEPT ![m] = now]
  /\ UNCHANGED <<now, health_cache, probe, refreshed, pc, input, decision, reply>>

\* Time passes, but no health check takes longer than its timeouts allow.
Tick ==
  /\ now < MAX_TIME
  /\ \A p \in Probers : probe[p].to # "none" => now < probe[p].sent + CHECK_TIMEOUT
  /\ now' = now + 1
  /\ UNCHANGED <<status, since, changes, health_cache, probe, refreshed, pc, input,
                 decision, reply>>

process(r) ==
  \/ \E q \in Inputs : route(r, q)
  \/ _is_healthy(r)
  \/ _call_model(r) \/ call_fallback(r) \/ _call_model_stream(r)
  \/ _verify_output(r) \/ _record_trajectory(r)

Next ==
  \/ \E r \in Requests : process(r)
  \/ \E f \in Refreshes : refresh_health(f) \/ \E m \in ModelEndpoint : refresh_answered(f, m)
  \/ \E m \in ModelEndpoint : change(m)
  \/ Tick

Spec == Init /\ [][Next]_vars
-----------------------------------------------------------------------------
Probes == [to : ModelEndpoint \cup {"none"}, sent : Nat]
Decisions == [primary : ModelEndpoint \cup {"none"}, fallback : ModelEndpoint \cup {"none"}, at : Nat]

TypeOK ==
  /\ now \in Nat /\ changes \in Nat
  /\ status \in [ModelEndpoint -> Statuses]
  /\ since \in [ModelEndpoint -> Nat]
  /\ DOMAIN health_cache \subseteq ModelEndpoint
  /\ health_cache \in [DOMAIN health_cache -> [healthy : BOOLEAN, time : Nat]]
  /\ probe \in [Probers -> Probes]
  /\ refreshed \subseteq Refreshes
  /\ pc \in [Requests -> {"new", "probe", "call", "call_fallback", "verify", "record", "done"}]
  /\ input \in [Requests -> InputSet]
  /\ decision \in [Requests -> Decisions]
  /\ reply \in [Requests -> ModelEndpoint \cup {"none", "apology", "error", "empty"}]

\* An endpoint that has been as it is for so long that the router must know: a
\* status is believed for a while, it was true when its check was sent, and it is
\* used once the check of the other endpoint is back.
Settled(m, t) == since[m] + health_cache_ttl + 2 * CHECK_TIMEOUT <= t

\* Routing follows the truth with a bounded delay, however checks of several
\* requests overlap and overtake each other: a request is sent to its primary if
\* that has been up for longer than a status is believed and two checks take, and to
\* its fallback if for so long the primary has failed and the fallback not.
Decides(r) == pc'[r] = "call" /\ pc[r] # "call"
RightfulEndpoint(r) ==
  LET primary == Primary(input'[r])
      fallback == Fallback(input'[r])
  IN /\ Settled(primary, now) /\ status[primary] = "up" => decision'[r].primary = primary
     /\ Settled(primary, now) /\ status[primary] # "up" /\ Settled(fallback, now) /\ status[fallback] = "up"
          => decision'[r].primary = fallback
RoutedToLiving == [][\A r \in Requests : Decides(r) => RightfulEndpoint(r)]_vars

\* Nobody is put off while a model is there: a plain request gets an apology only
\* if no endpoint was settled and up from its routing to its answer, unless its
\* primary answered a call that was not streamed with an error.
Apologizes(r) == reply'[r] = "apology" /\ reply[r] = "none"
PutOff(r) ==
  \/ \A m \in ModelEndpoint : ~(status[m] = "up" /\ Settled(m, decision[r].at))
  \/ ~Streams(input[r]) /\ "refusal" \in Outcomes(r, decision[r].primary) /\ pc[r] = "call"
AnsweredByLiving == [][\A r \in Requests : Apologizes(r) => PutOff(r)]_vars
-----------------------------------------------------------------------------
(* Why it holds: the inductive invariant of LegacyRouterProofs. *)

\* No time of a check or of a change is in the future, no check takes too long,
\* and a request waits for one exactly while it is routed.
TimeInv ==
  /\ \A m \in ModelEndpoint : since[m] <= now
  /\ \A m \in DOMAIN health_cache : health_cache[m].time <= now
  /\ \A p \in Probers : probe[p].to # "none" =>
       probe[p].sent <= now /\ now <= probe[p].sent + CHECK_TIMEOUT
  /\ \A r \in Requests : decision[r].at <= now
  /\ \A r \in Requests : pc[r] = "probe" => probe[r].to # "none"

\* What is remembered of an endpoint is true of it, unless it has changed since a
\* check may have been sent.
TruthInv ==
  \A m \in DOMAIN health_cache : since[m] + CHECK_TIMEOUT < health_cache[m].time =>
    (health_cache[m].healthy <=> status[m] = "up")

\* A decision names the two endpoints of the request; once the fallback is called
\* the primary has failed.
DecisionInv ==
  \A r \in Requests :
    /\ pc[r] \in {"new", "probe"} => reply[r] = "none"
    /\ pc[r] \in {"call", "call_fallback"} =>
         /\ reply[r] = "none"
         /\ {decision[r].primary, decision[r].fallback} \in
              {{Primary(input[r]), Fallback(input[r])}, {Fallback(input[r]), "none"}}
         /\ decision[r].primary # "none"
    /\ pc[r] = "call_fallback" => decision[r].fallback # "none"

\* While a request waits for the health of its fallback, its primary has failed or
\* has recovered too late for the router to know.
RouteInv ==
  \A r \in Requests :
    pc[r] = "probe" /\ probe[r].to = Fallback(input[r]) /\ status[Primary(input[r])] = "up" =>
      since[Primary(input[r])] + health_cache_ttl + CHECK_TIMEOUT > probe[r].sent

\* While a request is calling, an endpoint that was settled when it was routed and
\* has been up since is the primary, or the fallback yet to be called.
CallInv ==
  \A r \in Requests, m \in ModelEndpoint :
    status[m] = "up" /\ Settled(m, decision[r].at) =>
      /\ pc[r] = "call" => m \in {decision[r].primary, decision[r].fallback}
      /\ pc[r] = "call_fallback" => m = decision[r].fallback

IInv == TypeOK /\ TimeInv /\ TruthInv /\ DecisionInv /\ RouteInv /\ CallInv
=============================================================================
