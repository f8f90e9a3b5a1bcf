------------------------- MODULE LegacyRouterProofs -------------------------
(***************************************************************************)
(* The router follows its endpoints with a bounded delay, for every number *)
(* of requests and refreshes, every time to live and every length of a     *)
(* health check.  The argument: a remembered status is as old as its check *)
(* (TruthInv), whatever order answers come in; a request that waits for    *)
(* its fallback carries what it found of its primary (RouteInv); and what  *)
(* was right when a request was routed stays right while it calls, unless  *)
(* an endpoint changes (CallInv).                                          *)
(***************************************************************************)
EXTENDS LegacyRouter, TLAPS

\* The cache's part of the invariant.
CacheInv ==
  /\ DOMAIN health_cache \subseteq ModelEndpoint
  /\ health_cache \in [DOMAIN health_cache -> [healthy : BOOLEAN, time : Nat]]
  /\ \A m \in DOMAIN health_cache : health_cache[m].time <= now
  /\ TruthInv

\* A verdict that the router may act upon now.
Known(m, ok) ==
  /\ ok \in BOOLEAN
  /\ since[m] + health_cache_ttl + CHECK_TIMEOUT <= now => (ok <=> status[m] = "up")

\* The primary has failed, or recovered less than that long ago.
Doubtful(q, lag) ==
  status[Primary(q)] = "up" => since[Primary(q)] + health_cache_ttl + lag > now

\* What routing does: it takes a decision that follows what is settled ...
Right(q, d) ==
  /\ d \in Decisions /\ d.at = now
  /\ \/ d.primary = Primary(q) /\ d.fallback = Fallback(q)
     \/ d.primary = Fallback(q) /\ d.fallback = "none"
  /\ Settled(Primary(q), now) /\ status[Primary(q)] = "up" => d.primary = Primary(q)
  /\ Settled(Primary(q), now) /\ status[Primary(q)] # "up" /\ Settled(Fallback(q), now)
       /\ status[Fallback(q)] = "up" => d.primary = Fallback(q)

Decided(r, q) ==
  /\ \E d \in Decisions : Right(q, d) /\ decision' = [decision EXCEPT ![r] = d]
  /\ pc' = [pc EXCEPT ![r] = "call"]
  /\ probe' = [probe EXCEPT ![r] = NoProbe]

\* ... or waits for the health of an endpoint, of the fallback only in doubt.
Waits(r, q) ==
  /\ \/ Ask(r, Primary(q))
     \/ Ask(r, Fallback(q)) /\ Doubtful(q, CHECK_TIMEOUT)
-----------------------------------------------------------------------------
LEMMA Times ==
  /\ health_cache_ttl \in Nat /\ health_cache_ttl >= 1 /\ CHECK_TIMEOUT \in Nat
PROOF BY TimesAssumption

\* Primary and fallback are the two endpoints.
LEMMA Endpoints ==
  ASSUME NEW q
  PROVE  /\ Primary(q) \in ModelEndpoint /\ Fallback(q) \in ModelEndpoint
         /\ Primary(q) # Fallback(q)
         /\ \A m \in ModelEndpoint : m = Primary(q) \/ m = Fallback(q)
         /\ "none" \notin ModelEndpoint
PROOF BY DEF Primary, Fallback, ModelEndpoint

\* A status from the cache can be acted upon while it is fresh.
LEMMA FreshIsKnown ==
  ASSUME IInv, NEW m \in ModelEndpoint, Fresh(m)
  PROVE  Known(m, health_cache[m].healthy)
PROOF
<1>1. m \in DOMAIN health_cache /\ health_cache[m] \in [healthy : BOOLEAN, time : Nat]
  BY DEF Fresh, IInv, TypeOK
<1>2. now \in Nat /\ since[m] \in Nat
  BY DEF IInv, TypeOK
<1>3. now < health_cache[m].time + health_cache_ttl
  BY DEF Fresh
<1>4. since[m] + CHECK_TIMEOUT < health_cache[m].time => (health_cache[m].healthy <=> status[m] = "up")
  BY <1>1 DEF IInv, TruthInv
<1> QED BY <1>1, <1>2, <1>3, <1>4, Times DEF Known

\* So can the finding of a check, which becomes what is remembered.
LEMMA FindingIsKnown ==
  ASSUME IInv, NEW p \in Probers, probe[p].to # "none", NEW ok \in Findings(p),
         health_cache' = Remembered(probe[p].to, ok), UNCHANGED world
  PROVE  /\ probe[p].to \in ModelEndpoint
         /\ Known(probe[p].to, ok)
         /\ CacheInv'
PROOF
<1> DEFINE m == probe[p].to
<1>1. m \in ModelEndpoint /\ probe[p].sent \in Nat
  BY DEF IInv, TypeOK, Probes
<1>2. now \in Nat /\ since[m] \in Nat /\ now <= probe[p].sent + CHECK_TIMEOUT
  BY <1>1 DEF IInv, TypeOK, TimeInv
<1>3. ok \in BOOLEAN
  BY DEF Findings
<1>4. since[m] + CHECK_TIMEOUT < now => (ok <=> status[m] = "up")
  <2> SUFFICES ASSUME since[m] + CHECK_TIMEOUT < now PROVE ok <=> status[m] = "up"
    OBVIOUS
  <2>1. ~(since[m] >= probe[p].sent)
    BY <1>1, <1>2, Times
  <2> QED BY <2>1 DEF Findings
<1>5. Known(m, ok)
  BY <1>2, <1>3, <1>4, Times DEF Known
<1>6. world' = world /\ now' = now /\ since' = since /\ status' = status
  BY DEF world
<1> DEFINE D == DOMAIN health_cache \cup {m}
<1>7. DOMAIN health_cache' = D
  BY DEF Remembered
<1>8. \A x \in D : health_cache'[x] = IF x = m THEN [healthy |-> ok, time |-> now] ELSE health_cache[x]
  BY DEF Remembered
<1>9. \A x \in DOMAIN health_cache : health_cache[x] \in [healthy : BOOLEAN, time : Nat]
  BY DEF IInv, TypeOK
<1>10. CacheInv'
  <2>1. DOMAIN health_cache' \subseteq ModelEndpoint
    BY <1>1, <1>7 DEF IInv, TypeOK
  <2>2. health_cache' \in [DOMAIN health_cache' -> [healthy : BOOLEAN, time : Nat]]
    BY <1>2, <1>3, <1>7, <1>9 DEF Remembered
  <2>3. \A x \in DOMAIN health_cache' : health_cache'[x].time <= now'
    BY <1>2, <1>6, <1>7, <1>8 DEF IInv, TimeInv
  <2>4. TruthInv'
    <3> SUFFICES ASSUME NEW x \in DOMAIN health_cache',
                        (since[x] + CHECK_TIMEOUT < health_cache[x].time)'
                 PROVE  (health_cache[x].healthy <=> status[x] = "up")'
      BY DEF TruthInv
    <3>1. CASE x = m
      BY <3>1, <1>4, <1>6, <1>7, <1>8
    <3>2. CASE x # m
      BY <3>2, <1>6, <1>7, <1>8 DEF IInv, TruthInv
    <3> QED BY <3>1, <3>2
  <2> QED BY <2>1, <2>2, <2>3, <2>4 DEF CacheInv
<1> QED BY <1>1, <1>5, <1>10
-----------------------------------------------------------------------------
\* With the health of the fallback known, and the primary in doubt, the decision
\* is right.
LEMMA FallbackDecides ==
  ASSUME IInv, NEW r, NEW q, NEW ok, Known(Fallback(q), ok),
         Doubtful(q, 2 * CHECK_TIMEOUT), FallbackKnown(r, q, ok)
  PROVE  Decided(r, q)
PROOF
<1> DEFINE p == Primary(q)
           f == Fallback(q)
<1>1. p \in ModelEndpoint /\ f \in ModelEndpoint /\ p # f
  BY Endpoints
<1>2. now \in Nat /\ since[p] \in Nat /\ since[f] \in Nat
  BY <1>1 DEF IInv, TypeOK
<1>3. ~(Settled(p, now) /\ status[p] = "up")
  BY <1>2, Times DEF Settled, Doubtful
<1>4. Settled(f, now) => (ok <=> status[f] = "up")
  BY <1>2, Times DEF Settled, Known
<1>5. CASE ok /\ Decide(r, f, "none")
  <2> DEFINE d == [primary |-> f, fallback |-> "none", at |-> now]
  <2>1. d \in Decisions
    BY <1>1, <1>2 DEF Decisions
  <2>2. Right(q, d)
    BY <1>3, <2>1 DEF Right
  <2> QED BY <1>5, <2>1, <2>2 DEF Decide, Decided
<1>6. CASE ~ok /\ Decide(r, p, f)
  <2> DEFINE d == [primary |-> p, fallback |-> f, at |-> now]
  <2>1. d \in Decisions
    BY <1>1, <1>2 DEF Decisions
  <2>2. Right(q, d)
    BY <1>4, <1>6, <2>1 DEF Right
  <2> QED BY <1>6, <2>1, <2>2 DEF Decide, Decided
<1> QED BY <1>5, <1>6 DEF FallbackKnown

\* With the health of the primary known, the request is routed or in doubt of it.
LEMMA PrimaryDecides ==
  ASSUME IInv, NEW r, NEW q, NEW ok, Known(Primary(q), ok), PrimaryKnown(r, q, ok)
  PROVE  Decided(r, q) \/ Waits(r, q)
PROOF
<1> DEFINE p == Primary(q)
           f == Fallback(q)
<1>1. p \in ModelEndpoint /\ f \in ModelEndpoint /\ p # f
  BY Endpoints
<1>2. now \in Nat /\ since[p] \in Nat /\ since[f] \in Nat
  BY <1>1 DEF IInv, TypeOK
<1>3. CASE ok /\ Decide(r, p, f)
  <2> DEFINE d == [primary |-> p, fallback |-> f, at |-> now]
  <2>1. d \in Decisions
    BY <1>1, <1>2 DEF Decisions
  <2>2. Settled(p, now) => status[p] = "up"
    BY <1>2, <1>3, Times DEF Settled, Known
  <2>3. Right(q, d)
    BY <2>1, <2>2 DEF Right
  <2> QED BY <1>3, <2>1, <2>3 DEF Decide, Decided
<1>4. ~ok => Doubtful(q, CHECK_TIMEOUT) /\ Doubtful(q, 2 * CHECK_TIMEOUT)
  BY <1>2, Times DEF Known, Doubtful
<1>5. CASE ~ok /\ Fresh(f) /\ FallbackKnown(r, q, health_cache[f].healthy)
  BY <1>1, <1>4, <1>5, FreshIsKnown, FallbackDecides
<1>6. CASE ~ok /\ ~Fresh(f) /\ Ask(r, f)
  BY <1>4, <1>6 DEF Waits
<1> QED BY <1>3, <1>5, <1>6 DEF PrimaryKnown

\* What the routing of a request comes to, at its start or when a check is back.
Routing(r, q) ==
  /\ pc[r] \in {"new", "probe"}
  /\ input' = [input EXCEPT ![r] = q]
  /\ Decided(r, q) \/ Waits(r, q)
  /\ CacheInv'
  /\ UNCHANGED <<world, refreshed, reply>>

LEMMA RouteRoutes ==
  ASSUME IInv, NEW r \in Requests, NEW q \in Inputs, route(r, q)
  PROVE  Routing(r, q)
PROOF
<1> DEFINE p == Primary(q)
<1>1. CacheInv'
  BY DEF IInv, TypeOK, TimeInv, TruthInv, CacheInv, route, world
<1>2. Decided(r, q) \/ Waits(r, q)
  <2>1. CASE Fresh(p) /\ PrimaryKnown(r, q, health_cache[p].healthy)
    BY <2>1, Endpoints, FreshIsKnown, PrimaryDecides
  <2>2. CASE ~Fresh(p) /\ Ask(r, p)
    BY <2>2 DEF Waits
  <2> QED BY <2>1, <2>2 DEF route
<1> QED BY <1>1, <1>2 DEF route, Routing

LEMMA CheckRoutes ==
  ASSUME IInv, NEW r \in Requests, _is_healthy(r)
  PROVE  Routing(r, input[r])
PROOF
<1> DEFINE q == input[r]
<1>1. pc[r] = "probe" /\ UNCHANGED <<world, refreshed, input, reply>>
  BY DEF _is_healthy
<1>2. PICK ok \in Findings(r) :
        /\ health_cache' = Remembered(probe[r].to, ok)
        /\ \/ probe[r].to = Primary(q) /\ PrimaryKnown(r, q, ok)
           \/ probe[r].to = Fallback(q) /\ FallbackKnown(r, q, ok)
  BY DEF _is_healthy
<1>3. r \in Probers /\ probe[r].to # "none"
  BY <1>1 DEF Probers, IInv, TimeInv
<1>4. Known(probe[r].to, ok) /\ CacheInv'
  BY <1>1, <1>2, <1>3, FindingIsKnown
<1>5. Decided(r, q) \/ Waits(r, q)
  <2>1. CASE probe[r].to = Primary(q) /\ PrimaryKnown(r, q, ok)
    BY <1>4, <2>1, PrimaryDecides
  <2>2. CASE probe[r].to = Fallback(q) /\ FallbackKnown(r, q, ok)
    <3>1. Primary(q) \in ModelEndpoint
      BY Endpoints
    <3>2. now \in Nat /\ since[Primary(q)] \in Nat /\ probe[r].sent \in Nat
      BY <1>3, <3>1 DEF IInv, TypeOK, Probes
    <3>3. now <= probe[r].sent + CHECK_TIMEOUT
      BY <1>3 DEF IInv, TimeInv
    <3>4. status[Primary(q)] = "up" =>
            since[Primary(q)] + health_cache_ttl + CHECK_TIMEOUT > probe[r].sent
      BY <1>1, <2>2 DEF IInv, RouteInv
    <3>5. Doubtful(q, 2 * CHECK_TIMEOUT)
      BY <3>2, <3>3, <3>4, Times DEF Doubtful
    <3> QED BY <1>4, <2>2, <3>5, FallbackDecides
  <2> QED BY <1>2, <2>1, <2>2
<1>6. input' = [input EXCEPT ![r] = q]
  BY <1>1 DEF IInv, TypeOK
<1> QED BY <1>1, <1>4, <1>5, <1>6 DEF Routing
-----------------------------------------------------------------------------
\* The invariant holds at the start.
LEMMA InitialInv == Init => IInv
PROOF
<1> SUFFICES ASSUME Init PROVE IInv
  OBVIOUS
<1>1. TypeOK
  BY DEF Init, TypeOK, Statuses, NoProbe, Probes, NoInput, InputSet, NoDecision, Decisions
<1>2. TimeInv
  BY DEF Init, TimeInv, NoProbe, NoDecision
<1>3. TruthInv /\ DecisionInv /\ RouteInv
  BY DEF Init, TruthInv, DecisionInv, RouteInv
<1>4. CallInv
  BY DEF Init, CallInv
<1> QED BY <1>1, <1>2, <1>3, <1>4 DEF IInv

\* Routing keeps the invariant.
LEMMA RoutingKeeps ==
  ASSUME IInv, NEW r \in Requests, NEW q \in InputSet, Routing(r, q)
  PROVE  IInv'
PROOF
<1>1. now' = now /\ status' = status /\ since' = since /\ changes' = changes
      /\ refreshed' = refreshed /\ reply' = reply /\ input' = [input EXCEPT ![r] = q] /\ CacheInv'
  BY DEF Routing, world
<1>2. r \in Probers
  BY DEF Probers
<1>3. PICK d \in Decisions, m \in ModelEndpoint \cup {"none"}, s \in {"call", "probe"} :
        /\ decision' = [decision EXCEPT ![r] = d]
        /\ probe' = [probe EXCEPT ![r] = [to |-> m, sent |-> IF m = "none" THEN 0 ELSE now]]
        /\ pc' = [pc EXCEPT ![r] = s]
        /\ d.at <= now
        /\ s = "call" => Right(q, d)
        /\ s = "probe" => m # "none" /\ (m = Fallback(q) => Doubtful(q, CHECK_TIMEOUT))
  <2>1. CASE Decided(r, q)
    <3>1. PICK d \in Decisions : Right(q, d) /\ decision' = [decision EXCEPT ![r] = d]
      BY <2>1 DEF Decided
    <3>2. d.at <= now
      BY <3>1 DEF Right, IInv, TypeOK
    <3>3. probe' = [probe EXCEPT ![r] = [to |-> "none", sent |-> 0]] /\ pc' = [pc EXCEPT ![r] = "call"]
      BY <2>1 DEF Decided, NoProbe
    <3> QED BY <3>1, <3>2, <3>3
  <2>2. CASE Waits(r, q)
    <3>1. decision[r] \in Decisions /\ decision[r].at <= now /\ decision' = [decision EXCEPT ![r] = decision[r]]
      BY <2>2 DEF Waits, Ask, IInv, TypeOK, TimeInv
    <3>2. PICK m \in ModelEndpoint : Ask(r, m) /\ (m = Fallback(q) => Doubtful(q, CHECK_TIMEOUT))
      BY <2>2, Endpoints DEF Waits
    <3>3. m # "none"
      BY Endpoints
    <3> QED BY <3>1, <3>2, <3>3 DEF Ask
  <2> QED BY <2>1, <2>2 DEF Routing
<1>4. Primary(q) \in ModelEndpoint /\ Fallback(q) \in ModelEndpoint /\ Primary(q) # Fallback(q)
      /\ (\A x \in ModelEndpoint : x = Primary(q) \/ x = Fallback(q)) /\ "none" \notin ModelEndpoint
  BY Endpoints
<1>5. now \in Nat
  BY DEF IInv, TypeOK
<1>6. TypeOK'
  <2>1. probe' \in [Probers -> Probes]
    BY <1>3, <1>5 DEF IInv, TypeOK, Probes
  <2>2. pc' \in [Requests -> {"new", "probe", "call", "call_fallback", "verify", "record", "done"}]
    BY <1>3 DEF IInv, TypeOK
  <2>3. input' \in [Requests -> InputSet] /\ decision' \in [Requests -> Decisions]
    BY <1>1, <1>3 DEF IInv, TypeOK
  <2> QED BY <1>1, <2>1, <2>2, <2>3 DEF IInv, TypeOK, CacheInv
<1>7. TimeInv'
  <2>1. \A p \in Probers : probe'[p].to # "none" =>
          probe'[p].sent <= now /\ now <= probe'[p].sent + CHECK_TIMEOUT
    BY <1>2, <1>3, <1>5, Times DEF IInv, TypeOK, TimeInv
  <2>2. \A x \in Requests : decision'[x].at <= now
    BY <1>3 DEF IInv, TypeOK, TimeInv
  <2>3. \A x \in Requests : pc'[x] = "probe" => probe'[x].to # "none"
    BY <1>2, <1>3 DEF IInv, TypeOK, TimeInv, Probers
  <2> QED BY <1>1, <2>1, <2>2, <2>3 DEF IInv, TimeInv, CacheInv
<1>8. DecisionInv'
  <2>1. reply[r] = "none"
    BY DEF Routing, IInv, DecisionInv
  <2>2. s = "call" =>
          /\ {d.primary, d.fallback} \in {{Primary(q), Fallback(q)}, {Fallback(q), "none"}}
          /\ d.primary # "none"
    BY <1>3, <1>4 DEF Right
  <2> SUFFICES ASSUME NEW x \in Requests
               PROVE  /\ pc'[x] \in {"new", "probe"} => reply'[x] = "none"
                      /\ pc'[x] \in {"call", "call_fallback"} =>
                           /\ reply'[x] = "none"
                           /\ {decision'[x].primary, decision'[x].fallback} \in
                                {{Primary(input'[x]), Fallback(input'[x])}, {Fallback(input'[x]), "none"}}
                           /\ decision'[x].primary # "none"
                      /\ pc'[x] = "call_fallback" => decision'[x].fallback # "none"
    BY DEF DecisionInv, Primary, Fallback, Streams, estimate_complexity
  <2>3. CASE x = r
    <3>1. input'[r] = q /\ decision'[r] = d /\ pc'[r] = s /\ reply'[r] = "none"
      BY <1>1, <1>3, <2>1 DEF IInv, TypeOK
    <3> QED BY <1>3, <2>2, <2>3, <3>1
  <2>4. CASE x # r
    <3>1. input'[x] = input[x] /\ decision'[x] = decision[x] /\ pc'[x] = pc[x] /\ reply'[x] = reply[x]
      BY <1>1, <1>3, <2>4 DEF IInv, TypeOK
    <3> QED BY <3>1 DEF IInv, DecisionInv
  <2> QED BY <2>3, <2>4
<1>9. RouteInv'
  <2> SUFFICES ASSUME NEW x \in Requests, pc'[x] = "probe", probe'[x].to = Fallback(input'[x]),
                      status[Primary(input'[x])] = "up"
               PROVE  since[Primary(input'[x])] + health_cache_ttl + CHECK_TIMEOUT > probe'[x].sent
    BY <1>1 DEF RouteInv, Primary, Fallback, Streams, estimate_complexity
  <2>1. CASE x = r
    <3>1. input'[r] = q /\ pc'[r] = s /\ probe'[r].to = m /\ (m # "none" => probe'[r].sent = now)
      BY <1>1, <1>2, <1>3 DEF IInv, TypeOK
    <3> QED BY <1>3, <2>1, <3>1 DEF Doubtful
  <2>2. CASE x # r
    <3>1. input'[x] = input[x] /\ pc'[x] = pc[x] /\ probe'[x] = probe[x]
      BY <1>1, <1>3, <2>2 DEF IInv, TypeOK, Probers
    <3> QED BY <3>1 DEF IInv, RouteInv
  <2> QED BY <2>1, <2>2
<1>10. CallInv'
  <2> SUFFICES ASSUME NEW x \in Requests, NEW y \in ModelEndpoint,
                      status[y] = "up", Settled(y, decision'[x].at)
               PROVE  /\ pc'[x] = "call" => y \in {decision'[x].primary, decision'[x].fallback}
                      /\ pc'[x] = "call_fallback" => y = decision'[x].fallback
    BY <1>1 DEF CallInv, Settled
  <2>1. CASE x = r
    <3>1. decision'[r] = d /\ pc'[r] = s
      BY <1>3 DEF IInv, TypeOK
    <3> QED BY <1>3, <1>4, <2>1, <3>1 DEF Right
  <2>2. CASE x # r
    <3>1. decision'[x] = decision[x] /\ pc'[x] = pc[x]
      BY <1>3, <2>2 DEF IInv, TypeOK
    <3> QED BY <3>1 DEF IInv, CallInv
  <2> QED BY <2>1, <2>2
<1> QED BY <1>1, <1>6, <1>7, <1>8, <1>9, <1>10 DEF IInv, CacheInv
-----------------------------------------------------------------------------
\* The endpoint that a call is sent to, and what the call can bring.
LEMMA CallFacts ==
  ASSUME IInv, NEW r \in Requests, pc[r] \in {"call", "call_fallback"}
  PROVE  /\ decision[r] \in Decisions
         /\ decision[r].primary \in ModelEndpoint
         /\ pc[r] = "call_fallback" => decision[r].fallback \in ModelEndpoint
         /\ decision[r].fallback = "none" \/ decision[r].fallback \in ModelEndpoint
         /\ reply[r] = "none"
PROOF BY DEF IInv, TypeOK, Decisions, DecisionInv

\* A streamed answer comes from the primary, or is an error or nothing.
LEMMA StreamFacts ==
  ASSUME IInv, NEW r \in Requests, _call_model_stream(r)
  PROVE  /\ pc[r] = "call" /\ decision[r].primary \in ModelEndpoint
         /\ \E who \in {decision[r].primary, "empty", "error"} : Answered(r, who, "record")
PROOF
<1>1. pc[r] = "call" /\ decision[r].primary \in ModelEndpoint
  BY CallFacts DEF _call_model_stream
<1>2. \A outcome \in Outcomes(r, decision[r].primary) : outcome \in {"answer", "refusal", "exception"}
  BY <1>1, FaultsAssumption DEF Outcomes, IInv, TypeOK, Statuses
<1> QED BY <1>1, <1>2 DEF _call_model_stream

\* A reply keeps the invariant, and so does what follows it.
LEMMA AnsweredKeeps ==
  ASSUME IInv, NEW r \in Requests, NEW who \in ModelEndpoint \cup {"none", "apology", "error", "empty"},
         NEW next \in {"verify", "record", "done"}, pc[r] # "probe",
         reply' = [reply EXCEPT ![r] = who],
         \/ decision' = [decision EXCEPT ![r] = NoDecision] /\ input' = [input EXCEPT ![r] = NoInput]
         \/ decision' = decision /\ input' = input,
         pc' = [pc EXCEPT ![r] = next],
         UNCHANGED <<world, health_cache, probe, refreshed>>
  PROVE  IInv'
PROOF
<1>1. now' = now /\ status' = status /\ since' = since /\ changes' = changes
      /\ refreshed' = refreshed /\ probe' = probe /\ health_cache' = health_cache
  BY DEF world
<1>2. now \in Nat
  BY DEF IInv, TypeOK
<1>3. TypeOK'
  <2>1. NoDecision \in Decisions /\ NoInput \in InputSet
    BY DEF NoDecision, Decisions, NoInput, InputSet
  <2> QED BY <1>1, <2>1 DEF IInv, TypeOK
<1>4. pc'[r] = next /\ NoDecision.at <= now
  BY <1>2 DEF IInv, TypeOK, NoDecision
<1>5. \A x \in Requests : x # r => pc'[x] = pc[x] /\ decision'[x] = decision[x]
                              /\ input'[x] = input[x] /\ reply'[x] = reply[x]
  BY DEF IInv, TypeOK
<1>6. TimeInv'
  <2>1. \A x \in Requests : decision'[x].at <= now
    BY <1>4, <1>5 DEF IInv, TypeOK, TimeInv
  <2>2. \A x \in Requests : pc'[x] = "probe" => probe'[x].to # "none"
    BY <1>1, <1>4, <1>5 DEF IInv, TimeInv
  <2> QED BY <1>1, <2>1, <2>2 DEF IInv, TimeInv
<1>7. TruthInv'
  BY <1>1 DEF IInv, TruthInv
<1>8. DecisionInv'
  BY <1>4, <1>5 DEF IInv, DecisionInv, Primary, Fallback, Streams, estimate_complexity
<1>9. RouteInv'
  BY <1>1, <1>4, <1>5 DEF IInv, RouteInv, Primary, Fallback, Streams, estimate_complexity
<1>10. CallInv'
  BY <1>1, <1>4, <1>5 DEF IInv, CallInv, Settled
<1> QED BY <1>3, <1>6, <1>7, <1>8, <1>9, <1>10 DEF IInv

\* A primary that was settled and up when the request was routed does not fail.
LEMMA SettledAnswers ==
  ASSUME IInv, NEW r \in Requests, NEW m \in ModelEndpoint, status[m] = "up",
         Settled(m, decision[r].at), NEW outcome \in Outcomes(r, m)
  PROVE  outcome = "answer"
PROOF
<1>1. since[m] \in Nat /\ decision[r].at \in Nat
  BY DEF IInv, TypeOK, Decisions
<1>2. ~(since[m] >= decision[r].at)
  BY <1>1, Times DEF Settled
<1> QED BY <1>2 DEF Outcomes

\* A call keeps it: the fallback is called only where the primary failed.
LEMMA CallKeeps ==
  ASSUME IInv, NEW r \in Requests,
         _call_model(r) \/ call_fallback(r) \/ _call_model_stream(r)
  PROVE  IInv'
PROOF
<1>1. CASE _call_model(r)
  <2>1. PICK outcome \in Outcomes(r, decision[r].primary) :
          \/ outcome = "answer" /\ Answered(r, decision[r].primary, "verify")
          \/ /\ Raises(r, outcome) /\ decision[r].fallback # "none"
             /\ pc' = [pc EXCEPT ![r] = "call_fallback"]
             /\ UNCHANGED <<world, health_cache, probe, refreshed, input, decision, reply>>
          \/ /\ outcome # "answer" /\ (Raises(r, outcome) => decision[r].fallback = "none")
             /\ Answered(r, "apology", "verify")
    BY <1>1 DEF _call_model
  <2>2. pc[r] = "call" /\ decision[r].primary \in ModelEndpoint
    BY <1>1, CallFacts DEF _call_model
  <2>3. CASE Answered(r, decision[r].primary, "verify")
    BY <2>2, <2>3, AnsweredKeeps DEF Answered
  <2>4. CASE Answered(r, "apology", "verify")
    BY <2>2, <2>4, AnsweredKeeps DEF Answered
  <2>5. CASE /\ Raises(r, outcome) /\ decision[r].fallback # "none"
             /\ pc' = [pc EXCEPT ![r] = "call_fallback"]
             /\ UNCHANGED <<world, health_cache, probe, refreshed, input, decision, reply>>
    <3>1. now' = now /\ status' = status /\ since' = since /\ changes' = changes
      BY <2>5 DEF world
    <3>2. \A x \in Requests : x # r => pc'[x] = pc[x]
      BY <2>5 DEF IInv, TypeOK
    <3>3. pc'[r] = "call_fallback"
      BY <2>5 DEF IInv, TypeOK
    <3>4. TypeOK'
      BY <2>5, <3>1 DEF IInv, TypeOK
    <3>5. TimeInv' /\ TruthInv'
      BY <2>5, <3>1, <3>2, <3>3 DEF IInv, TimeInv, TruthInv
    <3>6. DecisionInv'
      BY <2>2, <2>5, <3>2, <3>3 DEF IInv, DecisionInv, Primary, Fallback, Streams, estimate_complexity
    <3>7. RouteInv'
      BY <2>5, <3>1, <3>2, <3>3 DEF IInv, RouteInv, Primary, Fallback, Streams, estimate_complexity
    <3>8. outcome # "answer"
      BY <2>5 DEF Raises
    <3>9. \A m \in ModelEndpoint : status[m] = "up" /\ Settled(m, decision[r].at) => m = decision[r].fallback
      <4>1. \A m \in ModelEndpoint : status[m] = "up" /\ Settled(m, decision[r].at) =>
              m \in {decision[r].primary, decision[r].fallback}
        BY <2>2 DEF IInv, CallInv
      <4> QED BY <2>1, <2>2, <3>8, <4>1, SettledAnswers
    <3>10. CallInv'
      BY <2>5, <3>1, <3>2, <3>3, <3>9 DEF IInv, CallInv, Settled
    <3> QED BY <3>4, <3>5, <3>6, <3>7, <3>10 DEF IInv
  <2> QED BY <2>1, <2>3, <2>4, <2>5
<1>2. CASE call_fallback(r)
  <2>1. PICK who \in {decision[r].fallback, "apology"} : Answered(r, who, "verify")
    BY <1>2 DEF call_fallback
  <2>2. pc[r] = "call_fallback" /\ decision[r].fallback \in ModelEndpoint
    BY <1>2, CallFacts DEF call_fallback
  <2> QED BY <2>1, <2>2, AnsweredKeeps DEF Answered
<1>3. CASE _call_model_stream(r)
  <2>1. PICK who \in {decision[r].primary, "empty", "error"} : Answered(r, who, "record")
    BY <1>3, StreamFacts
  <2> QED BY <1>3, <2>1, StreamFacts, AnsweredKeeps DEF Answered
<1> QED BY <1>1, <1>2, <1>3
-----------------------------------------------------------------------------
\* Steps of the environment: refreshes, changes of endpoints, time.
LEMMA RefreshKeeps ==
  ASSUME IInv, NEW f \in Refreshes, refresh_health(f)
  PROVE  IInv'
PROOF
<1>1. now' = now /\ status' = status /\ since' = since /\ changes' = changes
      /\ pc' = pc /\ input' = input /\ decision' = decision /\ reply' = reply
      /\ health_cache' = health_cache /\ refreshed' \subseteq Refreshes
  BY DEF refresh_health, world, IInv, TypeOK
<1>2. now \in Nat
  BY DEF IInv, TypeOK
<1>3. \A p \in Probers :
        probe'[p] = probe[p] \/ \E m \in ModelEndpoint : probe'[p] = [to |-> m, sent |-> now]
  BY DEF refresh_health
<1>4. \A r \in Requests : r \in Probers /\ probe'[r] = probe[r]
  <2> TAKE r \in Requests
  <2>1. r \in Probers /\ r \notin {f} \X ModelEndpoint
    BY ProbersAssumption DEF Probers
  <2> QED BY <2>1 DEF refresh_health
<1>5. TypeOK'
  <2>1. probe' \in [Probers -> Probes]
    <3>1. \A m \in ModelEndpoint : [to |-> m, sent |-> now] \in Probes
      BY <1>2 DEF Probes
    <3>2. \A p \in Probers : probe[p] \in Probes
      BY DEF IInv, TypeOK
    <3>3. \A p \in Probers : probe'[p] \in Probes
      BY <1>3, <3>1, <3>2
    <3>4. probe' = [p \in Probers |-> probe'[p]]
      BY DEF refresh_health
    <3> QED BY <3>3, <3>4
  <2> QED BY <1>1, <2>1 DEF IInv, TypeOK
<1>6. TimeInv'
  <2>1. \A p \in Probers : probe'[p].to # "none" =>
          probe'[p].sent <= now /\ now <= probe'[p].sent + CHECK_TIMEOUT
    <3>1. ASSUME NEW p \in Probers PROVE probe'[p] = probe[p] \/ probe'[p].sent = now
      <4>1. ASSUME NEW m, probe'[p] = [to |-> m, sent |-> now] PROVE probe'[p].sent = now
        BY <4>1
      <4> QED BY <1>3, <4>1
    <3>2. now <= now + CHECK_TIMEOUT
      BY <1>2, Times
    <3> QED BY <1>2, <3>1, <3>2 DEF IInv, TimeInv
  <2>2. \A r \in Requests : pc[r] = "probe" => probe'[r].to # "none"
    BY <1>4 DEF IInv, TimeInv
  <2> QED BY <1>1, <2>1, <2>2 DEF IInv, TimeInv
<1>7. TruthInv' /\ DecisionInv'
  BY <1>1 DEF IInv, TruthInv, DecisionInv, Primary, Fallback, Streams, estimate_complexity
<1>8. RouteInv' /\ CallInv'
  BY <1>1, <1>4 DEF IInv, RouteInv, CallInv, Settled, Primary, Fallback, Streams, estimate_complexity
<1> QED BY <1>5, <1>6, <1>7, <1>8 DEF IInv

LEMMA RefreshAnswerKeeps ==
  ASSUME IInv, NEW f \in Refreshes, NEW m \in ModelEndpoint, refresh_answered(f, m)
  PROVE  IInv'
PROOF
<1>1. now' = now /\ status' = status /\ since' = since /\ changes' = changes
      /\ pc' = pc /\ input' = input /\ decision' = decision /\ reply' = reply
      /\ refreshed' = refreshed
  BY DEF refresh_answered, world
<1>2. <<f, m>> \in Probers /\ probe[<<f, m>>].to = m /\ m # "none"
  BY DEF refresh_answered, Probers, ModelEndpoint
<1>3. CacheInv'
  <2>1. PICK ok \in Findings(<<f, m>>) : health_cache' = Remembered(probe[<<f, m>>].to, ok)
    BY <1>2 DEF refresh_answered
  <2> QED BY <1>2, <2>1, FindingIsKnown DEF refresh_answered
<1>4. \A r \in Requests : r \in Probers /\ probe'[r] = probe[r]
  BY ProbersAssumption DEF Probers, refresh_answered, IInv, TypeOK
<1>5. probe' \in [Probers -> Probes] /\ \A p \in Probers : probe'[p] = probe[p] \/ probe'[p].to = "none"
  BY <1>2 DEF refresh_answered, NoProbe, IInv, TypeOK, Probes
<1>6. TypeOK'
  BY <1>1, <1>3, <1>5 DEF IInv, TypeOK, CacheInv
<1>7. TimeInv'
  BY <1>1, <1>3, <1>4, <1>5 DEF IInv, TimeInv, CacheInv
<1>8. DecisionInv'
  BY <1>1 DEF IInv, DecisionInv, Primary, Fallback, Streams, estimate_complexity
<1>9. RouteInv' /\ CallInv'
  BY <1>1, <1>4 DEF IInv, RouteInv, CallInv, Settled, Primary, Fallback, Streams, estimate_complexity
<1> QED BY <1>3, <1>6, <1>7, <1>8, <1>9 DEF IInv, CacheInv

LEMMA ChangeKeeps ==
  ASSUME IInv, NEW m \in ModelEndpoint, change(m)
  PROVE  IInv'
PROOF
<1>1. now' = now /\ pc' = pc /\ input' = input /\ decision' = decision /\ reply' = reply
      /\ refreshed' = refreshed /\ probe' = probe /\ health_cache' = health_cache
      /\ changes' = changes + 1 /\ since' = [since EXCEPT ![m] = now]
  BY DEF change
<1>2. PICK s \in Statuses : status' = [status EXCEPT ![m] = s]
  BY DEF change
<1>3. now \in Nat /\ changes \in Nat /\ DOMAIN health_cache \subseteq ModelEndpoint
  BY DEF IInv, TypeOK
<1>4. since'[m] = now
      /\ \A x \in ModelEndpoint : x # m => since'[x] = since[x] /\ status'[x] = status[x]
  BY <1>1, <1>2 DEF IInv, TypeOK
<1>5. TypeOK'
  BY <1>1, <1>2, <1>3 DEF IInv, TypeOK
<1>6. TimeInv'
  BY <1>1, <1>3, <1>4 DEF IInv, TimeInv
<1>7. TruthInv'
  <2> SUFFICES ASSUME NEW x \in DOMAIN health_cache,
                      since'[x] + CHECK_TIMEOUT < health_cache[x].time
               PROVE  health_cache[x].healthy <=> status'[x] = "up"
    BY <1>1 DEF TruthInv
  <2>1. x # m
    <3>1. health_cache[x].time \in Nat /\ health_cache[x].time <= now
      BY DEF IInv, TypeOK, TimeInv
    <3> QED BY <1>3, <1>4, <3>1, Times
  <2> QED BY <1>3, <1>4, <2>1 DEF IInv, TruthInv
<1>8. DecisionInv'
  BY <1>1 DEF IInv, DecisionInv, Primary, Fallback, Streams, estimate_complexity
<1>9. RouteInv'
  <2> SUFFICES ASSUME NEW r \in Requests, pc[r] = "probe", probe[r].to = Fallback(input[r]),
                      status'[Primary(input[r])] = "up"
               PROVE  since'[Primary(input[r])] + health_cache_ttl + CHECK_TIMEOUT > probe[r].sent
    BY <1>1 DEF RouteInv, Primary, Fallback, Streams, estimate_complexity
  <2>1. Primary(input[r]) \in ModelEndpoint
    BY Endpoints
  <2>2. CASE Primary(input[r]) = m
    <3>1. probe[r].sent \in Nat /\ probe[r].sent <= now
      BY DEF IInv, TypeOK, TimeInv, Probers, Probes
    <3> QED BY <1>3, <1>4, <2>2, <3>1, Times
  <2>3. CASE Primary(input[r]) # m
    BY <1>4, <2>1, <2>3 DEF IInv, RouteInv
  <2> QED BY <2>2, <2>3
<1>10. CallInv'
  <2> SUFFICES ASSUME NEW r \in Requests, NEW x \in ModelEndpoint, status'[x] = "up",
                      since'[x] + health_cache_ttl + 2 * CHECK_TIMEOUT <= decision[r].at
               PROVE  /\ pc[r] = "call" => x \in {decision[r].primary, decision[r].fallback}
                      /\ pc[r] = "call_fallback" => x = decision[r].fallback
    BY <1>1 DEF CallInv, Settled
  <2>1. x # m
    <3>1. decision[r].at \in Nat /\ decision[r].at <= now
      BY DEF IInv, TypeOK, TimeInv, Decisions
    <3> QED BY <1>3, <1>4, <3>1, Times
  <2> QED BY <1>4, <2>1 DEF IInv, CallInv, Settled
<1> QED BY <1>5, <1>6, <1>7, <1>8, <1>9, <1>10 DEF IInv

LEMMA TickKeeps == ASSUME IInv, Tick PROVE IInv'
PROOF
<1>1. now' = now + 1 /\ UNCHANGED <<status, since, changes, health_cache, probe, refreshed,
                                    pc, input, decision, reply>>
  BY DEF Tick
<1>2. now \in Nat
  BY DEF IInv, TypeOK
<1>3. TypeOK'
  BY <1>1 DEF IInv, TypeOK
<1>4. TimeInv'
  <2>1. \A m \in ModelEndpoint : since[m] <= now + 1
    BY <1>2 DEF IInv, TypeOK, TimeInv
  <2>2. \A m \in DOMAIN health_cache : health_cache[m].time <= now + 1
    BY <1>2 DEF IInv, TypeOK, TimeInv
  <2>3. \A p \in Probers : probe[p].to # "none" =>
          probe[p].sent <= now + 1 /\ now + 1 <= probe[p].sent + CHECK_TIMEOUT
    <3> SUFFICES ASSUME NEW p \in Probers, probe[p].to # "none"
                 PROVE  probe[p].sent <= now + 1 /\ now + 1 <= probe[p].sent + CHECK_TIMEOUT
      OBVIOUS
    <3>1. probe[p].sent \in Nat /\ probe[p].sent <= now /\ now < probe[p].sent + CHECK_TIMEOUT
      BY DEF IInv, TypeOK, TimeInv, Probes, Tick
    <3> QED BY <1>2, <3>1, Times
  <2>4. \A r \in Requests : decision[r].at <= now + 1
    BY <1>2 DEF IInv, TypeOK, TimeInv, Decisions
  <2> QED BY <1>1, <2>1, <2>2, <2>3, <2>4 DEF IInv, TimeInv
<1>5. TruthInv' /\ DecisionInv' /\ RouteInv' /\ CallInv'
  BY <1>1 DEF IInv, TruthInv, DecisionInv, RouteInv, CallInv, Settled, Primary, Fallback,
              Streams, estimate_complexity
<1> QED BY <1>3, <1>4, <1>5 DEF IInv
-----------------------------------------------------------------------------
\* Every step keeps the invariant.
LEMMA StepKeeps == IInv /\ [Next]_vars => IInv'
PROOF
<1> SUFFICES ASSUME IInv, [Next]_vars PROVE IInv'
  OBVIOUS
<1>1. ASSUME NEW r \in Requests, process(r) PROVE IInv'
  <2>1. ASSUME NEW q \in Inputs, route(r, q) PROVE IInv'
    BY <2>1, RouteRoutes, RoutingKeeps, InputsAssumption
  <2>2. CASE _is_healthy(r)
    <3>1. input[r] \in InputSet
      BY DEF IInv, TypeOK
    <3> QED BY <2>2, <3>1, CheckRoutes, RoutingKeeps
  <2>3. CASE _call_model(r) \/ call_fallback(r) \/ _call_model_stream(r)
    BY <2>3, CallKeeps
  <2>4. CASE _verify_output(r)
    <3>1. reply[r] \in ModelEndpoint \cup {"none", "apology", "error", "empty"}
          /\ reply' = [reply EXCEPT ![r] = reply[r]]
      BY <2>4 DEF _verify_output, IInv, TypeOK
    <3> QED BY <2>4, <3>1, AnsweredKeeps DEF _verify_output
  <2>5. CASE _record_trajectory(r)
    BY <2>5, AnsweredKeeps DEF _record_trajectory
  <2> QED BY <1>1, <2>1, <2>2, <2>3, <2>4, <2>5 DEF process
<1>2. ASSUME NEW f \in Refreshes, refresh_health(f) PROVE IInv'
  BY <1>2, RefreshKeeps
<1>3. ASSUME NEW f \in Refreshes, NEW m \in ModelEndpoint, refresh_answered(f, m) PROVE IInv'
  BY <1>3, RefreshAnswerKeeps
<1>4. ASSUME NEW m \in ModelEndpoint, change(m) PROVE IInv'
  BY <1>4, ChangeKeeps
<1>5. CASE Tick
  BY <1>5, TickKeeps
<1>6. CASE UNCHANGED vars
  <2>1. TypeOK' /\ TimeInv' /\ TruthInv'
    BY <1>6 DEF vars, IInv, TypeOK, TimeInv, TruthInv
  <2>2. DecisionInv' /\ RouteInv' /\ CallInv'
    BY <1>6 DEF vars, IInv, DecisionInv, RouteInv, CallInv, Settled, Primary, Fallback, Streams,
                estimate_complexity
  <2> QED BY <2>1, <2>2 DEF IInv
<1> QED BY <1>1, <1>2, <1>3, <1>4, <1>5, <1>6 DEF Next

\* The invariant behind both promises of the router, for every instance.
THEOREM Inductive == Spec => []IInv
PROOF BY InitialInv, StepKeeps, PTL DEF Spec

\* The state stays within its types.
THEOREM TypeCorrect == Spec => []TypeOK
PROOF BY Inductive, PTL DEF IInv

\* A step that is not a step of r leaves what r waits for and has.
LEMMA Others ==
  ASSUME IInv, [Next]_vars, NEW r \in Requests, ~process(r)
  PROVE  pc'[r] = pc[r] /\ reply'[r] = reply[r]
PROOF
<1>1. CASE UNCHANGED vars
  BY <1>1 DEF vars
<1>2. ASSUME NEW x \in Requests, process(x) PROVE pc'[r] = pc[r] /\ reply'[r] = reply[r]
  <2>1. x # r
    BY <1>2
  <2>2. ASSUME NEW q \in Inputs, route(x, q) PROVE pc'[r] = pc[r] /\ reply'[r] = reply[r]
    BY <2>1, <2>2, RouteRoutes DEF Routing, Decided, Waits, Ask, IInv, TypeOK
  <2>3. CASE _is_healthy(x)
    BY <2>1, <2>3, CheckRoutes DEF Routing, Decided, Waits, Ask, IInv, TypeOK
  <2>4. CASE _call_model(x)
    BY <2>1, <2>4 DEF _call_model, Answered, IInv, TypeOK
  <2>5. CASE call_fallback(x) \/ _call_model_stream(x)
    BY <2>1, <2>5, StreamFacts DEF call_fallback, Answered, IInv, TypeOK
  <2>6. CASE _verify_output(x) \/ _record_trajectory(x)
    BY <2>1, <2>6 DEF _verify_output, _record_trajectory, IInv, TypeOK
  <2> QED BY <1>2, <2>2, <2>3, <2>4, <2>5, <2>6 DEF process
<1>3. CASE \E f \in Refreshes : refresh_health(f) \/ \E m \in ModelEndpoint : refresh_answered(f, m)
  BY <1>3 DEF refresh_health, refresh_answered
<1>4. CASE Tick \/ \E m \in ModelEndpoint : change(m)
  BY <1>4 DEF Tick, change
<1> QED BY <1>1, <1>2, <1>3, <1>4 DEF Next

\* Whatever order checks come back in, a request goes to the endpoint that has been
\* settled: to its primary while that is up, to its fallback while only that is.
THEOREM RoutesFollowEndpoints == Spec => RoutedToLiving
PROOF
<1>1. ASSUME IInv, [Next]_vars PROVE \A r \in Requests : Decides(r) => RightfulEndpoint(r)
  <2> SUFFICES ASSUME NEW r \in Requests, Decides(r) PROVE RightfulEndpoint(r)
    OBVIOUS
  <2>1. process(r)
    BY <1>1, Others DEF Decides
  <2>2. ASSUME NEW q \in InputSet, Routing(r, q) PROVE RightfulEndpoint(r)
    <3>1. Decided(r, q)
      BY <1>1, <2>2 DEF Routing, Waits, Ask, Decides, IInv, TypeOK
    <3>2. PICK d \in Decisions : Right(q, d) /\ decision' = [decision EXCEPT ![r] = d]
      BY <3>1 DEF Decided
    <3>3. decision'[r] = d /\ input'[r] = q
      BY <1>1, <2>2, <3>2 DEF Routing, IInv, TypeOK
    <3>4. Primary(input'[r]) = Primary(q) /\ Fallback(input'[r]) = Fallback(q)
      BY <3>3
    <3> QED BY <3>2, <3>3, <3>4 DEF Right, RightfulEndpoint
  <2>3. ASSUME NEW q \in Inputs, route(r, q) PROVE RightfulEndpoint(r)
    BY <1>1, <2>2, <2>3, RouteRoutes, InputsAssumption
  <2>4. CASE _is_healthy(r)
    <3>1. input[r] \in InputSet
      BY <1>1 DEF IInv, TypeOK
    <3> QED BY <1>1, <2>2, <2>4, <3>1, CheckRoutes
  <2>5. CASE _call_model(r) \/ call_fallback(r)
    BY <1>1, <2>5 DEF _call_model, call_fallback, Answered, Decides, IInv, TypeOK
  <2>6. CASE _call_model_stream(r)
    BY <1>1, <2>6, StreamFacts DEF Decides
  <2>7. CASE _verify_output(r) \/ _record_trajectory(r)
    BY <1>1, <2>7 DEF _verify_output, _record_trajectory, Decides, IInv, TypeOK
  <2> QED BY <2>1, <2>3, <2>4, <2>5, <2>6, <2>7 DEF process
<1>2. [][\A r \in Requests : Decides(r) => RightfulEndpoint(r)]_vars <=> RoutedToLiving
  BY DEF RoutedToLiving
<1> QED BY <1>1, <1>2, Inductive, PTL DEF Spec

\* A plain request is put off only if no endpoint was settled and up from its routing
\* to its answer, or its primary answered with an error that nobody looked at.
THEOREM ApologiesAreDue == Spec => AnsweredByLiving
PROOF
<1>1. ASSUME IInv, [Next]_vars PROVE \A r \in Requests : Apologizes(r) => PutOff(r)
  <2> SUFFICES ASSUME NEW r \in Requests, Apologizes(r) PROVE PutOff(r)
    OBVIOUS
  <2>1. process(r)
    BY <1>1, Others DEF Apologizes
  <2>2. "apology" \notin ModelEndpoint
    BY DEF ModelEndpoint
  <2>3. CASE _call_model(r)
    <3>1. PICK outcome \in Outcomes(r, decision[r].primary) :
            \/ outcome = "answer" /\ Answered(r, decision[r].primary, "verify")
            \/ reply' = reply
            \/ outcome # "answer" /\ (Raises(r, outcome) => decision[r].fallback = "none")
      BY <2>3 DEF _call_model
    <3>2. pc[r] = "call" /\ decision[r].primary \in ModelEndpoint
      BY <1>1, <2>3, CallFacts DEF _call_model
    <3>3. outcome # "answer" /\ (Raises(r, outcome) => decision[r].fallback = "none")
      BY <1>1, <2>2, <3>1, <3>2 DEF Apologizes, Answered, IInv, TypeOK
    <3>4. CASE Raises(r, outcome)
      <4>1. \A m \in ModelEndpoint : status[m] = "up" /\ Settled(m, decision[r].at) =>
              m = decision[r].primary
        BY <1>1, <3>2, <3>3, <3>4, Endpoints DEF IInv, CallInv
      <4> QED BY <1>1, <3>1, <3>2, <3>3, <4>1, SettledAnswers DEF PutOff
    <3>5. CASE ~Raises(r, outcome)
      <4>1. outcome \in {"answer", "refusal", "exception"}
        BY <1>1, <3>2, FaultsAssumption DEF Outcomes, IInv, TypeOK, Statuses
      <4>2. outcome = "refusal" /\ ~Streams(input[r])
        BY <3>3, <3>5, <4>1 DEF Raises
      <4> QED BY <3>1, <3>2, <4>2 DEF PutOff
    <3> QED BY <3>4, <3>5
  <2>4. CASE call_fallback(r)
    <3>1. PICK outcome \in Outcomes(r, decision[r].fallback) :
            Answered(r, IF outcome = "answer" THEN decision[r].fallback ELSE "apology", "verify")
      BY <2>4 DEF call_fallback
    <3>2. pc[r] = "call_fallback" /\ decision[r].fallback \in ModelEndpoint
      BY <1>1, <2>4, CallFacts DEF call_fallback
    <3>3. outcome # "answer"
      BY <1>1, <2>2, <3>1, <3>2 DEF Apologizes, Answered, IInv, TypeOK
    <3>4. \A m \in ModelEndpoint : status[m] = "up" /\ Settled(m, decision[r].at) =>
            m = decision[r].fallback
      BY <1>1, <3>2 DEF IInv, CallInv
    <3> QED BY <1>1, <3>1, <3>2, <3>3, <3>4, SettledAnswers DEF PutOff
  <2>5. CASE ~(_call_model(r) \/ call_fallback(r))
    <3>1. ASSUME NEW q \in Inputs, route(r, q) PROVE FALSE
      BY <1>1, <3>1 DEF route, Apologizes
    <3>2. ~_is_healthy(r) /\ ~_verify_output(r)
      BY <1>1 DEF _is_healthy, _verify_output, Apologizes
    <3>3. ~_record_trajectory(r)
      BY <1>1 DEF _record_trajectory, Apologizes, IInv, TypeOK
    <3>4. CASE _call_model_stream(r)
      <4>1. decision[r].primary \in ModelEndpoint
        BY <1>1, <3>4, StreamFacts
      <4>2. PICK who \in {decision[r].primary, "empty", "error"} : Answered(r, who, "record")
        BY <1>1, <3>4, StreamFacts
      <4> QED BY <1>1, <2>2, <4>1, <4>2 DEF Answered, Apologizes, IInv, TypeOK
    <3> QED BY <2>1, <2>5, <3>1, <3>2, <3>3, <3>4 DEF process
  <2> QED BY <2>3, <2>4, <2>5
<1>2. [][\A r \in Requests : Apologizes(r) => PutOff(r)]_vars <=> AnsweredByLiving
  BY DEF AnsweredByLiving
<1> QED BY <1>1, <1>2, Inductive, PTL DEF Spec
=============================================================================
