-------------------------- MODULE McpGatewayProofs --------------------------
(***************************************************************************)
(* The rate limiter admits no more than the limit in any window and        *)
(* rejects only where the window is full, for every configuration, clock   *)
(* and number of requests.  The argument: the limiter's list of a key      *)
(* holds forwarded requests only, and all that still count (LimiterInv),   *)
(* because the clock has not gone faster than time since it was last set   *)
(* forward (ClockInv); so its length decides both.  The log has one event  *)
(* for each request that wants one, under the number of the request.       *)
(***************************************************************************)
EXTENDS McpGateway, FiniteSetTheorems, TLAPS

\* A listed tool whose limit parses has a number of requests and a length.
LEMMA LimitFacts ==
  ASSUME allowlist \in Configs, NEW tool, Listed(tool)
  PROVE  /\ tool \in Tools
         /\ Limit(tool) \in Nat
         /\ Window(tool) \in Nat \ {0}
PROOF
<1>1. Permission(tool) \in Permissions /\ tool \in Tools
  BY ConfigsAssumption DEF IsAllowlist, Listed, Permission
<1>2. Permission(tool).rate_limit \in RateLimits
  BY <1>1 DEF Permissions
<1>3. Limit(tool) \in Nat
  BY <1>2 DEF Limit, RateLimits
<1>4. Window(tool) \in Nat \ {0}
  BY SecondsAssumption DEF Window
<1> QED BY <1>1, <1>3, <1>4

\* A part of a finite set is finite and no larger.
LEMMA PartIsSmaller ==
  ASSUME NEW S, IsFiniteSet(S), NEW T, T \subseteq S
  PROVE  /\ IsFiniteSet(T) /\ Cardinality(T) \in Nat
         /\ Cardinality(S) \in Nat /\ Cardinality(T) <= Cardinality(S)
PROOF BY FS_Subset, FS_CardinalityType

\* The inductive invariant holds when the gateway starts.
LEMMA InitialInv == Init => IInv
PROOF
<1> SUFFICES ASSUME Init PROVE IInv
  OBVIOUS
<1>1. TypeOK
  BY SettingsAssumption DEF Init, TypeOK
<1>2. HistoryInv /\ ClockInv /\ AuditTrail
  BY FS_EmptySet DEF Init, HistoryInv, ClockInv, AuditTrail
<1>3. LimiterInv
  BY DEF Init, LimiterInv, Admitted, Keys
<1>4. RejectedInv /\ RejectionJustified
  BY DEF Init, RejectedInv, RejectionJustified
<1>5. WindowBound
  <2> SUFFICES ASSUME NEW tool \in DOMAIN allowlist.allowed_tools, NEW method \in Methods,
                      NEW t \in 0..now
               PROVE  Cardinality({g \in Admitted(tool, method) :
                                     g.id > trusted /\ g.at <= t /\ t < g.at + Window(tool)}) <= Limit(tool)
    BY DEF WindowBound
  <2>1. {g \in Admitted(tool, method) : g.id > trusted /\ g.at <= t /\ t < g.at + Window(tool)} = {}
    BY DEF Init, Admitted
  <2>2. Limit(tool) \in Nat
    BY <1>1, LimitFacts DEF TypeOK, Listed
  <2> QED BY <2>1, <2>2, FS_EmptySet
<1> QED BY <1>1, <1>2, <1>3, <1>4, <1>5 DEF IInv

\* What still counts is young, by whatever the clock says now.
LEMMA CountsIsYoung ==
  ASSUME IInv, NEW t, NEW m, NEW x \in Admitted(t, m),
         x.id > trusted, now < x.at + Window(t), Listed(t)
  PROVE  x.time + Window(t) > clock
PROOF
<1>1. clock + x.at <= x.time + now
  BY DEF IInv, ClockInv, Admitted
<1>2. /\ x.time \in Nat /\ x.at \in Nat /\ now \in Nat /\ clock \in Nat
      /\ Window(t) \in Nat
  BY LimitFacts DEF IInv, TypeOK, Admitted, Served
<1> QED BY <1>1, <1>2

\* So a request that still counts and is remembered is recent.
LEMMA CountsIsRecent ==
  ASSUME IInv, NEW t, NEW m, NEW x \in Admitted(t, m), x \in requests[t, m],
         x.id > trusted, now < x.at + Window(t), Listed(t)
  PROVE  x \in Recent(t, m)
PROOF BY CountsIsYoung, Zenon DEF Recent

\* The log has no event of a number that is not given yet.
LEMMA NewIsUnlogged ==
  ASSUME IInv, NEW a \in audit
  PROVE  a.id \in Nat /\ a.id <= Cardinality(served)
PROOF BY DEF IInv, TypeOK, AuditEvents, AuditTrail, HistoryInv

\* Every request keeps the invariant.
LEMMA InvokeKeepsInv ==
  ASSUME IInv, NEW tool \in Tools, NEW method \in Methods, invoke_tool(tool, method)
  PROVE  IInv'
PROOF
<1> DEFINE outcome == Outcome(tool, method)
           id == Cardinality(served) + 1
           g == [id |-> id, tool |-> tool, method |-> method, outcome |-> outcome,
                 time |-> clock, at |-> now, life |-> life]
<1>1. /\ served' = served \cup {g}
      /\ audit' = audit \cup {[id |-> id, status |-> s] : s \in Statuses(tool, outcome)}
      /\ requests' = IF IsLimited(tool, method)
                     THEN [requests EXCEPT ![<<tool, method>>] = Remembered(tool, method, g)]
                     ELSE requests
      /\ now' = now /\ allowlist' = allowlist /\ life' = life
      /\ clock' = clock /\ settings' = settings /\ trusted' = trusted
  BY DEF invoke_tool
<1>2. outcome \in Outcomes
  BY DEF Outcome, Outcomes
<1>3. Cardinality(served) \in Nat /\ IsFiniteSet(served)
  BY FS_CardinalityType DEF IInv, HistoryInv
<1>4. g \in Served /\ id \in Nat \ {0}
  BY <1>2, <1>3 DEF IInv, TypeOK, Served
<1>5. g \notin served
  BY <1>3 DEF IInv, HistoryInv
<1>6. IsFiniteSet(served') /\ Cardinality(served') = Cardinality(served) + 1
  BY <1>1, <1>3, <1>5, FS_AddElement
<1>7. \A t, m : \A x : x \in Admitted(t, m)' <=>
        x \in Admitted(t, m) \/ (x = g /\ outcome = "success" /\ t = tool /\ m = method)
  BY <1>1 DEF Admitted
<1>8. \A t : /\ Listed(t)' <=> Listed(t)
             /\ Parses(t)' <=> Parses(t)
             /\ Window(t)' = Window(t)
             /\ Limit(t)' = Limit(t)
  BY <1>1 DEF Listed, Parses, Window, Limit, Permission
<1>9. IsLimited(tool, method) => (outcome = "success" <=> HasRoom(tool, method))
  BY DEF Outcome, IsLimited
<1>10. outcome = "rate_limited" => IsLimited(tool, method) /\ ~HasRoom(tool, method)
  BY DEF Outcome, IsLimited
<1>11. outcome = "success" /\ Listed(tool) => Parses(tool) /\ IsLimited(tool, method)
  BY DEF Outcome, IsLimited
<1>12. /\ requests \in [Keys -> SUBSET Served]
       /\ <<tool, method>> \in Keys
       /\ Recent(tool, method) \subseteq requests[tool, method]
  BY DEF IInv, TypeOK, Keys, Recent
<1>13. TypeOK'
  <2>1. requests' \in [Keys -> SUBSET Served]
    BY <1>1, <1>4, <1>12 DEF Remembered
  <2>2. audit' \subseteq AuditEvents
    <3>1. Statuses(tool, outcome) \subseteq {"denied", "error", "success"}
      BY DEF Statuses
    <3> QED BY <1>1, <1>4, <3>1 DEF IInv, TypeOK, AuditEvents
  <2> QED BY <1>1, <1>4, <2>1, <2>2 DEF IInv, TypeOK
<1>14. HistoryInv'
  <2> SUFFICES ASSUME NEW s \in served'
               PROVE  s.id <= Cardinality(served') /\ s.at <= now' /\ s.life <= life'
    BY <1>6 DEF HistoryInv
  <2>1. CASE s = g
    BY <2>1, <1>1, <1>3, <1>6 DEF IInv, TypeOK
  <2>2. CASE s \in served
    <3>1. s.id \in Nat /\ s.id <= Cardinality(served) /\ s.at <= now /\ s.life <= life
      BY <2>2 DEF IInv, TypeOK, Served, HistoryInv
    <3> QED BY <3>1, <1>1, <1>3, <1>6
  <2> QED BY <2>1, <2>2, <1>1
<1>15. LimiterInv'
  <2> SUFFICES ASSUME NEW t \in Tools, NEW m \in Methods
               PROVE  /\ requests'[t, m] \subseteq Admitted(t, m)'
                      /\ Listed(t)' /\ Parses(t)' =>
                           \A x \in Admitted(t, m)' :
                             x.id > trusted' /\ now' < x.at + Window(t)' => x \in requests'[t, m]
    BY DEF LimiterInv
  <2>1. /\ requests[t, m] \subseteq Admitted(t, m)
        /\ Listed(t) /\ Parses(t) =>
             \A x \in Admitted(t, m) :
               x.id > trusted /\ now < x.at + Window(t) => x \in requests[t, m]
    BY DEF IInv, LimiterInv
  <2>2. <<t, m>> \in Keys
    BY DEF Keys
  <2>3. CASE <<t, m>> = <<tool, method>> /\ IsLimited(tool, method)
    <3>1. t = tool /\ m = method
      BY <2>3
    <3>2. requests'[t, m] = Remembered(tool, method, g)
      BY <1>1, <1>12, <2>3
    <3>3. CASE HasRoom(tool, method)
      <4>1. outcome = "success"
        BY <1>9, <2>3, <3>3
      <4>2. requests'[t, m] = Recent(tool, method) \cup {g}
        BY <3>2, <3>3 DEF Remembered
      <4>3. \A x \in Admitted(t, m) :
              x.id > trusted /\ now < x.at + Window(t) /\ Listed(t) /\ Parses(t)
                => x \in Recent(tool, method)
        BY <2>1, <3>1, CountsIsRecent
      <4>4. requests'[t, m] \subseteq Admitted(t, m)'
        BY <4>1, <4>2, <2>1, <1>7, <1>12, <3>1
      <4> QED BY <4>2, <4>3, <4>4, <1>1, <1>7, <1>8
    <3>4. CASE ~HasRoom(tool, method)
      <4>1. outcome # "success"
        BY <1>9, <2>3, <3>4
      <4>2. requests'[t, m] = Recent(tool, method)
        BY <3>2, <3>4 DEF Remembered
      <4>3. \A x \in Admitted(t, m) :
              x.id > trusted /\ now < x.at + Window(t) /\ Listed(t) /\ Parses(t)
                => x \in Recent(tool, method)
        BY <2>1, <3>1, CountsIsRecent
      <4>4. requests'[t, m] \subseteq Admitted(t, m)'
        BY <4>2, <2>1, <1>7, <1>12, <3>1
      <4> QED BY <4>1, <4>2, <4>3, <4>4, <1>1, <1>7, <1>8
    <3> QED BY <3>3, <3>4
  <2>4. CASE <<t, m>> # <<tool, method>>
    <3>1. requests'[t, m] = requests[t, m]
      BY <1>1, <1>12, <2>2, <2>4
    <3>2. t # tool \/ m # method
      BY <2>4
    <3>3. Admitted(t, m)' = Admitted(t, m)
      <4>1. \A x : x \in Admitted(t, m)' <=> x \in Admitted(t, m)
        BY <1>7, <3>2
      <4>2. Admitted(t, m)' \subseteq served' /\ Admitted(t, m) \subseteq served
        BY DEF Admitted
      <4> QED BY <4>1, <4>2
    <3> QED BY <2>1, <3>1, <3>3, <1>1, <1>8
  <2>5. CASE t = tool /\ m = method /\ ~IsLimited(tool, method)
    <3>1. requests'[t, m] = requests[t, m]
      BY <1>1, <2>5
    <3>2. Listed(t) => outcome # "success"
      BY <1>11, <2>5
    <3> QED BY <2>1, <2>5, <3>1, <3>2, <1>1, <1>7, <1>8
  <2> QED BY <2>3, <2>4, <2>5
<1>16. RejectedInv'
  <2> SUFFICES ASSUME NEW s \in served', s.life = life', s.outcome = "rate_limited"
               PROVE  Listed(s.tool)' /\ Parses(s.tool)'
    BY DEF RejectedInv
  <2>1. CASE s = g
    BY <2>1, <1>8, <1>10 DEF IsLimited
  <2>2. CASE s \in served
    BY <2>2, <1>1, <1>8 DEF IInv, RejectedInv
  <2> QED BY <2>1, <2>2, <1>1
<1>17. WindowBound'
  <2> SUFFICES ASSUME NEW t \in DOMAIN allowlist'.allowed_tools, NEW m \in Methods, Parses(t)',
                      NEW u \in 0..now'
               PROVE  Cardinality({x \in Admitted(t, m)' :
                                     /\ x.id > trusted' /\ x.at <= u
                                     /\ u < x.at + Window(t)'}) <= Limit(t)'
    BY DEF WindowBound
  <2> DEFINE Old == {x \in Admitted(t, m) : x.id > trusted /\ x.at <= u /\ u < x.at + Window(t)}
             New == {x \in Admitted(t, m)' : x.id > trusted' /\ x.at <= u /\ u < x.at + Window(t)'}
  <2>1. Listed(t) /\ Parses(t) /\ u \in 0..now /\ Cardinality(Old) <= Limit(t)
    BY <1>1, <1>8 DEF IInv, WindowBound, Listed
  <2>2. t \in Tools /\ Limit(t) \in Nat /\ Window(t) \in Nat \ {0} /\ now \in Nat
    BY <2>1, LimitFacts DEF IInv, TypeOK
  <2>3. CASE t = tool /\ m = method /\ outcome = "success" /\ u = now
    <3>1. HasRoom(tool, method)
      BY <2>1, <2>3, <1>9, <1>11
    <3>2. New \subseteq Recent(tool, method) \cup {g}
      <4> SUFFICES ASSUME NEW x \in New, x # g
                   PROVE  x \in Recent(tool, method)
        OBVIOUS
      <4>1. x \in Admitted(t, m) /\ x.id > trusted /\ now < x.at + Window(t)
        BY <2>3, <1>1, <1>7, <1>8
      <4>2. x \in requests[t, m]
        BY <4>1, <2>1, <2>2 DEF IInv, LimiterInv
      <4> QED BY <4>1, <4>2, <2>1, <2>3, CountsIsRecent
    <3>3. Recent(tool, method) \subseteq served
      BY <1>12 DEF IInv, LimiterInv, Admitted
    <3>4. /\ IsFiniteSet(Recent(tool, method)) /\ Cardinality(Recent(tool, method)) \in Nat
          /\ g \notin Recent(tool, method)
      BY <3>3, <1>3, <1>5, PartIsSmaller
    <3>5. /\ IsFiniteSet(Recent(tool, method) \cup {g})
          /\ Cardinality(Recent(tool, method) \cup {g}) = Cardinality(Recent(tool, method)) + 1
      BY <3>4, FS_AddElement
    <3>6. /\ Cardinality(New) \in Nat
          /\ Cardinality(New) <= Cardinality(Recent(tool, method)) + 1
      <4> HIDE DEF New
      <4> QED BY <3>2, <3>5, PartIsSmaller
    <3>7. Cardinality(Recent(tool, method)) < Limit(t)
      BY <3>1, <2>3 DEF HasRoom
    <3>8. Cardinality(New) <= Limit(t)
      <4> HIDE DEF New
      <4> QED BY <3>4, <3>6, <3>7, <2>2
    <3> QED BY <3>8, <1>8
  <2>4. CASE ~(t = tool /\ m = method /\ outcome = "success" /\ u = now)
    <3>1. New = Old
      <4>1. ASSUME NEW x \in Admitted(t, m)', x.at <= u
            PROVE  x \in Admitted(t, m)
        <5>1. ~(x = g /\ outcome = "success" /\ t = tool /\ m = method)
          BY <4>1, <2>1, <2>2, <2>4
        <5> QED BY <4>1, <5>1, <1>7
      <4>2. \A x \in Admitted(t, m) : x \in Admitted(t, m)'
        BY <1>7
      <4> QED BY <4>1, <4>2, <1>1, <1>8
    <3> QED BY <3>1, <2>1, <1>8
  <2> QED BY <2>3, <2>4
<1>18. RejectionJustified'
  <2> SUFFICES ASSUME NEW s \in served', s.life = life', s.outcome = "rate_limited"
               PROVE  Cardinality({x \in Admitted(s.tool, s.method)' :
                        x.id < s.id /\ s.time < x.time + Window(s.tool)'}) >= Limit(s.tool)'
    BY DEF RejectionJustified
  <2> DEFINE New == {x \in Admitted(s.tool, s.method)' :
                       x.id < s.id /\ s.time < x.time + Window(s.tool)'}
  <2>1. Listed(s.tool) /\ Limit(s.tool) \in Nat /\ Window(s.tool) \in Nat
    BY <1>13, <1>16, <1>8, LimitFacts DEF RejectedInv, IInv, TypeOK
  <2>2. New \subseteq served' /\ IsFiniteSet(served')
    BY <1>6 DEF Admitted
  <2>3. CASE s = g
    <3>1. IsLimited(tool, method) /\ ~HasRoom(tool, method)
      BY <2>3, <1>10
    <3>2. Recent(tool, method) \subseteq New
      <4> SUFFICES ASSUME NEW x \in Recent(tool, method) PROVE x \in New
        OBVIOUS
      <4>1. x \in requests[tool, method] /\ x.time + Window(tool) > clock
        BY DEF Recent
      <4>2. x \in Admitted(tool, method)
        BY <4>1 DEF IInv, LimiterInv
      <4>3. x \in Served /\ x.id <= Cardinality(served)
        BY <4>2 DEF IInv, TypeOK, HistoryInv, Admitted
      <4>4. x.id < id
        BY <4>3, <1>3 DEF Served
      <4>5. x \in Admitted(tool, method)'
        BY <4>2, <1>7
      <4>6. clock < x.time + Window(tool)
        BY <4>1, <4>3, <2>1, <2>3 DEF Served, IInv, TypeOK
      <4> QED BY <4>4, <4>5, <4>6, <1>8, <2>3
    <3>3. Cardinality(Recent(tool, method)) \in Nat
      BY <3>2, <2>2, PartIsSmaller
    <3>4. Cardinality(Recent(tool, method)) >= Limit(tool)
      BY <3>1, <3>3, <2>1, <2>3 DEF HasRoom
    <3>5. Cardinality(New) \in Nat /\ Cardinality(New) >= Cardinality(Recent(tool, method))
      <4> HIDE DEF New
      <4>1. IsFiniteSet(New)
        BY <2>2, PartIsSmaller
      <4> QED BY <3>2, <4>1, <3>3, PartIsSmaller
    <3>6. Cardinality(New) >= Limit(s.tool)
      <4> HIDE DEF New
      <4>1. s.tool = tool
        BY <2>3
      <4> QED BY <3>3, <3>4, <3>5, <2>1, <4>1
    <3> QED BY <3>6, <1>8
  <2>4. CASE s \in served
    <3> DEFINE Old == {x \in Admitted(s.tool, s.method) :
                         x.id < s.id /\ s.time < x.time + Window(s.tool)}
    <3>1. Cardinality(Old) >= Limit(s.tool)
      BY <2>4, <1>1 DEF IInv, RejectionJustified
    <3>2. Old \subseteq New
      BY <1>7, <1>8
    <3>3. /\ Cardinality(Old) \in Nat /\ Cardinality(New) \in Nat
          /\ Cardinality(Old) <= Cardinality(New)
      <4> HIDE DEF New, Old
      <4>1. IsFiniteSet(New)
        BY <2>2, PartIsSmaller
      <4> QED BY <3>2, <4>1, PartIsSmaller
    <3>4. Cardinality(New) >= Limit(s.tool)
      <4> HIDE DEF New, Old
      <4> QED BY <3>1, <3>3, <2>1
    <3> QED BY <3>4, <1>8
  <2> QED BY <2>3, <2>4, <1>1
<1>19. ClockInv'
  <2> SUFFICES ASSUME NEW s \in served', s.id > trusted'
               PROVE  clock' + s.at <= s.time + now'
    BY DEF ClockInv
  <2>1. CASE s = g
    BY <2>1, <1>1 DEF IInv, TypeOK
  <2>2. CASE s \in served
    BY <2>2, <1>1 DEF IInv, ClockInv
  <2> QED BY <2>1, <2>2, <1>1
<1>20. AuditTrail'
  <2> DEFINE New == {[id |-> id, status |-> s] : s \in Statuses(tool, outcome)}
  <2>1. /\ audit' = audit \cup New
        /\ \A a \in New : a.id = id
        /\ \A s \in Statuses(tool, outcome) : [id |-> id, status |-> s] \in New
        /\ \A a, b \in New : a = b
    BY <1>1 DEF Statuses
  <2>2. \A a \in audit : a.id \in Nat /\ a.id < id
    BY <1>3, NewIsUnlogged
  <2>3. \A s \in served : s.id \in Nat /\ s.id < id
    BY <1>3 DEF IInv, TypeOK, Served, HistoryInv
  <2>4. AuditTrail
    BY DEF IInv
  <2> HIDE DEF New
  <2>5. ASSUME NEW s \in served'
        PROVE  /\ s.outcome \in {"not_in_allowlist", "rate_limited"}
                    => [id |-> s.id, status |-> "denied"] \in audit'
               /\ s.outcome = "error" => [id |-> s.id, status |-> "error"] \in audit'
               /\ s.outcome = "success" /\ s.life = life' =>
                    ((\E a \in audit' : a.id = s.id)
                       <=> (Listed(s.tool)' /\ allowlist'.allowed_tools[s.tool].audit))
    <3>1. CASE s = g
      <4>1. /\ outcome \in {"not_in_allowlist", "rate_limited"} => "denied" \in Statuses(tool, outcome)
            /\ outcome = "error" => "error" \in Statuses(tool, outcome)
        BY DEF Statuses
      <4>2. outcome = "success" =>
              ((\E a \in New : TRUE) <=> (Listed(tool) /\ allowlist.allowed_tools[tool].audit))
        BY DEF Statuses, New, Permission
      <4>3. (\E a \in audit' : a.id = id) <=> (\E a \in New : TRUE)
        BY <2>1, <2>2, <1>4
      <4> QED BY <3>1, <4>1, <4>2, <4>3, <2>1, <1>1, <1>8
    <3>2. CASE s \in served
      <4>1. (\E a \in audit' : a.id = s.id) <=> (\E a \in audit : a.id = s.id)
        BY <3>2, <2>1, <2>3, <1>4
      <4> QED BY <3>2, <4>1, <2>1, <2>4, <1>1, <1>8 DEF AuditTrail, Permission
    <3> QED BY <3>1, <3>2, <1>1
  <2>6. \A a, b \in audit' : a.id = b.id => a = b
    BY <2>1, <2>2, <2>4, <1>4 DEF AuditTrail
  <2>7. \A a \in audit' : \E s \in served' : a.id = s.id
    BY <2>1, <2>4, <1>1 DEF AuditTrail
  <2> QED BY <2>5, <2>6, <2>7 DEF AuditTrail, Permission
<1> QED BY <1>13, <1>14, <1>15, <1>16, <1>17, <1>18, <1>19, <1>20 DEF IInv

\* The clock keeps the invariant: a window that ends later holds fewer of the
\* requests made so far.
LEMMA TickKeepsInv ==
  ASSUME IInv, Tick
  PROVE  IInv'
PROOF
<1>1. /\ now \in Nat /\ now' = now + 1
      /\ allowlist' = allowlist /\ requests' = requests /\ life' = life
      /\ served' = served /\ audit' = audit /\ clock \in Nat /\ clock' = clock + 1
      /\ settings' = settings /\ trusted' = trusted
  BY DEF Tick, IInv, TypeOK
<1>2. \A t, m : Admitted(t, m)' = Admitted(t, m)
  BY <1>1 DEF Admitted
<1>3. \A t : /\ Listed(t)' <=> Listed(t)
             /\ Parses(t)' <=> Parses(t)
             /\ Window(t)' = Window(t)
             /\ Limit(t)' = Limit(t)
  BY <1>1 DEF Listed, Parses, Window, Limit, Permission
<1>4. TypeOK'
  BY <1>1 DEF IInv, TypeOK
<1>5. HistoryInv'
  <2>1. \A s \in served : s.at \in Nat
    BY DEF IInv, TypeOK, Served
  <2> QED BY <1>1, <2>1 DEF IInv, HistoryInv
<1>9. ClockInv' /\ AuditTrail'
  <2>1. \A s \in served : s.at \in Nat /\ s.time \in Nat
    BY DEF IInv, TypeOK, Served
  <2>2. ClockInv'
    BY <1>1, <2>1 DEF IInv, ClockInv
  <2>3. AuditTrail'
    BY <1>1, <1>3 DEF IInv, AuditTrail, Permission
  <2> QED BY <2>2, <2>3
<1>6. LimiterInv'
  <2> SUFFICES ASSUME NEW t \in Tools, NEW m \in Methods
               PROVE  /\ requests'[t, m] \subseteq Admitted(t, m)'
                      /\ Listed(t)' /\ Parses(t)' =>
                           \A x \in Admitted(t, m)' :
                             x.id > trusted' /\ now' < x.at + Window(t)' => x \in requests'[t, m]
    BY DEF LimiterInv
  <2>1. \A x \in Admitted(t, m) : x.at \in Nat
    BY DEF IInv, TypeOK, Served, Admitted
  <2>2. Listed(t) => Window(t) \in Nat
    BY LimitFacts DEF IInv, TypeOK
  <2>3. \A x \in Admitted(t, m) :
          Listed(t) /\ now' < x.at + Window(t) => now < x.at + Window(t)
    BY <1>1, <2>1, <2>2
  <2> QED BY <1>1, <1>2, <1>3, <2>3 DEF IInv, LimiterInv
<1>7. RejectedInv' /\ RejectionJustified'
  BY <1>1, <1>2, <1>3 DEF IInv, RejectedInv, RejectionJustified
<1>8. WindowBound'
  <2> SUFFICES ASSUME NEW t \in DOMAIN allowlist.allowed_tools, NEW m \in Methods, Parses(t),
                      NEW u \in 0..(now + 1)
               PROVE  Cardinality({x \in Admitted(t, m) :
                                     /\ x.id > trusted /\ x.at <= u
                                     /\ u < x.at + Window(t)}) <= Limit(t)
    BY <1>1, <1>2, <1>3 DEF WindowBound
  <2> DEFINE Ending(v) == {x \in Admitted(t, m) :
                             x.id > trusted /\ x.at <= v /\ v < x.at + Window(t)}
  <2>1. \A v \in 0..now : Cardinality(Ending(v)) <= Limit(t)
    BY DEF IInv, WindowBound
  <2>2. Limit(t) \in Nat /\ Window(t) \in Nat
    BY LimitFacts DEF IInv, TypeOK, Listed
  <2>3. CASE u \in 0..now
    BY <2>1, <2>3
  <2>4. CASE u = now + 1
    <3>1. Ending(u) \subseteq Ending(now)
      <4>1. \A x \in Admitted(t, m) : x.at \in Nat /\ x.at <= now
        BY DEF IInv, TypeOK, Served, Admitted, HistoryInv
      <4> QED BY <4>1, <2>2, <2>4, <1>1
    <3>2. Ending(now) \subseteq served /\ IsFiniteSet(served)
      BY DEF Admitted, IInv, HistoryInv
    <3>3. Cardinality(Ending(now)) <= Limit(t)
      BY <2>1, <1>1
    <3> HIDE DEF Ending
    <3>4. IsFiniteSet(Ending(now)) /\ Cardinality(Ending(now)) \in Nat
      BY <3>2, PartIsSmaller
    <3>5. Cardinality(Ending(u)) \in Nat /\ Cardinality(Ending(u)) <= Cardinality(Ending(now))
      BY <3>1, <3>4, PartIsSmaller
    <3>6. Cardinality(Ending(u)) <= Limit(t)
      BY <3>3, <3>4, <3>5, <2>2
    <3> QED BY <3>6 DEF Ending
  <2> QED BY <2>3, <2>4, <1>1
<1> QED BY <1>4, <1>5, <1>6, <1>7, <1>8, <1>9 DEF IInv

\* Setting the clock keeps the invariant: set back it lags behind time all the more,
\* set forward it begins a new count.
LEMMA SetKeepsInv ==
  ASSUME IInv, NEW t \in Settings, set_clock(t)
  PROVE  IInv'
PROOF
<1>1. /\ now' = now /\ allowlist' = allowlist /\ requests' = requests /\ life' = life
      /\ served' = served /\ audit' = audit
      /\ clock' = t /\ settings' = settings + 1
      /\ trusted' = IF t > clock THEN Cardinality(served) ELSE trusted
  BY DEF set_clock
<1>2. \A u, m : Admitted(u, m)' = Admitted(u, m)
  BY <1>1 DEF Admitted
<1>3. \A u : /\ Listed(u)' <=> Listed(u)
             /\ Parses(u)' <=> Parses(u)
             /\ Window(u)' = Window(u)
             /\ Limit(u)' = Limit(u)
  BY <1>1 DEF Listed, Parses, Window, Limit, Permission
<1>4. /\ t \in Nat /\ clock \in Nat /\ now \in Nat /\ trusted \in Nat
      /\ Cardinality(served) \in Nat
  BY SettingsAssumption, FS_CardinalityType DEF IInv, TypeOK, HistoryInv
<1>5. TypeOK'
  BY <1>1, <1>4 DEF IInv, TypeOK
<1>6. \A s \in served : /\ s.id \in Nat /\ s.id <= Cardinality(served)
                         /\ s.at \in Nat /\ s.time \in Nat
  BY DEF IInv, TypeOK, Served, HistoryInv
<1>7. \A s \in served : s.id > trusted' => s.id > trusted /\ t <= clock
  BY <1>1, <1>4, <1>6
<1>8. HistoryInv'
  BY <1>1 DEF IInv, HistoryInv
<1>9. ClockInv'
  <2> SUFFICES ASSUME NEW s \in served, s.id > trusted'
               PROVE  t + s.at <= s.time + now
    BY <1>1 DEF ClockInv
  <2>1. clock + s.at <= s.time + now /\ t <= clock
    BY <1>7 DEF IInv, ClockInv
  <2> QED BY <2>1, <1>4, <1>6
<1>10. \A u, m : \A x \in Admitted(u, m) : x \in served
  BY DEF Admitted
<1>11. LimiterInv'
  BY <1>1, <1>2, <1>3, <1>7, <1>10 DEF IInv, LimiterInv
<1>12. RejectedInv' /\ RejectionJustified'
  BY <1>1, <1>2, <1>3 DEF IInv, RejectedInv, RejectionJustified
<1>13. AuditTrail'
  BY <1>1, <1>3 DEF IInv, AuditTrail, Permission
<1>14. WindowBound'
  <2> SUFFICES ASSUME NEW u \in DOMAIN allowlist.allowed_tools, NEW m \in Methods, Parses(u),
                      NEW v \in 0..now
               PROVE  Cardinality({x \in Admitted(u, m) :
                                     /\ x.id > trusted' /\ x.at <= v
                                     /\ v < x.at + Window(u)}) <= Limit(u)
    BY <1>1, <1>2, <1>3 DEF WindowBound
  <2> DEFINE Old == {x \in Admitted(u, m) : x.id > trusted /\ x.at <= v /\ v < x.at + Window(u)}
             New == {x \in Admitted(u, m) : x.id > trusted' /\ x.at <= v /\ v < x.at + Window(u)}
  <2>1. Cardinality(Old) <= Limit(u)
    BY DEF IInv, WindowBound
  <2>2. New \subseteq Old
    BY <1>7, <1>10
  <2>3. Old \subseteq served /\ IsFiniteSet(served)
    BY <1>10 DEF IInv, HistoryInv
  <2>4. Limit(u) \in Nat
    BY LimitFacts DEF IInv, TypeOK, Listed
  <2> HIDE DEF Old, New
  <2>5. IsFiniteSet(Old) /\ Cardinality(Old) \in Nat
    BY <2>3, PartIsSmaller
  <2>6. Cardinality(New) \in Nat /\ Cardinality(New) <= Cardinality(Old)
    BY <2>2, <2>5, PartIsSmaller
  <2>7. Cardinality(New) <= Limit(u)
    BY <2>1, <2>4, <2>5, <2>6
  <2> QED BY <2>7 DEF New
<1> QED BY <1>5, <1>8, <1>9, <1>11, <1>12, <1>13, <1>14 DEF IInv

\* A restart keeps the invariant: a new process has served nobody.
LEMMA RestartKeepsInv ==
  ASSUME IInv, lifespan
  PROVE  IInv'
PROOF
<1>1. /\ life \in Nat /\ life' = life + 1 /\ allowlist' \in Configs
      /\ requests' = [k \in Keys |-> {}] /\ now' = now /\ served' = served /\ audit' = audit
      /\ clock' = clock /\ settings' = settings /\ trusted' = trusted
  BY DEF lifespan, IInv, TypeOK
<1>2. \A s \in served : s.life \in Nat /\ s.life # life'
  BY <1>1 DEF IInv, TypeOK, Served, HistoryInv
<1>3. \A t, m : Admitted(t, m)' = {}
  BY <1>1, <1>2 DEF Admitted
<1>4. TypeOK'
  BY <1>1 DEF IInv, TypeOK
<1>5. HistoryInv' /\ ClockInv'
  BY <1>1, <1>2 DEF IInv, HistoryInv, ClockInv
<1>9. AuditTrail'
  BY <1>1, <1>2 DEF IInv, AuditTrail
<1>6. LimiterInv'
  BY <1>1, <1>3 DEF LimiterInv, Keys
<1>7. RejectedInv' /\ RejectionJustified'
  BY <1>1, <1>2 DEF RejectedInv, RejectionJustified
<1>8. WindowBound'
  <2> SUFFICES ASSUME NEW t \in DOMAIN allowlist'.allowed_tools, NEW m \in Methods,
                      NEW u \in 0..now'
               PROVE  Cardinality({x \in Admitted(t, m)' :
                                     /\ x.id > trusted' /\ x.at <= u
                                     /\ u < x.at + Window(t)'}) <= Limit(t)'
    BY DEF WindowBound
  <2>1. {x \in Admitted(t, m)' : x.id > trusted' /\ x.at <= u /\ u < x.at + Window(t)'} = {}
    BY <1>3
  <2>2. Limit(t)' \in Nat
    <3>1. allowlist'.allowed_tools[t] \in Permissions
      BY <1>1, ConfigsAssumption DEF IsAllowlist
    <3>2. allowlist'.allowed_tools[t].rate_limit \in RateLimits
      BY <3>1 DEF Permissions
    <3> QED BY <3>2 DEF Limit, Permission, RateLimits
  <2> QED BY <2>1, <2>2, FS_EmptySet
<1> QED BY <1>4, <1>5, <1>6, <1>7, <1>8, <1>9 DEF IInv

\* Every step keeps the invariant.
LEMMA NextKeepsInv == IInv /\ [Next]_vars => IInv'
PROOF
<1> SUFFICES ASSUME IInv, [Next]_vars PROVE IInv'
  OBVIOUS
<1>1. ASSUME NEW tool \in Tools, NEW method \in Methods, invoke_tool(tool, method) PROVE IInv'
  BY <1>1, InvokeKeepsInv
<1>2. CASE Tick
  BY <1>2, TickKeepsInv
<1>3. CASE lifespan
  BY <1>3, RestartKeepsInv
<1>5. ASSUME NEW t \in Settings, set_clock(t) PROVE IInv'
  BY <1>5, SetKeepsInv
<1>4. CASE UNCHANGED vars
  <2>1. /\ clock' = clock /\ settings' = settings /\ trusted' = trusted
        /\ now' = now /\ allowlist' = allowlist /\ requests' = requests
        /\ life' = life /\ served' = served /\ audit' = audit
    BY <1>4 DEF vars
  <2>2. \A t, m : Admitted(t, m)' = Admitted(t, m)
    BY <2>1 DEF Admitted
  <2>3. \A t : /\ Listed(t)' <=> Listed(t)
               /\ Parses(t)' <=> Parses(t)
               /\ Window(t)' = Window(t)
               /\ Limit(t)' = Limit(t)
    BY <2>1 DEF Listed, Parses, Window, Limit, Permission
  <2>4. TypeOK' /\ HistoryInv' /\ ClockInv'
    BY <2>1 DEF IInv, TypeOK, HistoryInv, ClockInv
  <2>8. AuditTrail'
    BY <2>1, <2>3 DEF IInv, AuditTrail, Permission
  <2>5. LimiterInv'
    BY <2>1, <2>2, <2>3 DEF IInv, LimiterInv
  <2>6. RejectedInv' /\ RejectionJustified'
    BY <2>1, <2>2, <2>3 DEF IInv, RejectedInv, RejectionJustified
  <2>7. WindowBound'
    BY <2>1, <2>2, <2>3 DEF IInv, WindowBound
  <2> QED BY <2>4, <2>5, <2>6, <2>7, <2>8 DEF IInv
<1> QED BY <1>1, <1>2, <1>3, <1>4, <1>5 DEF Next

\* The inductive invariant holds in every reachable state.
THEOREM Inductive == Spec => []IInv
PROOF BY InitialInv, NextKeepsInv, PTL DEF Spec

\* The rate limit holds in every window of every process: no tool and method
\* is forwarded more often than configured, wherever the window is placed.
THEOREM WindowIsBounded == Spec => []WindowBound
PROOF
<1>1. IInv => WindowBound
  BY DEF IInv
<1> QED BY <1>1, Inductive, PTL

\* Whoever gets a 429 met a full window of forwarded requests.
THEOREM RejectionIsJustified == Spec => []RejectionJustified
PROOF
<1>1. IInv => RejectionJustified
  BY DEF IInv
<1> QED BY <1>1, Inductive, PTL

\* The state stays within its types.
THEOREM TypeCorrect == Spec => []TypeOK
PROOF
<1>1. IInv => TypeOK
  BY DEF IInv
<1> QED BY <1>1, Inductive, PTL

\* The log accounts for every request that must be logged, once.
THEOREM LogIsComplete == Spec => []AuditTrail
PROOF
<1>1. IInv => AuditTrail
  BY DEF IInv
<1> QED BY <1>1, Inductive, PTL
=============================================================================
