------------------------ MODULE MetacogEngineProofs -------------------------
(***************************************************************************)
(* Theorems about MetacogEngine: what it promises of a verdict, for any    *)
(* number of overlapping verifications and any jobs.                       *)
(***************************************************************************)
EXTENDS MetacogEngine, FiniteSetTheorems, TLAPS

\* Every request that has entered has made a client.
Entrants == {r \in Requests : pc[r] # "new"}
CountInv == client = Cardinality(Entrants)

\* A gate was answered by the oracle, which did not object.
Approved(r, gate) == heard[r][gate] = job[r].oracle[gate] /\ heard[r][gate] # "no"

\* A request is past the two gates that fail without a reply only with a reply.
HeardInv ==
  \A r \in Requests :
    /\ verdict[r] # "none" <=> pc[r] = "done"
    /\ pc[r] \in {"recall", "evidence", "confidence", "symbolic"} \/ verdict[r] = "passed"
         => Approved(r, "self-check")
    /\ pc[r] = "symbolic" \/ verdict[r] = "passed" => Approved(r, "confidence")

\* The other two gates are asked where the job calls for them, and fail only by an
\* objection.
RejectInv ==
  \A r \in Requests :
    /\ pc[r] = "evidence" \/ verdict[r] = "evidence" => job[r].evidence
    /\ pc[r] = "symbolic" \/ verdict[r] = "symbolic" => job[r].symbolic
    /\ verdict[r] \in {"evidence", "symbolic"} => job[r].oracle[verdict[r]] = "no"

\* The gates before an await or a verdict.
Before(p) ==
  CASE p \in {"new", "self-check"} -> {}
    [] p \in {"recall", "evidence"} -> {"self-check"}
    [] p = "confidence" -> {"self-check", "evidence"}
    [] p = "symbolic" -> {"self-check", "evidence", "confidence"}
    [] p = "passed" -> Gates
Through(r) == Before(IF pc[r] = "done" THEN verdict[r] ELSE pc[r])

\* The client of a request that is alone is open, and no gate it went through would
\* have objected to its answer.
AloneInv ==
  \A r \in Requests : alone[r] =>
    /\ r \in Active => Active = {r} /\ client \in open /\ conn[r] = client
    /\ ~outage =>
         /\ \A g \in Through(r) \cap GatesOf(job[r]) : job[r].oracle[g] # "no"
         /\ verdict[r] \in Gates => job[r].oracle[verdict[r]] = "no"

IInv == TypeOK /\ CountInv /\ HeardInv /\ RejectInv /\ AloneInv
-----------------------------------------------------------------------------
LEMMA InitIInv == Init => IInv
PROOF
<1> SUFFICES ASSUME Init PROVE IInv
  OBVIOUS
<1>1. TypeOK
  <2>1. Cardinality(Requests) \in Nat
    BY RequestsAssumption, FS_CardinalityType
  <2>2. job \in [Requests -> JobSet]
    BY JobsAssumption DEF Init
  <2> QED BY <2>1, <2>2 DEF Init, TypeOK, Heard, OracleReplies, Gates
<1>2. CountInv
  <2>1. Entrants = {}
    BY DEF Init, Entrants
  <2> QED BY <2>1, FS_EmptySet DEF CountInv, Init
<1>3. HeardInv /\ RejectInv
  BY DEF Init, HeardInv, RejectInv
<1>4. AloneInv
  BY DEF Init, AloneInv, Active, Through, Before, Gates
<1> QED BY <1>1, <1>2, <1>3, <1>4 DEF IInv

\* Entering: one more client, which is open.
LEMMA VerifyStep ==
  ASSUME IInv, NEW r \in Requests, verify(r)
  PROVE  IInv'
PROOF
<1>1. /\ pc[r] = "new" /\ pc' = [pc EXCEPT ![r] = "self-check"]
      /\ client' = client + 1
      /\ open' = open \cup ({client + 1} \ {client})
      /\ conn' = [conn EXCEPT ![r] = IF client' \in open' THEN client' ELSE 0]
      /\ alone' = [q \in Requests |-> alone[q] /\ (q \in Active \cup {r} => Active = {})]
      /\ UNCHANGED <<job, outage, evidence, heard, verdict>>
  BY DEF verify, Entered, Send
<1>2. TypeOK
  BY DEF IInv
<1>3. client + 1 \in Nat /\ client + 1 # client /\ client + 1 \in open'
  BY <1>1, <1>2, RequestsAssumption, FS_CardinalityType DEF TypeOK
<1>4. CountInv' /\ client' <= Cardinality(Requests)
  <2>1. Entrants' = Entrants \cup {r} /\ r \notin Entrants
    BY <1>1, <1>2 DEF Entrants, TypeOK
  <2>2. IsFiniteSet(Entrants)
    BY RequestsAssumption, FS_Subset DEF Entrants
  <2>3. Cardinality(Entrants') = Cardinality(Entrants) + 1
    BY <2>1, <2>2, FS_AddElement
  <2>4. Cardinality(Entrants') <= Cardinality(Requests)
    BY RequestsAssumption, FS_Subset, Entrants' \subseteq Requests DEF Entrants
  <2> QED BY <2>3, <2>4, <1>1 DEF IInv, CountInv
<1>5. TypeOK'
  <2>1. client' \in 0..Cardinality(Requests)
    BY <1>1, <1>3, <1>4, RequestsAssumption, FS_CardinalityType
  <2>2. open' \subseteq 1..client'
    BY <1>1, <1>2, <1>3 DEF TypeOK
  <2>3. conn' \in [Requests -> 0..client']
    BY <1>1, <1>2, <1>3 DEF TypeOK
  <2>4. pc' \in [Requests -> Gates \cup {"new", "recall", "done"}]
    BY <1>1, <1>2 DEF TypeOK, Gates
  <2>5. alone' \in [Requests -> BOOLEAN]
    BY <1>1, <1>2 DEF TypeOK
  <2> QED BY <1>1, <1>2, <2>1, <2>2, <2>3, <2>4, <2>5 DEF TypeOK
<1>6. HeardInv'
  BY <1>1, <1>2 DEF IInv, HeardInv, TypeOK, Approved
<1>7. RejectInv'
  BY <1>1, <1>2 DEF IInv, RejectInv, TypeOK
<1>8. AloneInv'
  <2> SUFFICES ASSUME NEW q \in Requests, alone'[q]
               PROVE  /\ q \in Active' => Active' = {q} /\ client' \in open' /\ conn'[q] = client'
                      /\ ~outage' =>
                           /\ \A g \in Through(q)' \cap GatesOf(job'[q]) : job'[q].oracle[g] # "no"
                           /\ verdict'[q] \in Gates => job'[q].oracle[verdict'[q]] = "no"
    BY DEF AloneInv
  <2>1. Active' = Active \cup {r} /\ alone[q] /\ (q \in Active \cup {r} => Active = {})
    BY <1>1, <1>2 DEF Active, TypeOK
  <2>2. q \in Active' => q = r /\ Active' = {r}
    BY <2>1
  <2>3. conn'[r] = client'
    BY <1>1, <1>2, <1>3 DEF TypeOK
  <2>4. CASE q = r
    <3>1. verdict[q] = "none"
      BY <1>1, <2>4 DEF IInv, HeardInv
    <3>2. Through(q)' = {}
      BY <1>1, <1>2, <2>4 DEF Through, Before, TypeOK
    <3> QED BY <1>1, <1>3, <2>2, <2>3, <2>4, <3>1, <3>2 DEF Gates
  <2>5. CASE q # r
    <3>1. Through(q)' = Through(q)
      BY <1>1, <1>2, <2>5 DEF Through, Before, TypeOK
    <3> QED BY <1>1, <2>1, <2>2, <2>5, <3>1 DEF IInv, AloneInv
  <2> QED BY <2>4, <2>5
<1> QED BY <1>4, <1>5, <1>6, <1>7, <1>8 DEF IInv

\* A request that goes on or leaves disturbs no other that is alone.
LEMMA OthersRemain ==
  ASSUME IInv, NEW r \in Requests, r \in Active, NEW q \in Requests, q # r,
         alone[q], alone'[q] = alone[q], Active' \subseteq Active, outage' = outage,
         job' = job, pc'[q] = pc[q], verdict'[q] = verdict[q]
  PROVE  /\ q \notin Active'
         /\ ~outage' =>
              /\ \A g \in Through(q)' \cap GatesOf(job'[q]) : job'[q].oracle[g] # "no"
              /\ verdict'[q] \in Gates => job'[q].oracle[verdict'[q]] = "no"
PROOF
<1>1. q \notin Active
  BY DEF IInv, AloneInv
<1>2. Through(q)' = Through(q)
  BY DEF Through
<1> QED BY <1>1, <1>2 DEF IInv, AloneInv

\* Evidence comes, or none.
LEMMA RecallStep ==
  ASSUME IInv, NEW r \in Requests, recall_evidence(r)
  PROVE  IInv'
PROOF
<1>1. PICK found \in BOOLEAN :
        /\ \/ MayAnswer(r) /\ found = job[r].evidence
           \/ MayFail(r) /\ ~found
        /\ evidence' = [evidence EXCEPT ![r] = found]
        /\ Continue(r, IF found THEN "evidence" ELSE "confidence")
  BY DEF recall_evidence
<1> DEFINE next == IF found THEN "evidence" ELSE "confidence"
<1>2. /\ pc[r] = "recall" /\ pc' = [pc EXCEPT ![r] = next]
      /\ conn' = [conn EXCEPT ![r] = IF client' \in open' THEN client' ELSE 0]
      /\ client' = client /\ verdict' = verdict /\ open' = open
      /\ job' = job /\ outage' = outage /\ heard' = heard /\ alone' = alone
  BY <1>1 DEF recall_evidence, Continue, Send
<1>3. TypeOK /\ next \in {"evidence", "confidence"}
  BY DEF IInv
<1>4. found => job[r].evidence
  BY <1>1
<1>5. TypeOK'
  <2>1. pc' \in [Requests -> Gates \cup {"new", "recall", "done"}]
    BY <1>2, <1>3 DEF TypeOK, Gates
  <2>2. evidence' \in [Requests -> BOOLEAN]
    BY <1>1, <1>3 DEF TypeOK
  <2>3. conn' \in [Requests -> 0..client']
    BY <1>2, <1>3, RequestsAssumption, FS_CardinalityType DEF TypeOK
  <2> QED BY <1>2, <1>3, <2>1, <2>2, <2>3 DEF TypeOK
<1>6. CountInv'
  <2>1. Entrants' = Entrants
    BY <1>2, <1>3 DEF Entrants, TypeOK
  <2> QED BY <1>2, <2>1 DEF IInv, CountInv
<1>7. HeardInv'
  BY <1>2, <1>3 DEF IInv, HeardInv, TypeOK, Approved
<1>8. RejectInv'
  <2> SUFFICES ASSUME NEW q \in Requests
               PROVE  /\ pc'[q] = "evidence" \/ verdict'[q] = "evidence" => job'[q].evidence
                      /\ pc'[q] = "symbolic" \/ verdict'[q] = "symbolic" => job'[q].symbolic
                      /\ verdict'[q] \in {"evidence", "symbolic"} => job'[q].oracle[verdict'[q]] = "no"
    BY DEF RejectInv
  <2>1. CASE q = r
    BY <1>2, <1>3, <1>4, <2>1 DEF IInv, RejectInv, TypeOK
  <2>2. CASE q # r
    BY <1>2, <1>3, <2>2 DEF IInv, RejectInv, TypeOK
  <2> QED BY <2>1, <2>2
<1>9. AloneInv'
  <2> SUFFICES ASSUME NEW q \in Requests, alone'[q]
               PROVE  /\ q \in Active' => Active' = {q} /\ client' \in open' /\ conn'[q] = client'
                      /\ ~outage' =>
                           /\ \A g \in Through(q)' \cap GatesOf(job'[q]) : job'[q].oracle[g] # "no"
                           /\ verdict'[q] \in Gates => job'[q].oracle[verdict'[q]] = "no"
    BY DEF AloneInv
  <2>1. Active' = Active /\ r \in Active
    BY <1>2, <1>3 DEF Active, TypeOK
  <2>2. CASE q = r
    <3>1. Active = {r} /\ client \in open /\ conn[r] = client
      BY <1>2, <2>1, <2>2 DEF IInv, AloneInv
    <3>2. conn'[r] = client'
      BY <1>2, <1>3, <3>1 DEF TypeOK
    <3>3. ~outage' => \A g \in Through(q)' \cap GatesOf(job'[q]) : job'[q].oracle[g] # "no"
      <4> SUFFICES ASSUME ~outage PROVE \A g \in Through(q)' \cap GatesOf(job[q]) : job[q].oracle[g] # "no"
        BY <1>2
      <4>1. found = job[r].evidence
        <5>1. client \in 1..client
          BY <1>3, <3>1 DEF TypeOK
        <5> QED BY <1>1, <3>1, <5>1 DEF MayFail, MayAnswer
      <4>2. Through(q)' \subseteq {"self-check"} \cup (IF found THEN {} ELSE {"evidence"})
        BY <1>2, <1>3, <2>2 DEF Through, Before, TypeOK
      <4>3. Through(q) = {"self-check"}
        BY <1>2, <2>2 DEF Through, Before
      <4>4. ~found => "evidence" \notin GatesOf(job[q])
        BY <4>1, <2>2 DEF GatesOf
      <4> QED BY <1>2, <4>2, <4>3, <4>4, <2>2 DEF IInv, AloneInv
    <3>4. verdict'[q] \notin Gates
      BY <1>2, <2>2 DEF IInv, HeardInv, Gates
    <3> QED BY <1>2, <2>1, <2>2, <3>1, <3>2, <3>3, <3>4
  <2>3. CASE q # r
    <3>1. pc'[q] = pc[q]
      BY <1>2, <1>3, <2>3 DEF TypeOK
    <3> QED BY <1>2, <2>1, <2>3, <3>1, OthersRemain
  <2> QED BY <2>2, <2>3
<1> QED BY <1>5, <1>6, <1>7, <1>8, <1>9 DEF IInv

\* The oracle answers, or does not.
LEMMA AskStep ==
  ASSUME IInv, NEW r \in Requests, NEW gate \in Gates, ask(r, gate)
  PROVE  IInv'
PROOF
<1>1. PICK h \in Heard :
        /\ \/ MayAnswer(r) /\ h = job[r].oracle[gate]
           \/ MayFail(r) /\ h = "silent"
        /\ heard' = [heard EXCEPT ![r][gate] = h]
        /\ IF Fails(gate, h) THEN Leave(r, gate)
           ELSE IF After(r, gate) = "done" THEN Leave(r, "passed")
           ELSE Continue(r, After(r, gate))
  BY DEF ask
<1> DEFINE leaves == Fails(gate, h) \/ After(r, gate) = "done"
           next == IF leaves THEN "done" ELSE After(r, gate)
           v == IF Fails(gate, h) THEN gate ELSE "passed"
<1>2. /\ pc[r] = gate /\ pc' = [pc EXCEPT ![r] = next]
      /\ client' = client
      /\ job' = job /\ outage' = outage /\ evidence' = evidence /\ alone' = alone
      /\ leaves => verdict' = [verdict EXCEPT ![r] = v] /\ open' = open \ {client} /\ conn' = conn
      /\ ~leaves => /\ verdict' = verdict /\ open' = open
                    /\ conn' = [conn EXCEPT ![r] = IF client' \in open' THEN client' ELSE 0]
  BY <1>1 DEF ask, Leave, Continue, Send
<1>3. TypeOK
  BY DEF IInv
<1>4. /\ gate = "self-check" => After(r, gate) = "recall"
      /\ gate = "evidence" => After(r, gate) = "confidence"
      /\ gate = "confidence" => After(r, gate) = IF job[r].symbolic THEN "symbolic" ELSE "done"
      /\ gate = "symbolic" => After(r, gate) = "done"
  BY DEF After, Following
<1>5. gate \in {"self-check", "evidence", "confidence", "symbolic"}
  BY DEF Gates
<1>6. next \in {"recall", "confidence", "symbolic", "done"}
  BY <1>4, <1>5
<1>7. /\ h = job[r].oracle[gate] \/ h = "silent"
      /\ Fails(gate, h) => h = "no" \/ gate \in {"self-check", "confidence"}
      /\ ~Fails(gate, h) => /\ h # "no"
                            /\ gate \in {"self-check", "confidence"} => h = job[r].oracle[gate]
  BY <1>1 DEF Fails, FailsOn
<1>8. h = "no" => job[r].oracle[gate] = "no"
  BY <1>7
<1>9. /\ \A q \in Requests : q # r => pc'[q] = pc[q] /\ verdict'[q] = verdict[q] /\ heard'[q] = heard[q]
      /\ pc'[r] = next
      /\ verdict[r] = "none" /\ verdict'[r] = IF leaves THEN v ELSE "none"
  BY <1>1, <1>2, <1>3, <1>5 DEF IInv, HeardInv, TypeOK
<1>10. \A g \in Gates : heard'[r][g] = IF g = gate THEN h ELSE heard[r][g]
  BY <1>1, <1>3 DEF TypeOK
<1> HIDE DEF leaves, next, v
<1>11. leaves <=> next = "done"
  BY <1>4, <1>5 DEF leaves, next
<1>12. v = (IF Fails(gate, h) THEN gate ELSE "passed") /\ (~leaves => ~Fails(gate, h))
  BY DEF v, leaves
<1>13. ~leaves => next = After(r, gate)
  BY DEF next
<1>14. leaves /\ ~Fails(gate, h) => After(r, gate) = "done"
  BY DEF leaves
<1>15. TypeOK'
  <2>1. pc' \in [Requests -> Gates \cup {"new", "recall", "done"}]
    BY <1>2, <1>3, <1>6 DEF TypeOK, Gates
  <2>2. heard' \in [Requests -> [Gates -> Heard]]
    BY <1>1, <1>3 DEF TypeOK
  <2>3. verdict' \in [Requests -> Gates \cup {"none", "passed"}]
    BY <1>2, <1>3, <1>12 DEF TypeOK
  <2>4. conn' \in [Requests -> 0..client']
    BY <1>2, <1>3, RequestsAssumption, FS_CardinalityType DEF TypeOK
  <2>5. open' \subseteq 1..client'
    BY <1>2, <1>3 DEF TypeOK
  <2> QED BY <1>2, <1>3, <2>1, <2>2, <2>3, <2>4, <2>5 DEF TypeOK
<1>16. CountInv'
  <2>1. Entrants' = Entrants
    BY <1>2, <1>5, <1>6, <1>9 DEF Entrants
  <2> QED BY <1>2, <2>1 DEF IInv, CountInv
<1>17. HeardInv'
  <2> SUFFICES ASSUME NEW q \in Requests
               PROVE  /\ verdict'[q] # "none" <=> pc'[q] = "done"
                      /\ pc'[q] \in {"recall", "evidence", "confidence", "symbolic"} \/ verdict'[q] = "passed"
                           => Approved(q, "self-check")'
                      /\ pc'[q] = "symbolic" \/ verdict'[q] = "passed" => Approved(q, "confidence")'
    BY DEF HeardInv
  <2>1. CASE q # r
    BY <1>2, <1>9, <2>1 DEF IInv, HeardInv, Approved
  <2>2. CASE q = r
    <3>1. verdict'[q] # "none" <=> pc'[q] = "done"
      BY <1>5, <1>9, <1>11, <1>12, <2>2
    <3>2. ASSUME pc'[q] # "done" \/ verdict'[q] = "passed" PROVE Approved(q, "self-check")'
      <4>1. ~Fails(gate, h)
        BY <1>5, <1>9, <1>11, <1>12, <2>2, <3>2
      <4>2. CASE gate = "self-check"
        BY <1>2, <1>7, <1>10, <2>2, <4>1, <4>2 DEF Approved, Gates
      <4>3. CASE gate # "self-check"
        BY <1>2, <1>5, <1>10, <2>2, <4>3 DEF IInv, HeardInv, Approved, Gates
      <4> QED BY <4>2, <4>3
    <3>3. ASSUME pc'[q] = "symbolic" \/ verdict'[q] = "passed" PROVE Approved(q, "confidence")'
      <4>1. ~Fails(gate, h)
        BY <1>5, <1>9, <1>11, <1>12, <2>2, <3>3
      <4>2. gate \in {"confidence", "symbolic"}
        BY <1>4, <1>5, <1>9, <1>11, <1>12, <1>13, <1>14, <2>2, <3>3
      <4>3. CASE gate = "confidence"
        BY <1>2, <1>7, <1>10, <2>2, <4>1, <4>3 DEF Approved, Gates
      <4>4. CASE gate = "symbolic"
        BY <1>2, <1>10, <2>2, <4>4 DEF IInv, HeardInv, Approved, Gates
      <4> QED BY <4>2, <4>3, <4>4
    <3> QED BY <1>6, <1>9, <2>2, <3>1, <3>2, <3>3
  <2> QED BY <2>1, <2>2
<1>18. RejectInv'
  <2> SUFFICES ASSUME NEW q \in Requests
               PROVE  /\ pc'[q] = "evidence" \/ verdict'[q] = "evidence" => job'[q].evidence
                      /\ pc'[q] = "symbolic" \/ verdict'[q] = "symbolic" => job'[q].symbolic
                      /\ verdict'[q] \in {"evidence", "symbolic"} => job'[q].oracle[verdict'[q]] = "no"
    BY DEF RejectInv
  <2>1. CASE q # r
    BY <1>2, <1>9, <2>1 DEF IInv, RejectInv
  <2>2. CASE q = r
    <3>1. verdict'[q] = "evidence" => job[q].evidence
      BY <1>2, <1>9, <1>12, <2>2 DEF IInv, RejectInv
    <3>2. pc'[q] = "symbolic" \/ verdict'[q] = "symbolic" => job[q].symbolic
      <4>1. pc'[q] = "symbolic" => gate = "confidence" /\ job[q].symbolic
        BY <1>4, <1>5, <1>9, <1>11, <1>13, <2>2
      <4>2. verdict'[q] = "symbolic" => gate = "symbolic"
        BY <1>5, <1>9, <1>12, <2>2
      <4> QED BY <1>2, <2>2, <4>1, <4>2 DEF IInv, RejectInv
    <3>3. verdict'[q] \in {"evidence", "symbolic"} => job[q].oracle[verdict'[q]] = "no"
      BY <1>7, <1>8, <1>9, <1>12, <2>2
    <3> QED BY <1>2, <1>6, <1>9, <2>2, <3>1, <3>2, <3>3
  <2> QED BY <2>1, <2>2
<1>19. AloneInv'
  <2> SUFFICES ASSUME NEW q \in Requests, alone'[q]
               PROVE  /\ q \in Active' => Active' = {q} /\ client' \in open' /\ conn'[q] = client'
                      /\ ~outage' =>
                           /\ \A g \in Through(q)' \cap GatesOf(job'[q]) : job'[q].oracle[g] # "no"
                           /\ verdict'[q] \in Gates => job'[q].oracle[verdict'[q]] = "no"
    BY DEF AloneInv
  <2>1. Active' = (IF leaves THEN Active \ {r} ELSE Active) /\ r \in Active
    BY <1>2, <1>5, <1>6, <1>9, <1>11 DEF Active
  <2>2. CASE q # r
    BY <1>2, <1>9, <2>1, <2>2, OthersRemain
  <2>3. CASE q = r
    <3>1. Active = {r} /\ client \in open /\ conn[r] = client
      BY <1>2, <2>1, <2>3 DEF IInv, AloneInv
    <3>2. q \in Active' => Active' = {q} /\ client' \in open' /\ conn'[q] = client'
      BY <1>2, <1>3, <2>1, <2>3, <3>1 DEF TypeOK
    <3> SUFFICES ASSUME ~outage
                 PROVE  /\ \A g \in Through(q)' \cap GatesOf(job[q]) : job[q].oracle[g] # "no"
                        /\ verdict'[q] \in Gates => job[q].oracle[verdict'[q]] = "no"
      BY <1>2, <3>2
    <3>3. h = job[r].oracle[gate]
      BY <1>1, <3>1 DEF MayFail
    <3>4. job[r].oracle[gate] \in OracleReplies
      BY <1>3 DEF TypeOK, JobSet
    <3>5. Fails(gate, h) => job[r].oracle[gate] = "no"
      BY <3>3, <3>4 DEF Fails, FailsOn, OracleReplies
    <3>6. verdict'[q] \in Gates => job[q].oracle[verdict'[q]] = "no"
      BY <1>9, <1>12, <2>3, <3>5 DEF Gates
    <3>7. Through(q) = Before(gate)
      BY <1>2, <1>5, <2>3 DEF Through
    <3>8. \A g \in Before(gate) \cap GatesOf(job[q]) : job[q].oracle[g] # "no"
      BY <1>2, <2>3, <3>7 DEF IInv, AloneInv
    <3>9. Through(q)' = IF leaves THEN Before(v) ELSE Before(next)
      BY <1>9, <1>11, <2>3 DEF Through
    <3>10. CASE Fails(gate, h)
      <4>1. Through(q)' = Before(gate)
        BY <1>12, <3>9, <3>10 DEF leaves
      <4> QED BY <3>6, <3>8, <4>1
    <3>11. CASE ~Fails(gate, h)
      <4>1. job[q].oracle[gate] # "no"
        BY <1>7, <2>3, <3>3, <3>11
      <4>2. Through(q)' \cap GatesOf(job[q]) \subseteq Before(gate) \cup {gate}
        <5>1. CASE leaves
          <6>1. Through(q)' = Gates /\ After(r, gate) = "done"
            BY <1>12, <1>14, <3>9, <3>11, <5>1 DEF Before, Gates
          <6>2. CASE gate = "symbolic"
            BY <6>1, <6>2 DEF Before, Gates
          <6>3. CASE gate = "confidence" /\ ~job[q].symbolic
            BY <6>1, <6>3 DEF Before, Gates, GatesOf
          <6> QED BY <1>4, <1>5, <2>3, <6>1, <6>2, <6>3
        <5>2. CASE ~leaves
          <6>1. Through(q)' = Before(After(r, gate))
            BY <1>13, <3>9, <5>2
          <6>2. CASE gate = "self-check"
            BY <1>4, <6>1, <6>2 DEF Before
          <6>3. CASE gate = "evidence"
            BY <1>4, <6>1, <6>3 DEF Before
          <6>4. CASE gate = "confidence" /\ job[q].symbolic
            BY <1>4, <2>3, <6>1, <6>4 DEF Before
          <6>5. gate = "symbolic" \/ (gate = "confidence" /\ ~job[q].symbolic) => leaves
            BY <1>4, <2>3 DEF leaves
          <6> QED BY <1>5, <5>2, <6>2, <6>3, <6>4, <6>5
        <5> QED BY <5>1, <5>2
      <4> QED BY <3>6, <3>8, <4>1, <4>2
    <3> QED BY <3>10, <3>11
  <2> QED BY <2>2, <2>3
<1> QED BY <1>15, <1>16, <1>17, <1>18, <1>19 DEF IInv

\* No step of any request breaks the invariant.
THEOREM Inductive == Spec => []IInv
PROOF
<1>1. IInv /\ [Next]_vars => IInv'
  <2> SUFFICES ASSUME IInv, [Next]_vars PROVE IInv'
    OBVIOUS
  <2>1. ASSUME NEW r \in Requests, verify(r) PROVE IInv'
    BY <2>1, VerifyStep
  <2>2. ASSUME NEW r \in Requests, NEW gate \in Gates, ask(r, gate) PROVE IInv'
    BY <2>2, AskStep
  <2>3. ASSUME NEW r \in Requests, recall_evidence(r) PROVE IInv'
    BY <2>3, RecallStep
  <2>4. CASE UNCHANGED vars
    <3>1. TypeOK' /\ CountInv'
      BY <2>4 DEF IInv, TypeOK, CountInv, Entrants, vars
    <3>2. HeardInv' /\ RejectInv'
      BY <2>4 DEF IInv, HeardInv, RejectInv, Approved, vars
    <3>3. AloneInv'
      BY <2>4 DEF IInv, AloneInv, Active, Through, vars
    <3> QED BY <3>1, <3>2, <3>3 DEF IInv
  <2> QED BY <2>1, <2>2, <2>3, <2>4 DEF Next
<1> QED BY InitIInv, <1>1, PTL DEF Spec
-----------------------------------------------------------------------------
\* What a job deserves: the first gate that objects, or to pass.
LEMMA Deserved ==
  ASSUME NEW j \in JobSet
  PROVE  /\ Objecting(j) = {} => TrueVerdict(j) = "passed"
         /\ \A i \in Objecting(j) :
              (\A k \in Objecting(j) : i <= k) => TrueVerdict(j) = Order[i]
         /\ Objecting(j) # {} => \E i \in Objecting(j) : TrueVerdict(j) = Order[i]
PROOF
<1>1. Objecting(j) \subseteq 1..4
  BY DEF Objecting
<1>2. ASSUME NEW i \in Objecting(j), \A k \in Objecting(j) : i <= k
      PROVE  TrueVerdict(j) = Order[i]
  <2> DEFINE c == CHOOSE x \in Objecting(j) : \A k \in Objecting(j) : x <= k
  <2>1. c \in Objecting(j) /\ \A k \in Objecting(j) : c <= k
    BY <1>2
  <2>2. c = i
    BY <1>1, <1>2, <2>1
  <2> QED BY <1>2, <2>2 DEF TrueVerdict
<1>3. Objecting(j) # {} => \E i \in Objecting(j) : \A k \in Objecting(j) : i <= k
  <2> SUFFICES ASSUME Objecting(j) # {} PROVE \E i \in Objecting(j) : \A k \in Objecting(j) : i <= k
    OBVIOUS
  <2>1. CASE 1 \in Objecting(j)
    BY <1>1, <2>1
  <2>2. CASE 1 \notin Objecting(j) /\ 2 \in Objecting(j)
    BY <1>1, <2>2
  <2>3. CASE 1 \notin Objecting(j) /\ 2 \notin Objecting(j) /\ 3 \in Objecting(j)
    BY <1>1, <2>3
  <2>4. CASE Objecting(j) = {4}
    BY <2>4
  <2> QED BY <1>1, <2>1, <2>2, <2>3, <2>4
<1>4. Objecting(j) = {} => TrueVerdict(j) = "passed"
  BY DEF TrueVerdict
<1> QED BY <1>1, <1>2, <1>3, <1>4

\* Nothing passes unheard.
LEMMA OutageFollows == IInv => OutageFailsClosed
PROOF BY DEF IInv, HeardInv, Approved, OutageFailsClosed

\* Interference rejects only at two gates, and passes only what the others object to.
LEMMA InterferenceFollows == IInv => InterferenceIsConfined
PROOF
<1> SUFFICES ASSUME IInv, NEW r \in Requests, pc[r] = "done"
             PROVE  /\ TrueVerdict(job[r]) = "passed" => verdict[r] \in {"passed", "self-check", "confidence"}
                    /\ verdict[r] = "passed" => TrueVerdict(job[r]) \in {"passed", "evidence", "symbolic"}
  BY DEF InterferenceIsConfined
<1>1. /\ job[r] \in JobSet
      /\ verdict[r] \in {"self-check", "evidence", "confidence", "symbolic", "passed"}
  BY DEF IInv, TypeOK, HeardInv, Gates
<1>2. /\ Objecting(job[r]) = {} => TrueVerdict(job[r]) = "passed"
      /\ Objecting(job[r]) # {} => \E i \in Objecting(job[r]) : TrueVerdict(job[r]) = Order[i]
  BY <1>1, Deserved
<1>3. /\ Order[1] = "self-check" /\ Order[2] = "evidence"
      /\ Order[3] = "confidence" /\ Order[4] = "symbolic"
  BY DEF Order
<1>4. Objecting(job[r]) \subseteq 1..4
  BY DEF Objecting
<1>5. ASSUME verdict[r] \in {"evidence", "symbolic"} PROVE TrueVerdict(job[r]) # "passed"
  <2>1. job[r].oracle[verdict[r]] = "no" /\ verdict[r] \in GatesOf(job[r])
    BY <1>5 DEF IInv, RejectInv, GatesOf
  <2>2. Objecting(job[r]) # {}
    BY <1>3, <1>5, <2>1 DEF Objecting
  <2> QED BY <1>2, <1>3, <1>4, <2>2
<1>6. ASSUME verdict[r] = "passed" PROVE TrueVerdict(job[r]) \in {"passed", "evidence", "symbolic"}
  <2>1. job[r].oracle["self-check"] # "no" /\ job[r].oracle["confidence"] # "no"
    BY <1>6 DEF IInv, HeardInv, Approved
  <2>2. Objecting(job[r]) \subseteq {2, 4}
    BY <1>3, <1>4, <2>1 DEF Objecting
  <2> QED BY <1>2, <1>3, <1>4, <2>2
<1> QED BY <1>1, <1>5, <1>6

\* Who is alone, and without an outage, gets the verdict of the first gate that objects.
LEMMA SequentialFollows == IInv => SequentialIsExact
PROOF
<1> SUFFICES ASSUME IInv, NEW r \in Requests, ~outage, pc[r] = "done", alone[r]
             PROVE  verdict[r] = TrueVerdict(job[r])
  BY DEF SequentialIsExact
<1> DEFINE j == job[r]
<1>1. /\ j \in JobSet
      /\ verdict[r] \in {"self-check", "evidence", "confidence", "symbolic", "passed"}
  BY DEF IInv, TypeOK, HeardInv, Gates
<1>2. /\ Order[1] = "self-check" /\ Order[2] = "evidence"
      /\ Order[3] = "confidence" /\ Order[4] = "symbolic"
  BY DEF Order
<1> DEFINE before == Before(verdict[r])
<1>3. /\ \A g \in before \cap GatesOf(j) : j.oracle[g] # "no"
      /\ verdict[r] \in Gates => j.oracle[verdict[r]] = "no"
  BY DEF IInv, AloneInv, Through
<1>4. verdict[r] \in Gates => verdict[r] \in GatesOf(j)
  BY DEF IInv, RejectInv, GatesOf, Gates
<1>5. Objecting(j) = {i \in 1..4 : Order[i] \in GatesOf(j) /\ j.oracle[Order[i]] = "no"}
  BY DEF Objecting
<1> SUFFICES verdict[r] = TrueVerdict(j)
  OBVIOUS
<1> HIDE DEF j, before
<1>6. ASSUME NEW i \in 1..4, verdict[r] = Order[i], \A k \in 1..4 : k < i => Order[k] \in before
      PROVE  verdict[r] = TrueVerdict(j)
  <2>1. i \in Objecting(j)
    BY <1>2, <1>3, <1>4, <1>5, <1>6 DEF Gates
  <2>2. \A k \in Objecting(j) : i <= k
    BY <1>3, <1>5, <1>6
  <2> QED BY <1>1, <1>6, <2>1, <2>2, Deserved
<1>7. CASE verdict[r] = "passed"
  <2>1. before = {"self-check", "evidence", "confidence", "symbolic"}
    BY <1>7 DEF before, Before, Gates
  <2>2. \A i \in 1..4 : Order[i] \in before
    BY <2>1 DEF Order
  <2>3. Objecting(j) = {}
    BY <1>3, <1>5, <2>2
  <2> QED BY <1>1, <1>7, <2>3, Deserved
<1>8. CASE verdict[r] = "self-check"
  BY <1>2, <1>6, <1>8
<1>9. CASE verdict[r] = "evidence"
  <2>1. before = {"self-check"}
    BY <1>9 DEF before, Before
  <2>2. \A k \in 1..4 : k < 2 => Order[k] \in before
    BY <2>1 DEF Order
  <2> QED BY <1>2, <1>6, <1>9, <2>2
<1>10. CASE verdict[r] = "confidence"
  <2>1. before = {"self-check", "evidence"}
    BY <1>10 DEF before, Before
  <2>2. \A k \in 1..4 : k < 3 => Order[k] \in before
    BY <2>1 DEF Order
  <2> QED BY <1>2, <1>6, <1>10, <2>2
<1>11. CASE verdict[r] = "symbolic"
  <2>1. before = {"self-check", "evidence", "confidence"}
    BY <1>11 DEF before, Before
  <2>2. \A k \in 1..4 : k < 4 => Order[k] \in before
    BY <2>1 DEF Order
  <2> QED BY <1>2, <1>6, <1>11, <2>2
<1> QED BY <1>1, <1>7, <1>8, <1>9, <1>10, <1>11
-----------------------------------------------------------------------------
\* The state stays within its types; above all, each request makes one client.
THEOREM TypeCorrect == Spec => []TypeOK
PROOF BY Inductive, PTL DEF IInv

\* Whatever fails, and whoever closes the client, no answer passes without the
\* oracle's reply to the self-check and to the confidence gate.
THEOREM FailsClosed == Spec => []OutageFailsClosed
PROOF BY Inductive, OutageFollows, PTL

\* What overlapping requests can do to a verdict is confined to two gates.
THEOREM InterferenceConfined == Spec => []InterferenceIsConfined
PROOF BY Inductive, InterferenceFollows, PTL

\* A verification that overlaps no other gets the verdict its answer deserves.
THEOREM SequentialExact == Spec => []SequentialIsExact
PROOF BY Inductive, SequentialFollows, PTL
=============================================================================
