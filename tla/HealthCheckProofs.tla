------------------------- MODULE HealthCheckProofs -------------------------
(***************************************************************************)
(* Proofs about HealthCheck, for any number of health checks and of chat   *)
(* requests, any thread pool and any condition of the services.            *)
(***************************************************************************)
EXTENDS HealthCheck, FiniteSetTheorems, SequenceTheorems, TLAPS

PartNames == {Parts[i] : i \in 1..4}
Results == UNION {[D -> Statuses \cup {"pass", "fail"}] : D \in SUBSET PartNames}

\* The types, with what TypeOK does not need to say to be checked.
ShapeInv ==
  /\ services \in [Services \cup Backends -> Statuses \cup {"slow"}]
  /\ services \in Conditions
  /\ workers \in PoolSizes
  /\ queue \in Seq(Jobs)
  /\ busy \in SUBSET Jobs /\ IsFiniteSet(busy) /\ Cardinality(busy) <= workers
  /\ chat \in [Checks \cup Chats -> Stages]
  /\ result \in [Checks -> Results]
  /\ status \in [Checks -> Statuses \cup Unreported]

Queued == {queue[i] : i \in 1..Len(queue)}

\* A job is in one place of the queue or on one thread.
OnceInv ==
  /\ \A i, j \in 1..Len(queue) : queue[i] = queue[j] => i = j
  /\ \A i \in 1..Len(queue) : queue[i] \notin busy

\* Whose jobs there are: no check's before it was asked for, no node's before its
\* chat got there or after the chat has left it.
Due(job) ==
  IF job[1] \in Nodes THEN chat[job[2]] = job[1] ELSE status[job[2]] # "unasked"
DueInv == \A job \in busy \cup Queued : Due(job)

\* A check of a component has found what is the case.
FoundInv == \A c \in Checks : \A s \in Services : s \in DOMAIN result[c] => result[c][s] = Reported(s)

AllHealthy == \A s \in Services \cup Backends : services[s] = "healthy"
Spare == workers > Cardinality(Checks) + Cardinality(Chats)

\* With threads to spare, no routing test of a healthy system has failed.
PassInv ==
  Spare /\ AllHealthy =>
    \A c \in Checks : "routing" \in DOMAIN result[c] => result[c]["routing"] = "pass"

IInv == ShapeInv /\ OnceInv /\ DueInv /\ FoundInv /\ PassInv /\ HealthyIsReported /\ SicknessIsReported
-----------------------------------------------------------------------------
LEMMA PartFacts ==
  /\ PartNames = {"oracle", "executor", "memory", "routing"}
  /\ Services \subseteq PartNames /\ Nodes \cap PartNames = {}
  /\ \A i, j \in 1..4 : Parts[i] = Parts[j] => i = j
  /\ \A i \in 1..4 : Parts[i] \in PartNames
PROOF BY DEF PartNames, Parts, Services, Nodes

LEMMA JobFacts ==
  \A job \in Jobs :
    /\ job = <<job[1], job[2]>>
    /\ \/ job[1] \in Nodes /\ job[2] \in Checks \cup Chats
       \/ job[1] \in PartNames /\ job[2] \in Checks
PROOF BY DEF Jobs, PartNames

LEMMA InitInv == Init => IInv
PROOF
<1> SUFFICES ASSUME Init PROVE IInv
  OBVIOUS
<1> USE DEF Init
<1>1. ShapeInv
  <2>1. services \in [Services \cup Backends -> Statuses \cup {"slow"}]
    BY ConditionsAssumption
  <2>2. Cardinality(busy) <= workers
    BY FS_EmptySet, PoolsAssumption
  <2>3. result \in [Checks -> Results]
    <3>1. <<>> \in [{} -> Statuses \cup {"pass", "fail"}]
      OBVIOUS
    <3>2. <<>> \in Results
      BY <3>1 DEF Results
    <3> QED BY <3>2
  <2> QED BY <2>1, <2>2, <2>3, FS_EmptySet DEF ShapeInv, Unreported, Stages
<1>2. OnceInv /\ DueInv
  BY DEF OnceInv, DueInv, Queued
<1>3. FoundInv /\ PassInv
  BY DEF FoundInv, PassInv
<1>4. HealthyIsReported /\ SicknessIsReported
  BY DEF HealthyIsReported, SicknessIsReported, Unreported
<1> QED BY <1>1, <1>2, <1>3, <1>4 DEF IInv

\* What the properties say of the reports stays true in a step that leaves the
\* services, the pool, the results and the reports alone.
LEMMA QuietSteps ==
  ASSUME IInv, UNCHANGED <<services, workers, result, status>>
  PROVE  FoundInv' /\ PassInv' /\ HealthyIsReported' /\ SicknessIsReported'
PROOF BY DEF IInv, FoundInv, Reported, PassInv, Spare, AllHealthy, HealthyIsReported, SicknessIsReported

\* A check is asked for: its four jobs are new.
LEMMA AskStep ==
  ASSUME IInv, NEW c \in Checks, health_full(c)
  PROVE  IInv'
PROOF
<1> DEFINE four == [i \in 1..4 |-> <<Parts[i], c>>]
<1> USE DEF health_full
<1>1. four \in Seq(Jobs) /\ Len(four) = 4
  BY DEF Jobs, Parts
<1>2. queue \in Seq(Jobs) /\ queue' = queue \o four
  BY DEF IInv, ShapeInv
<1> HIDE DEF four
<1>3. /\ queue' \in Seq(Jobs) /\ Len(queue') = Len(queue) + 4
      /\ \A i \in 1..Len(queue') :
           queue'[i] = IF i <= Len(queue) THEN queue[i] ELSE four[i - Len(queue)]
  <2>1. /\ queue \o four \in Seq(Jobs) /\ Len(queue \o four) = Len(queue) + 4
        /\ \A i \in 1..Len(queue) + 4 :
             (queue \o four)[i] = IF i <= Len(queue) THEN queue[i] ELSE four[i - Len(queue)]
    <3>1. queue \in Seq(Jobs) /\ four \in Seq(Jobs)
      BY <1>1, <1>2
    <3>2. /\ queue \o four \in Seq(Jobs) /\ Len(queue \o four) = Len(queue) + Len(four)
          /\ \A i \in 1..Len(queue) + Len(four) :
               (queue \o four)[i] = IF i <= Len(queue) THEN queue[i] ELSE four[i - Len(queue)]
      BY ONLY <3>1, ConcatProperties, Zenon
    <3> QED BY <1>1, <3>2
  <2> QED BY ONLY <1>2, <2>1
<1>4. \A i \in 1..4 : four[i] = <<Parts[i], c>>
  BY DEF four
<1>5. \A i \in 1..4 : four[i] \notin busy \cup Queued
  <2> TAKE i \in 1..4
  <2>1. ~Due(four[i])
    BY <1>4, PartFacts DEF Due
  <2> QED BY <2>1 DEF IInv, DueInv
<1>6. Len(queue) \in Nat
  BY <1>2
<1>7. ShapeInv'
  BY <1>3 DEF IInv, ShapeInv, Unreported
<1>8. OnceInv'
  <2>1. ASSUME NEW i \in 1..Len(queue'), NEW j \in 1..Len(queue'), queue'[i] = queue'[j]
        PROVE  i = j
    <3>1. CASE i <= Len(queue) /\ j <= Len(queue)
      BY <1>3, <1>6, <2>1, <3>1 DEF IInv, OnceInv
    <3>2. CASE i > Len(queue) /\ j > Len(queue)
      <4>1. i - Len(queue) \in 1..4 /\ j - Len(queue) \in 1..4
        BY ONLY <1>3, <1>6, <3>2, i \in 1..Len(queue'), j \in 1..Len(queue')
      <4>2. Parts[i - Len(queue)] = Parts[j - Len(queue)]
        <5>1. four[i - Len(queue)] = four[j - Len(queue)]
          BY ONLY <1>3, <1>6, <2>1, <3>2
        <5> QED BY <1>4, <4>1, <5>1
      <4> QED BY <1>6, <4>1, <4>2, PartFacts
    <3>3. CASE i <= Len(queue) /\ j > Len(queue)
      <4>1. i \in 1..Len(queue) /\ j - Len(queue) \in 1..4
        BY ONLY <1>3, <1>6, <3>3, i \in 1..Len(queue'), j \in 1..Len(queue')
      <4>2. queue'[i] \in Queued /\ queue'[j] = four[j - Len(queue)]
        BY <1>3, <1>6, <3>3, <4>1 DEF Queued
      <4> QED BY <1>5, <2>1, <4>1, <4>2
    <3>4. CASE i > Len(queue) /\ j <= Len(queue)
      <4>1. j \in 1..Len(queue) /\ i - Len(queue) \in 1..4
        BY ONLY <1>3, <1>6, <3>4, i \in 1..Len(queue'), j \in 1..Len(queue')
      <4>2. queue'[j] \in Queued /\ queue'[i] = four[i - Len(queue)]
        BY <1>3, <1>6, <3>4, <4>1 DEF Queued
      <4> QED BY <1>5, <2>1, <4>1, <4>2
    <3> QED BY <1>3, <1>6, <3>1, <3>2, <3>3, <3>4
  <2>2. \A i \in 1..Len(queue') : queue'[i] \notin busy'
    BY <1>3, <1>5, <1>6 DEF IInv, OnceInv
  <2> QED BY <2>1, <2>2 DEF OnceInv
<1>9. DueInv'
  <2>1. status \in [Checks -> Statuses \cup Unreported]
    BY DEF IInv, ShapeInv
  <2>2. \A job : Due(job) => Due(job)'
    BY <2>1 DEF Due
  <2>3. \A i \in 1..4 : Due(four[i])'
    BY <1>4, <2>1, PartFacts DEF Due
  <2>4. \A job \in Queued' : job \in Queued \/ \E i \in 1..4 : job = four[i]
    <3> TAKE job \in Queued'
    <3>0. PICK i \in 1..Len(queue') : job = queue'[i]
      BY DEF Queued
    <3>1. CASE i <= Len(queue)
      BY <1>3, <1>6, <3>0, <3>1 DEF Queued
    <3>2. CASE i > Len(queue)
      <4>1. i - Len(queue) \in 1..4 /\ queue'[i] = four[i - Len(queue)]
        BY ONLY <1>3, <1>6, <3>2, i \in 1..Len(queue')
      <4> QED BY <3>0, <4>1
    <3> QED BY <1>3, <1>6, <3>0, <3>1, <3>2
  <2> QED BY <2>2, <2>3, <2>4 DEF IInv, DueInv
<1>10. FoundInv' /\ PassInv'
  BY DEF IInv, FoundInv, Reported, PassInv, Spare, AllHealthy
<1>11. HealthyIsReported' /\ SicknessIsReported'
  BY DEF IInv, ShapeInv, HealthyIsReported, SicknessIsReported, Unreported
<1> QED BY <1>7, <1>8, <1>9, <1>10, <1>11 DEF IInv

\* A chat gets to a new stage: its job, if it needs a thread there, is new.
LEMMA Reached ==
  ASSUME IInv, NEW x \in Checks \cup Chats, NEW stage \in Stages, Reaches(x, stage),
         busy' \subseteq busy, UNCHANGED status,
         \A job \in busy' \cup Queued : ~(job[1] \in Nodes /\ job[2] = x)
  PROVE  queue' \in Seq(Jobs) /\ chat' \in [Checks \cup Chats -> Stages] /\ OnceInv' /\ DueInv'
PROOF
<1> DEFINE job == <<stage, x>>
<1>0. /\ chat \in [Checks \cup Chats -> Stages] /\ queue \in Seq(Jobs) /\ busy \subseteq Jobs
      /\ chat' = [chat EXCEPT ![x] = stage]
  BY DEF IInv, ShapeInv, Reaches
<1>1. \A j \in busy' \cup Queued : Due(j)'
  <2> TAKE j \in busy' \cup Queued
  <2>1. Due(j) /\ j \in Jobs
    BY <1>0 DEF IInv, DueInv, Queued
  <2>2. j[1] \in Nodes => j[2] # x /\ j[2] \in Checks \cup Chats
    BY <2>1, JobFacts, PartFacts
  <2> QED BY <1>0, <2>1, <2>2 DEF Due
<1>2. CASE stage \notin Nodes
  <2>1. queue' = queue
    BY <1>2 DEF Reaches
  <2> QED BY <1>0, <1>1, <2>1 DEF IInv, OnceInv, DueInv, Queued
<1>3. CASE stage \in Nodes
  <2>1. /\ queue' \in Seq(Jobs) /\ Len(queue') = Len(queue) + 1 /\ Len(queue) \in Nat
        /\ \A i \in 1..Len(queue) : queue'[i] = queue[i]
        /\ queue'[Len(queue) + 1] = job
    BY <1>0, <1>3 DEF Reaches, Jobs
  <2>2. job \notin busy' \cup Queued
    BY <1>3
  <2>3. \A i \in 1..Len(queue) : queue[i] # job
    BY <2>2 DEF Queued
  <2>4. \A i \in 1..Len(queue') : i \in 1..Len(queue) \/ i = Len(queue) + 1
    BY <2>1
  <2>5. OnceInv'
    <3>1. \A i \in 1..Len(queue) : queue'[i] # queue'[Len(queue) + 1]
      BY ONLY <2>1, <2>3
    <3>2. \A i, j \in 1..Len(queue) : queue'[i] = queue'[j] => i = j
      BY <2>1 DEF IInv, OnceInv
    <3>3. \A i, j \in 1..Len(queue') : queue'[i] = queue'[j] => i = j
      BY ONLY <2>4, <3>1, <3>2
    <3>4. \A i \in 1..Len(queue) : queue'[i] \notin busy'
      BY <2>1 DEF IInv, OnceInv
    <3>5. queue'[Len(queue) + 1] \notin busy'
      BY <2>1, <2>2
    <3>6. \A i \in 1..Len(queue') : queue'[i] \notin busy'
      BY ONLY <2>4, <3>4, <3>5
    <3> QED BY <3>3, <3>6 DEF OnceInv
  <2>6. DueInv'
    <3>1. Due(job)'
      BY <1>0, <1>3 DEF Due
    <3>2. \A j \in Queued' : j \in Queued \/ j = job
      BY <2>1, <2>4 DEF Queued
    <3> QED BY <1>1, <3>1, <3>2 DEF DueInv
  <2> QED BY <1>0, <2>1, <2>5, <2>6
<1> QED BY <1>2, <1>3

\* A chat that is in no node has no job.
LEMMA NoJob ==
  ASSUME IInv, NEW x \in Checks \cup Chats, chat[x] \notin Nodes
  PROVE  \A job \in busy \cup Queued : ~(job[1] \in Nodes /\ job[2] = x)
PROOF BY DEF IInv, DueInv, Due

\* A chat request is sent, or Mem0 has been asked for it.
LEMMA ChatStep ==
  ASSUME IInv, NEW x \in Checks \cup Chats, chat_completions(x) \/ retrieve_memory(x)
  PROVE  IInv'
PROOF
<1>1. PICK stage \in Stages : Reaches(x, stage)
  BY DEF chat_completions, retrieve_memory, Stages, Nodes, After
<1>2. chat[x] \notin Nodes /\ UNCHANGED <<services, workers, busy, result, status>>
  BY DEF chat_completions, retrieve_memory, Nodes
<1>3. \A job \in busy' \cup Queued : ~(job[1] \in Nodes /\ job[2] = x)
  BY <1>2, NoJob
<1>4. queue' \in Seq(Jobs) /\ chat' \in [Checks \cup Chats -> Stages] /\ OnceInv' /\ DueInv'
  BY <1>1, <1>2, <1>3, Reached
<1>5. ShapeInv'
  BY <1>2, <1>4 DEF IInv, ShapeInv
<1> QED BY <1>2, <1>4, <1>5, QuietSteps DEF IInv

\* A thread takes the first job.
LEMMA StartStep ==
  ASSUME IInv, thread_starts
  PROVE  IInv'
PROOF
<1> USE DEF thread_starts
<1>1. /\ queue' \in Seq(Jobs) /\ Len(queue') = Len(queue) - 1 /\ Len(queue) \in Nat \ {0}
      /\ \A i \in 1..Len(queue') : queue'[i] = queue[i + 1]
      /\ Head(queue) = queue[1] /\ queue[1] \in Jobs
  BY DEF IInv, ShapeInv
<1>2. Head(queue) \notin busy
  BY <1>1 DEF IInv, OnceInv
<1>3. ShapeInv'
  <2>1. busy' \in SUBSET Jobs
    BY <1>1 DEF IInv, ShapeInv
  <2>2. IsFiniteSet(busy') /\ Cardinality(busy') = Cardinality(busy) + 1
    BY <1>2, FS_AddElement DEF IInv, ShapeInv
  <2>3. Cardinality(busy) \in Nat /\ workers \in Nat
    BY FS_CardinalityType, PoolsAssumption DEF IInv, ShapeInv
  <2>4. Cardinality(busy') <= workers'
    BY <2>2, <2>3
  <2> QED BY <1>1, <2>1, <2>2, <2>4 DEF IInv, ShapeInv
<1>4. OnceInv'
  <2>1. \A i \in 1..Len(queue') : i + 1 \in 1..Len(queue) /\ i + 1 # 1
    BY <1>1
  <2>2. \A i \in 1..Len(queue') : queue'[i] # Head(queue)
    BY <1>1, <2>1 DEF IInv, OnceInv
  <2>3. \A i, j \in 1..Len(queue') : i + 1 = j + 1 => i = j
    OBVIOUS
  <2> QED BY <1>1, <2>1, <2>2, <2>3 DEF IInv, OnceInv
<1>5. DueInv'
  <2>1. \A job : Due(job)' <=> Due(job)
    BY DEF Due
  <2>2. busy' \cup Queued' \subseteq busy \cup Queued
    BY <1>1 DEF Queued
  <2> QED BY <2>1, <2>2 DEF IInv, DueInv
<1> QED BY <1>3, <1>4, <1>5, QuietSteps DEF IInv

\* A job that ends frees its thread.
LEMMA Fewer ==
  ASSUME IInv, NEW job \in busy
  PROVE  Released(job) \in SUBSET Jobs /\ IsFiniteSet(Released(job))
         /\ Cardinality(Released(job)) <= workers
PROOF
<1>1. Cardinality(busy) \in Nat /\ workers \in Nat
  BY FS_CardinalityType, PoolsAssumption DEF IInv, ShapeInv
<1>2. IsFiniteSet(busy) /\ Cardinality(busy) <= workers /\ busy \in SUBSET Jobs
  BY DEF IInv, ShapeInv
<1>3. IsFiniteSet(busy \ {job}) /\ Cardinality(busy \ {job}) = Cardinality(busy) - 1
  BY ONLY <1>2, FS_RemoveElement, job \in busy
<1> QED BY <1>1, <1>2, <1>3 DEF Released

\* A job of a check that ends leaves the other jobs as they were.
LEMMA Freed ==
  ASSUME IInv, NEW job \in busy, busy' = Released(job), queue' = queue
  PROVE  /\ busy' \in SUBSET Jobs /\ IsFiniteSet(busy') /\ Cardinality(busy') <= workers
         /\ OnceInv'
         /\ busy' \cup Queued' \subseteq (busy \cup Queued) \ {job}
PROOF
<1>1. busy' \in SUBSET Jobs /\ IsFiniteSet(busy') /\ Cardinality(busy') <= workers
  BY Fewer
<1>2. OnceInv'
  BY DEF IInv, OnceInv, Released
<1>3. busy' \cup Queued' \subseteq (busy \cup Queued) \ {job}
  BY DEF IInv, OnceInv, Released, Queued
<1> QED BY <1>1, <1>2, <1>3

\* A node of a chat is done, and the chat goes on.
LEMMA NodeStep ==
  ASSUME IInv, NEW x \in Checks \cup Chats, run_node(x)
  PROVE  IInv'
PROOF
<1> DEFINE job == <<chat[x], x>>
<1>1. /\ chat[x] \in Nodes /\ job \in busy /\ busy' = Released(job)
      /\ UNCHANGED <<services, workers, result, status>>
  BY DEF run_node
<1>2. PICK stage \in Stages : Reaches(x, stage)
  BY DEF run_node, Stages, Nodes, After
<1>3. \A j \in busy' \cup Queued : ~(j[1] \in Nodes /\ j[2] = x)
  <2> SUFFICES ASSUME NEW j \in busy' \cup Queued, j[1] \in Nodes, j[2] = x PROVE FALSE
    OBVIOUS
  <2>1. j \in Jobs /\ Due(j)
    BY <1>1 DEF IInv, ShapeInv, DueInv, Queued, Released
  <2>2. j = job
    <3>1. chat[x] = j[1]
      BY <2>1 DEF Due
    <3>2. j = <<j[1], j[2]>>
      BY <2>1, JobFacts
    <3> QED BY <3>1, <3>2
  <2> QED BY <1>1, <2>2 DEF IInv, OnceInv, Queued, Released
<1>4. queue' \in Seq(Jobs) /\ chat' \in [Checks \cup Chats -> Stages] /\ OnceInv' /\ DueInv'
  <2>1. busy' \subseteq busy
    BY <1>1 DEF Released
  <2> QED BY <1>1, <1>2, <1>3, <2>1, Reached
<1>5. busy' \in SUBSET Jobs /\ IsFiniteSet(busy') /\ Cardinality(busy') <= workers
  <2> HIDE DEF job
  <2> QED BY <1>1, Fewer
<1>6. ShapeInv'
  BY <1>1, <1>4, <1>5 DEF IInv, ShapeInv
<1> QED BY <1>1, <1>4, <1>6, QuietSteps DEF IInv

\* What is recorded for a part is its outcome, and nothing else changes.
LEMMA Recorded ==
  ASSUME IInv, NEW c \in Checks, NEW part \in PartNames,
         NEW outcome \in Statuses \cup {"pass", "fail"}, Record(c, part, outcome)
  PROVE  /\ result' \in [Checks -> Results]
         /\ \A d \in Checks : d # c => result'[d] = result[d]
         /\ DOMAIN result'[c] = DOMAIN result[c] \cup {part}
         /\ result'[c][part] = outcome
         /\ \A p \in DOMAIN result[c] : p # part => result'[c][p] = result[c][p]
PROOF
<1> DEFINE new == [p \in DOMAIN result[c] \cup {part} |-> IF p = part THEN outcome ELSE result[c][p]]
<1>1. result \in [Checks -> Results]
  BY DEF IInv, ShapeInv
<1>2. result' = [result EXCEPT ![c] = new]
  BY <1>1 DEF Record
<1>3. PICK D \in SUBSET PartNames : result[c] \in [D -> Statuses \cup {"pass", "fail"}]
  BY <1>1 DEF Results
<1>4. new \in [D \cup {part} -> Statuses \cup {"pass", "fail"}]
  BY <1>3
<1>5. new \in Results
  BY <1>4 DEF Results
<1>6. /\ DOMAIN new = DOMAIN result[c] \cup {part}
      /\ new[part] = outcome
      /\ \A p \in DOMAIN result[c] : p # part => new[p] = result[c][p]
  OBVIOUS
<1> HIDE DEF new
<1>7. result'[c] = new /\ \A d \in Checks : d # c => result'[d] = result[d]
  BY <1>1, <1>2
<1>8. result' \in [Checks -> Results]
  BY <1>1, <1>2, <1>5
<1> QED BY <1>6, <1>7, <1>8

\* A component has been checked.
LEMMA ComponentStep ==
  ASSUME IInv, NEW c \in Checks, NEW part \in Services, _check_component(c, part)
  PROVE  IInv'
PROOF
<1> USE DEF _check_component
<1>1. /\ busy' \in SUBSET Jobs /\ IsFiniteSet(busy') /\ Cardinality(busy') <= workers
      /\ OnceInv'
      /\ busy' \cup Queued' \subseteq (busy \cup Queued) \ {<<part, c>>}
  BY Freed
<1>2. Reported(part) \in Statuses
  BY DEF IInv, ShapeInv, Reported, Statuses
<1>3. /\ result' \in [Checks -> Results]
      /\ \A d \in Checks : d # c => result'[d] = result[d]
      /\ DOMAIN result'[c] = DOMAIN result[c] \cup {part}
      /\ result'[c][part] = Reported(part)
      /\ \A p \in DOMAIN result[c] : p # part => result'[c][p] = result[c][p]
  BY <1>2, PartFacts, Recorded
<1>4. ShapeInv'
  BY <1>1, <1>3 DEF IInv, ShapeInv
<1>5. DueInv'
  <2>1. \A job : Due(job)' <=> Due(job)
    BY DEF Due
  <2> QED BY <1>1, <2>1 DEF IInv, DueInv
<1>6. FoundInv'
  BY <1>3 DEF IInv, FoundInv, Reported
<1>7. PassInv'
  <2>1. part # "routing"
    BY DEF Services
  <2> QED BY <1>3, <2>1 DEF IInv, PassInv, Spare, AllHealthy
<1>8. HealthyIsReported' /\ SicknessIsReported'
  BY DEF IInv, HealthyIsReported, SicknessIsReported
<1> QED BY <1>1, <1>4, <1>5, <1>6, <1>7, <1>8 DEF IInv

\* While there are more threads than checks and clients, and nothing is slow,
\* routing tests that wait and calls of clients cannot hold all threads.
LEMMA NotCrowded ==
  ASSUME IInv, Spare, AllHealthy
  PROVE  ~Crowded
PROOF
<1> SUFFICES ASSUME Crowded PROVE FALSE
  OBVIOUS
<1>1. \A job \in busy :
        \/ job = <<"routing", job[2]>> /\ job[2] \in Checks
        \/ job = <<"call", job[2]>> /\ job[2] \in Chats
  <2> TAKE job \in busy
  <2>1. job \in Jobs /\ ~Prompt(job)
    BY DEF IInv, ShapeInv, Crowded
  <2>2. job[1] \notin Services
    BY <2>1 DEF Prompt, AllHealthy
  <2>3. job[1] \in Nodes => job[1] = "call" /\ job[2] \notin Checks
    BY <2>1 DEF Prompt, AllHealthy, Backends
  <2> QED BY <2>1, <2>2, <2>3, JobFacts, PartFacts DEF Services
<1> DEFINE whose == [job \in busy |-> job[2]]
<1>2. whose \in [busy -> Checks \cup Chats] /\ \A job \in busy : whose[job] = job[2]
  BY <1>1
<1> HIDE DEF whose
<1>3. IsFiniteSet(Checks \cup Chats) /\ Cardinality(Checks \cup Chats) < Cardinality(busy)
  <2>1. /\ IsFiniteSet(Checks \cup Chats)
        /\ Cardinality(Checks \cup Chats) = Cardinality(Checks) + Cardinality(Chats)
    <3>1. /\ IsFiniteSet(Checks \cup Chats)
          /\ Cardinality(Checks \cup Chats)
               = Cardinality(Checks) + Cardinality(Chats) - Cardinality(Checks \cap Chats)
      BY FS_Union, ChecksAssumption, ChatsAssumption
    <3>2. Cardinality(Checks \cap Chats) = 0
      BY FS_EmptySet, ClientsAssumption
    <3>3. Cardinality(Checks) \in Nat /\ Cardinality(Chats) \in Nat
      BY FS_CardinalityType, ChecksAssumption, ChatsAssumption
    <3> QED BY <3>1, <3>2, <3>3
  <2>2. Cardinality(busy) = workers
    BY DEF Crowded
  <2> QED BY <2>1, <2>2 DEF Spare
<1>4. PICK j, k \in busy : j # k /\ whose[j] = whose[k]
  <2>1. IsFiniteSet(busy)
    BY DEF IInv, ShapeInv
  <2> QED BY ONLY <1>2, <1>3, <2>1, FS_PigeonHole
<1> QED BY <1>1, <1>2, <1>4, ClientsAssumption

\* The routing test of a check has ended.
LEMMA RoutingStep ==
  ASSUME IInv, NEW c \in Checks, _run_routing_test(c)
  PROVE  IInv'
PROOF
<1> USE DEF _run_routing_test
<1>1. /\ busy' \in SUBSET Jobs /\ IsFiniteSet(busy') /\ Cardinality(busy') <= workers
      /\ OnceInv'
      /\ busy' \cup Queued' \subseteq (busy \cup Queued) \ {<<"routing", c>>}
  BY Freed
<1>2. PICK outcome \in {"pass", "fail"} :
        Record(c, "routing", outcome) /\ (outcome = "fail" => TimesOut(c))
  OBVIOUS
<1>3. /\ result' \in [Checks -> Results]
      /\ \A d \in Checks : d # c => result'[d] = result[d]
      /\ DOMAIN result'[c] = DOMAIN result[c] \cup {"routing"}
      /\ result'[c]["routing"] = outcome
      /\ \A p \in DOMAIN result[c] : p # "routing" => result'[c][p] = result[c][p]
  BY <1>2, PartFacts, Recorded
<1>4. ShapeInv'
  BY <1>1, <1>3 DEF IInv, ShapeInv
<1>5. DueInv'
  <2>1. \A job : Due(job)' <=> Due(job)
    BY DEF Due
  <2> QED BY <1>1, <2>1 DEF IInv, DueInv
<1>6. FoundInv'
  BY <1>3 DEF IInv, FoundInv, Reported, Services
<1>7. PassInv'
  <2> SUFFICES ASSUME Spare, AllHealthy
               PROVE  \A d \in Checks :
                        "routing" \in DOMAIN result'[d] => result'[d]["routing"] = "pass"
    BY DEF PassInv, Spare, AllHealthy
  <2>1. ~TimesOut(c)
    BY NotCrowded DEF TimesOut, AllHealthy, Backends
  <2> QED BY <1>2, <1>3, <2>1 DEF IInv, PassInv
<1>8. HealthyIsReported' /\ SicknessIsReported'
  BY DEF IInv, HealthyIsReported, SicknessIsReported
<1> QED BY <1>1, <1>4, <1>5, <1>6, <1>7, <1>8 DEF IInv

\* All results are in, and the check reports.
LEMMA ReportStep ==
  ASSUME IInv, NEW c \in Checks, _run_all_checks(c)
  PROVE  IInv'
PROOF
<1> USE DEF _run_all_checks
<1>1. /\ status \in [Checks -> Statuses \cup Unreported]
      /\ services \in [Services \cup Backends -> Statuses \cup {"slow"}]
  BY DEF IInv, ShapeInv
<1>2. \A s \in Services : result[c][s] = Reported(s)
  BY PartFacts DEF IInv, FoundInv, PartNames
<1>3. "routing" \in DOMAIN result[c]
  BY PartFacts DEF PartNames
<1>4. status'[c] = Overall(result[c]) /\ \A d \in Checks : d # c => status'[d] = status[d]
  BY <1>1
<1>5. Overall(result[c]) \in Statuses
  BY DEF Overall, Statuses
<1>6. ShapeInv' /\ OnceInv'
  BY <1>1, <1>4, <1>5 DEF IInv, ShapeInv, OnceInv
<1>7. DueInv'
  <2>1. status'[c] # "unasked"
    BY <1>4, <1>5 DEF Statuses
  <2>2. \A job \in Jobs : Due(job) => Due(job)'
    BY <1>4, <2>1, JobFacts DEF Due
  <2>3. busy \cup Queued \subseteq Jobs
    BY DEF IInv, ShapeInv, Queued
  <2> QED BY <2>2, <2>3 DEF IInv, DueInv, Queued
<1>8. FoundInv' /\ PassInv'
  BY DEF IInv, FoundInv, Reported, PassInv, Spare, AllHealthy
<1>9. HealthyIsReported'
  <2> SUFFICES ASSUME Spare, AllHealthy
               PROVE  \A d \in Checks : status'[d] \in Unreported \cup {"healthy"}
    BY DEF HealthyIsReported, Spare, AllHealthy
  <2>1. result[c]["routing"] = "pass"
    BY <1>3 DEF IInv, PassInv
  <2>2. Overall(result[c]) = "healthy"
    BY <1>2, <2>1 DEF Overall, Reported, AllHealthy
  <2> QED BY <1>4, <2>2 DEF IInv, HealthyIsReported, Spare, AllHealthy
<1>10. SicknessIsReported'
  <2>1. /\ (\E s \in Services : services[s] = "unhealthy") <=> Overall(result[c]) = "unhealthy"
        /\ (\E s \in Services : services[s] = "degraded") => Overall(result[c]) # "healthy"
    BY <1>2 DEF Overall, Reported
  <2> QED BY <1>4, <2>1 DEF IInv, SicknessIsReported
<1> QED BY <1>6, <1>7, <1>8, <1>9, <1>10 DEF IInv

\* No step of the pool, of a check or of a chat request breaks the invariant.
THEOREM Inductive == Spec => []IInv
PROOF
<1>1. ASSUME IInv, [Next]_vars PROVE IInv'
  <2>1. CASE thread_starts
    BY <1>1, <2>1, StartStep
  <2>2. ASSUME NEW c \in Checks, health_full(c) PROVE IInv'
    BY <1>1, <2>2, AskStep
  <2>3. ASSUME NEW c \in Checks, CheckSteps(c) PROVE IInv'
    BY <1>1, <2>3, ComponentStep, RoutingStep, ReportStep DEF CheckSteps
  <2>4. ASSUME NEW x \in Checks \cup Chats, chat_completions(x) PROVE IInv'
    BY <1>1, <2>4, ChatStep
  <2>5. ASSUME NEW x \in Checks \cup Chats, ChatSteps(x) PROVE IInv'
    BY <1>1, <2>5, ChatStep, NodeStep DEF ChatSteps
  <2>6. CASE UNCHANGED vars
    BY <1>1, <2>6 DEF vars, IInv, ShapeInv, OnceInv, DueInv, Due, Queued, FoundInv, Reported, PassInv,
                      Spare, AllHealthy, HealthyIsReported, SicknessIsReported
  <2> QED BY <1>1, <2>1, <2>2, <2>3, <2>4, <2>5, <2>6 DEF Next
<1> QED BY InitInv, <1>1, PTL DEF Spec

\* The state stays within its types: no more jobs run than there are threads.
THEOREM TypeCorrect == Spec => []TypeOK
PROOF
<1>1. IInv => TypeOK
  <2> SUFFICES ASSUME IInv PROVE TypeOK
    OBVIOUS
  <2>1. ASSUME NEW c \in Checks
        PROVE  /\ DOMAIN result[c] \subseteq PartNames
               /\ \A p \in DOMAIN result[c] : result[c][p] \in Statuses \cup {"pass", "fail"}
    BY DEF IInv, ShapeInv, Results
  <2> QED BY <2>1 DEF IInv, ShapeInv, TypeOK, PartNames
<1> QED BY Inductive, <1>1, PTL

\* A check never calls a system sick in which nothing is slow or broken, while the
\* pool has more threads than there are checks and clients at a time, for any
\* number of both and of requests: by the pigeonhole principle, routing tests that
\* wait and calls of clients cannot hold all threads.
THEOREM NoFalseAlarm == Spec => []HealthyIsReported
PROOF BY Inductive, PTL DEF IInv

\* A sick component always shows in the report, however full the pool is.
THEOREM NoHiddenFault == Spec => []SicknessIsReported
PROOF BY Inductive, PTL DEF IInv
=============================================================================
