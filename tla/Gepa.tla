-------------------------------- MODULE Gepa --------------------------------
(***************************************************************************)
(* The prompt evolution service (gepa/evolution.py): it records agent      *)
(* trajectories, and every POST /evolve runs a cycle that proposes prompt  *)
(* variants, benchmarks them, merges them into the Pareto frontier and     *)
(* saves the frontier to a file.  Cycles of several clients interleave at  *)
(* their awaits; the process may be stopped, or die, even while it writes. *)
(***************************************************************************)
EXTENDS Lists, Sequences, Functions

CONSTANTS Models,        \* the models of current_prompts, in order
          Cycles,        \* calls of /evolve
          Scores,        \* what the benchmark of a variant may yield
          SAMPLE_SIZE,   \* trajectory_sample_size
          FRONTIER_SIZE, \* pareto_frontier_size
          MAX_VARIANTS,  \* bound: variants in an answer of the oracle
          MAX_RECORDS,   \* bound: trajectories recorded
          MAX_SECONDS,   \* bound: seconds that pass between answers
          MAX_STARTS     \* bound: starts of the process

ASSUME SizesAssumption == SAMPLE_SIZE \in Nat \ {0} /\ FRONTIER_SIZE \in Nat \ {0}
ASSUME BoundsAssumption ==
  MAX_VARIANTS \in Nat /\ MAX_RECORDS \in Nat /\ MAX_SECONDS \in Nat /\ MAX_STARTS \in Nat
ASSUME ScoresAssumption ==
  \A x \in Scores : x \in [DOMAIN x -> Int] /\ IsFiniteSet(DOMAIN x)
ASSUME ModelsAssumption == Models # <<>> /\ Models = [i \in 1..Len(Models) |-> Models[i]]

VARIABLES up,        \* whether the process runs
          starts,    \* how often it was started
          recorded,  \* how many trajectories were recorded (history)
          buffer,    \* trajectory_buffer, the success of each
          frontier,  \* pareto_frontier
          disk,      \* pareto_frontier.json: "absent", "torn" or "saved"
          saved,     \* the frontier that was last written to it in full
          pc,        \* the step each cycle is in
          asked,     \* how many models each cycle has proposed variants for
          drafts,    \* the variants each cycle proposed, one model after the other
          prompts,   \* the models each cycle returned improved prompts for
          clock,     \* the second in which variants are named
          archive    \* the scores of all variants that were merged and saved (history)

vars == <<up, starts, recorded, buffer, frontier, disk, saved, pc, asked, drafts,
          prompts, clock, archive>>

Init ==
  /\ up = TRUE
  /\ starts = 1
  /\ recorded = 0
  /\ buffer = <<>>
  /\ frontier = <<>>
  /\ disk = "absent"
  /\ saved = <<>>
  /\ pc = [c \in Cycles |-> "idle"]
  /\ asked = [c \in Cycles |-> 0]
  /\ drafts = [c \in Cycles |-> <<>>]
  /\ prompts = [c \in Cycles |-> {}]
  /\ clock = 0
  /\ archive = {}
-----------------------------------------------------------------------------
\* s[-n:] of Python: the last n elements, or all of them; for 0 it is all.
LastOf(s, n) == IF n = 0 \/ n >= Len(s) THEN s ELSE SubSeq(s, Len(s) - n + 1, Len(s))

Trimmed(b) == IF Len(b) > 2 * SAMPLE_SIZE THEN LastOf(b, 2 * SAMPLE_SIZE) ELSE b

Elements(s) == {s[i] : i \in DOMAIN s}

\* dominates: over the objectives both were scored on.
Common(v, w) == DOMAIN v.scores \cap DOMAIN w.scores

\* (variant) without at_least_one_better
dominatesWeakly(v, w) ==
  Common(v, w) # {} /\ \A o \in Common(v, w) : v.scores[o] >= w.scores[o]

dominates(v, w) ==
  /\ \A o \in Common(v, w) : v.scores[o] >= w.scores[o]
  /\ \E o \in Common(v, w) : v.scores[o] > w.scores[o]

Total(scores) == SumFunction(scores)
Sum(v) == Total(v.scores)

\* The places of a list, each with the total score found there.
Totals(s) == {<<i, Sum(s[i])>> : i \in DOMAIN s}

\* In a list sorted by total score, best first, one comes before another; the sort is stable.
Before(a, b) == a[2] > b[2] \/ (a[2] = b[2] /\ a[1] < b[1])

\* (variant) the worst variants come first
BestFirstReversed(s) ==
  {<<p[1][1], p[2][1]>> : p \in {q \in Totals(s) \X Totals(s) : Before(q[2], q[1])}}

BestFirst(s) ==
  {<<p[1][1], p[2][1]>> : p \in {q \in Totals(s) \X Totals(s) : Before(q[1], q[2])}}

\* (variant) new variants are only compared with the old frontier
NonDominatedOld(all) ==
  {i \in DOMAIN all : ~\E w \in Elements(frontier) : w.id # all[i].id /\ dominates(w, all[i])}

\* The places of the variants that no other dominates; variants are told apart by their ids.
NonDominated(all) ==
  {i \in DOMAIN all : ~\E w \in Elements(all) : w.id # all[i].id /\ dominates(w, all[i])}

\* (variant) the frontier is not cut
UpdatedUncut(new) ==
  LET all == frontier \o new
  IN Listed(all, NonDominated(all), AsListed(all), Cardinality(NonDominated(all)))

\* _update_pareto_frontier: sorted and cut where the frontier is too long.
Updated(new) ==
  LET all == frontier \o new
      kept == NonDominated(all)
  IN IF Cardinality(kept) > FRONTIER_SIZE
     THEN Listed(all, kept, BestFirst(all), FRONTIER_SIZE)
     ELSE Listed(all, kept, AsListed(all), Cardinality(kept))

\* _combine_lessons: a prompt for every model that has a variant on the frontier.
Lessons(f) == {v.model : v \in Elements(f)}

\* _load_state, of a file that can be parsed.
Loaded == IF disk = "absent" THEN <<>> ELSE saved
-----------------------------------------------------------------------------
\* POST /record-trajectory.
record_trajectory(ok) ==
  /\ up /\ recorded < MAX_RECORDS
  /\ recorded' = recorded + 1
  /\ buffer' = Trimmed(Append(buffer, ok))
  /\ UNCHANGED <<up, starts, frontier, disk, saved, pc, asked, drafts, prompts, clock, archive>>

\* Write the whole frontier: the file is truncated first, and nothing awaits
\* until it is complete.
_save_state(f) == disk' = "saved" /\ saved' = f

FailureSampled == FALSE \in Elements(LastOf(buffer, SAMPLE_SIZE))

\* POST /evolve: with no failure in the sample the current prompts are returned
\* (and the frontier is saved); else the failures are sent to the oracle.
evolve(c) ==
  /\ up /\ pc[c] = "idle"
  /\ IF FailureSampled
     THEN /\ pc' = [pc EXCEPT ![c] = "propose"]
          /\ UNCHANGED <<disk, saved, prompts>>
     ELSE /\ pc' = [pc EXCEPT ![c] = "done"]
          /\ prompts' = [prompts EXCEPT ![c] = Elements(Models)]
          /\ _save_state(frontier)
  /\ UNCHANGED <<up, starts, recorded, buffer, frontier, asked, drafts, clock, archive>>

\* The variants in the oracle's answer for a model, none if it cannot be used; they are
\* named by the second in which the answer came, and their place in it.
Answer(m, second, n) == [i \in 1..n |-> [id |-> <<m, second, i>>, model |-> m]]

\* The next model's variants are asked for.
_propose_variants(c) ==
  /\ up /\ pc[c] = "propose"
  /\ asked' = [asked EXCEPT ![c] = @ + 1]
  /\ \E n \in 0..MAX_VARIANTS, second \in {clock, clock + 1} :
       /\ second <= MAX_SECONDS
       /\ drafts' = [drafts EXCEPT ![c] = @ \o Answer(Models[asked'[c]], second, n)]
       /\ clock' = second
  /\ pc' = IF asked'[c] = Len(Models) THEN [pc EXCEPT ![c] = "benchmark"] ELSE pc
  /\ UNCHANGED <<up, starts, recorded, buffer, frontier, disk, saved, prompts, archive>>

Scored(ds, scores) ==
  [i \in DOMAIN ds |-> [id |-> ds[i].id, model |-> ds[i].model, scores |-> scores[i]]]

\* All benchmarks are back: from here to the saved file nothing awaits.
_benchmark_variants(c) ==
  /\ up /\ pc[c] = "benchmark"
  /\ \E scores \in [DOMAIN drafts[c] -> Scores] :
       LET new == Scored(drafts[c], scores)
       IN /\ frontier' = Updated(new)
          /\ archive' = archive \cup {v.scores : v \in Elements(new)}
  /\ _save_state(frontier')
  /\ prompts' = [prompts EXCEPT ![c] = Lessons(frontier')]
  /\ pc' = [pc EXCEPT ![c] = "done"]
  /\ asked' = [asked EXCEPT ![c] = 0]
  /\ drafts' = [drafts EXCEPT ![c] = <<>>]
  /\ UNCHANGED <<up, starts, recorded, buffer, clock>>

\* The process ends: what it held in memory is gone, its callers get an error.
Stopped ==
  /\ up' = FALSE
  /\ buffer' = <<>> /\ frontier' = <<>>
  /\ pc' = [c \in Cycles |-> IF pc[c] \in {"propose", "benchmark"} THEN "lost" ELSE pc[c]]
  /\ asked' = [c \in Cycles |-> 0]
  /\ drafts' = [c \in Cycles |-> <<>>]
  /\ UNCHANGED <<starts, recorded, prompts, clock, archive>>

crash == up /\ Stopped /\ UNCHANGED <<disk, saved>>

\* The end of lifespan, once no request is under way.
Quiet == \A c \in Cycles : pc[c] \notin {"propose", "benchmark"}
shutdown == up /\ Quiet /\ _save_state(frontier) /\ Stopped

\* The process dies between truncating the file and closing it, in a save of
\* lifespan or of a cycle.
die_while_saving ==
  /\ up
  /\ \/ Quiet
     \/ \E c \in Cycles : pc[c] = "benchmark" \/ (pc[c] = "idle" /\ ~FailureSampled)
  /\ disk' = "torn" /\ UNCHANGED saved
  /\ Stopped

\* The start of lifespan: a file that is no JSON raises, and nothing starts.
start ==
  /\ ~up /\ starts < MAX_STARTS
  /\ disk # "torn"
  /\ up' = TRUE
  /\ starts' = starts + 1
  /\ frontier' = Loaded
  /\ UNCHANGED <<recorded, buffer, disk, saved, pc, asked, drafts, prompts, clock, archive>>

Next ==
  \/ \E ok \in BOOLEAN : record_trajectory(ok)
  \/ \E c \in Cycles : evolve(c) \/ _propose_variants(c) \/ _benchmark_variants(c)
  \/ crash \/ shutdown \/ die_while_saving \/ start

Spec == Init /\ [][Next]_vars
-----------------------------------------------------------------------------
Ids == Elements(Models) \X Nat \X Nat
IsVariant(v) ==
  v.id \in Ids /\ v.model \in Elements(Models) /\ v.scores \in Scores

\* Types, and the bounds that the code puts on its two lists.
TypeOK ==
  /\ up \in BOOLEAN /\ starts \in Nat /\ recorded \in Nat /\ clock \in Nat
  /\ buffer \in Seq(BOOLEAN) /\ Len(buffer) <= 2 * SAMPLE_SIZE
  /\ Len(frontier) <= FRONTIER_SIZE
  /\ \A v \in Elements(frontier) \cup Elements(saved) : IsVariant(v)
  /\ archive \subseteq Scores
  /\ disk \in {"absent", "torn", "saved"}
  /\ pc \in [Cycles -> {"idle", "propose", "benchmark", "done", "lost"}]
  /\ \A c \in Cycles :
       /\ asked[c] \in 0..Len(Models) /\ (pc[c] = "propose" => asked[c] < Len(Models))
       /\ \A d \in Elements(drafts[c]) : d.id \in Ids
       /\ prompts[c] \subseteq Elements(Models)

\* No variant on the frontier dominates another, whichever cycles brought them there,
\* after cuts and restarts as well; unless both have the same name, because two cycles
\* were answered in the same second.
FrontierIsAntichain ==
  \A v, w \in Elements(frontier) : dominates(v, w) => v.id = w.id

\* While every variant was scored on the same objectives (no benchmark failed),
\* the best total score ever saved stays on the frontier: neither domination,
\* nor the cut to FRONTIER_SIZE, nor a crash and restart loses it.
SameObjectives == \A x, y \in archive : DOMAIN x = DOMAIN y

BestSurvives ==
  up /\ SameObjectives => \A x \in archive : \E w \in Elements(frontier) : Sum(w) >= Total(x)

\* While no benchmark failed, a variant leaves the frontier only for one that stays and
\* dominates it, or for want of place among variants with no lower total: a merge never
\* drops what it replaces by nothing.  It says nothing of stops and starts.
EvictionJustified ==
  [][up /\ up' /\ SameObjectives' =>
       \A v \in Elements(frontier) \ Elements(frontier') :
         \/ \E w \in Elements(frontier') : dominates(w, v)
         \/ /\ Len(frontier') = FRONTIER_SIZE
            /\ \A w \in Elements(frontier') : Sum(w) >= Sum(v)]_vars
=============================================================================
