---------------------------- MODULE HealthCheck -----------------------------
(***************************************************************************)
(* GET /health/full of the agent (agent/main.py): four blocking checks run *)
(* on the event loop's thread pool, and one of them, the routing test,     *)
(* sends a chat request to the agent itself.  The nodes of that request    *)
(* that block, the model call (nodes/inference.py, asyncio.to_thread) and  *)
(* those that are plain functions (which LangGraph hands to the pool),     *)
(* need a thread of the same pool, so routing tests wait, inside the pool, *)
(* for work queued behind them.  So does the work of other chat requests.  *)
(***************************************************************************)
EXTENDS Naturals, FiniteSets, Sequences

CONSTANTS Checks,     \* calls of /health/full
          Chats,      \* clients, each with one chat request at a time
          Conditions, \* which states of the services are considered
          PoolSizes   \* how many threads the pool may have (it depends on the host)

ASSUME PoolsAssumption == PoolSizes \subseteq Nat \ {0}
ASSUME ChecksAssumption == IsFiniteSet(Checks)
ASSUME ChatsAssumption == IsFiniteSet(Chats)
ASSUME ClientsAssumption == Checks \cap Chats = {}

Parts == <<"oracle", "executor", "memory", "routing">>
Services == {"oracle", "executor", "memory"}
Statuses == {"healthy", "degraded", "unhealthy"}
Unreported == {"unasked", "gathering"}

\* What a chat depends on: Mem0, asked before classification, and Qwen, for the
\* prompt of the routing test.  "slow" answers well, in its own time.
Backends == {"recall", "qwen"}
ASSUME ConditionsAssumption ==
  Conditions \subseteq [Services \cup Backends -> Statuses \cup {"slow"}]

\* The stretches of a chat that need a thread, and what comes after each; "call"
\* begins with classification.
Nodes == {"parse", "call", "finalize"}
Stages == Nodes \cup {"none", "recall", "answered"}
After == [parse |-> "recall", recall |-> "call", call |-> "finalize", finalize |-> "answered"]

Jobs == ({Parts[i] : i \in 1..4} \X Checks) \cup (Nodes \X (Checks \cup Chats))

VARIABLES services,  \* how each service answers /health, and Mem0 and Qwen a chat
          workers,   \* threads of the pool
          queue,     \* jobs waiting for a thread, first come first served
          busy,      \* jobs that hold a thread
          chat,      \* how far the chat of each client and of each routing test is
          result,    \* the results gathered for each check
          status     \* "unasked", "gathering", then what the check reports

vars == <<services, workers, queue, busy, chat, result, status>>

Init ==
  /\ services \in Conditions
  /\ workers \in PoolSizes
  /\ queue = <<>>
  /\ busy = {}
  /\ chat = [x \in Checks \cup Chats |-> "none"]
  /\ result = [c \in Checks |-> <<>>]
  /\ status = [c \in Checks |-> "unasked"]
-----------------------------------------------------------------------------
\* (variant) only an unreachable component counts
OverallUnreachable(parts) ==
  IF \E p \in Services : parts[p] = "unhealthy" THEN "unhealthy"
  ELSE IF parts["routing"] = "fail" THEN "degraded" ELSE "healthy"

\* (variant) a failed routing test is passed on as the overall status
OverallRouting(parts) ==
  IF parts["routing"] = "fail" THEN parts["routing"] ELSE OverallUnreachable(parts)

\* The end of _run_all_checks.
Overall(parts) ==
  IF \E p \in Services : parts[p] = "unhealthy" THEN "unhealthy"
  ELSE IF (\E p \in Services : parts[p] = "degraded") \/ parts["routing"] = "fail"
       THEN "degraded"
  ELSE "healthy"

Released(job) == busy \ {job}

\* A job that ends at once: it waits for nothing and nobody that may be slow.  A
\* model call of another client is none, for it may be one of DeepSeek (300 s).
Prompt(job) ==
  \/ job[1] \in Services /\ services[job[1]] = "healthy"
  \/ job[1] \in Nodes \ {"call"}
  \/ job[1] = "call" /\ job[2] \in Checks /\ services["qwen"] = "healthy"
  \/ job[1] = "routing" /\ chat[job[2]] = "answered"

\* Every thread is held, and none will be free soon.
Crowded == Cardinality(busy) = workers /\ ~\E job \in busy : Prompt(job)

\* (variant) the client of the routing test has no timeout
TimesOutNever(c) == FALSE

\* (variant) the client of the routing test is less patient than Qwen
TimesOutEarly(c) == chat[c] = "call"

\* The 30 s of the routing test's client pass before its chat is answered: Mem0
\* or Qwen took their time, or a node of the chat waits for a thread.
TimesOut(c) ==
  \/ chat[c] \in {"recall", "call", "finalize"} /\ services["recall"] # "healthy"
  \/ chat[c] \in {"call", "finalize"} /\ services["qwen"] # "healthy"
  \/ chat[c] \in Nodes /\ Crowded

\* GET /health/full: asyncio.gather over four jobs.
health_full(c) ==
  /\ status[c] = "unasked"
  /\ status' = [status EXCEPT ![c] = "gathering"]
  /\ queue' = queue \o [i \in 1..4 |-> <<Parts[i], c>>]
  /\ UNCHANGED <<services, workers, busy, chat, result>>

\* A chat gets to the given stage; a node asks the pool for a thread.
Reaches(x, stage) ==
  /\ chat' = [chat EXCEPT ![x] = stage]
  /\ queue' = IF stage \in Nodes THEN Append(queue, <<stage, x>>) ELSE queue

\* A client sends a request, or the routing test does that has a thread.
chat_completions(x) ==
  /\ \/ x \in Chats /\ chat[x] \in {"none", "answered"}
     \/ <<"routing", x>> \in busy /\ chat[x] = "none"
  /\ Reaches(x, "parse")
  /\ UNCHANGED <<services, workers, busy, result, status>>

\* Mem0 has been asked, on the event loop; an error counts as no memory.
retrieve_memory(x) ==
  /\ chat[x] = "recall"
  /\ Reaches(x, After["recall"])
  /\ UNCHANGED <<services, workers, busy, result, status>>

\* The thread is done with a node of a chat.  A model call ends by an answer or
\* an error; the client gets HTTP 200 either way, with the name classification
\* chose, if it has not given up by then.
run_node(x) ==
  /\ chat[x] \in Nodes /\ <<chat[x], x>> \in busy
  /\ busy' = Released(<<chat[x], x>>)
  /\ Reaches(x, After[chat[x]])
  /\ UNCHANGED <<services, workers, result, status>>

\* A free thread takes the next job.
thread_starts ==
  /\ queue # <<>> /\ Cardinality(busy) < workers
  /\ busy' = busy \cup {Head(queue)}
  /\ queue' = Tail(queue)
  /\ UNCHANGED <<services, workers, chat, result, status>>

Record(c, part, outcome) ==
  result' = [result EXCEPT ![c] = [p \in DOMAIN @ \cup {part} |-> IF p = part THEN outcome ELSE @[p]]]

\* "slow" is a good answer within the 10 s of the check.
Reported(s) == IF services[s] = "slow" THEN "healthy" ELSE services[s]

_check_component(c, part) ==
  /\ <<part, c>> \in busy
  /\ Record(c, part, Reported(part))
  /\ busy' = Released(<<part, c>>)
  /\ UNCHANGED <<services, workers, queue, chat, status>>

\* "pass" where the reply names a qwen model, as it does even in an apology;
\* "fail" where no reply came in time.
_run_routing_test(c) ==
  /\ <<"routing", c>> \in busy
  /\ \/ chat[c] = "answered" /\ Record(c, "routing", "pass")
     \/ TimesOut(c) /\ Record(c, "routing", "fail")
  /\ busy' = Released(<<"routing", c>>)
  /\ UNCHANGED <<services, workers, queue, chat, status>>

_run_all_checks(c) ==
  /\ status[c] = "gathering" /\ DOMAIN result[c] = {Parts[i] : i \in 1..4}
  /\ status' = [status EXCEPT ![c] = Overall(result[c])]
  /\ UNCHANGED <<services, workers, queue, busy, chat, result>>

CheckSteps(c) ==
  \/ \E part \in Services : _check_component(c, part)
  \/ _run_routing_test(c)
  \/ _run_all_checks(c)

ChatSteps(x) == retrieve_memory(x) \/ run_node(x)

Next ==
  \/ thread_starts
  \/ \E c \in Checks : health_full(c) \/ CheckSteps(c)
  \/ \E x \in Checks \cup Chats : chat_completions(x) \/ ChatSteps(x)

\* Threads and the event loop run, and every wait of a job or a chat has a
\* timeout; nobody need ask for a check or send a chat request, but a routing
\* test that has a thread does send its own.
Fairness ==
  /\ WF_vars(thread_starts)
  /\ \A c \in Checks : WF_vars(CheckSteps(c)) /\ WF_vars(chat_completions(c))
  /\ \A x \in Checks \cup Chats : WF_vars(ChatSteps(x))

Spec == Init /\ [][Next]_vars /\ Fairness
-----------------------------------------------------------------------------
TypeOK ==
  /\ services \in Conditions
  /\ workers \in PoolSizes
  /\ queue \in Seq(Jobs)
  /\ busy \subseteq Jobs /\ Cardinality(busy) <= workers
  /\ chat \in [Checks \cup Chats -> Stages]
  /\ \A c \in Checks :
       /\ DOMAIN result[c] \subseteq {Parts[i] : i \in 1..4}
       /\ \A p \in DOMAIN result[c] : result[c][p] \in Statuses \cup {"pass", "fail"}
  /\ status \in [Checks -> Statuses \cup Unreported]

\* No false alarm: while nothing is slow or broken, and the pool has more threads
\* than there are health checks and clients at a time, a check reports "healthy"
\* whatever else is queued.  A chat holds one thread at a time, a routing test
\* one more, so the work that routing tests wait for always gets a thread.
HealthyIsReported ==
  \A c \in Checks :
    /\ workers > Cardinality(Checks) + Cardinality(Chats)
    /\ \A s \in Services \cup Backends : services[s] = "healthy"
    => status[c] \in Unreported \cup {"healthy"}

\* No hidden fault: whatever happens in the pool, a component that answers badly
\* or not at all shows in the report, and the worst one decides it.
SicknessIsReported ==
  \A c \in Checks : status[c] \notin Unreported =>
    /\ (\E s \in Services : services[s] = "unhealthy") <=> status[c] = "unhealthy"
    /\ (\E s \in Services : services[s] = "degraded") => status[c] # "healthy"

\* Every check is answered, even when routing tests fill the pool: their timeout
\* breaks the circle.
EveryCheckAnswers == \A c \in Checks : status[c] = "gathering" ~> status[c] \in Statuses

\* Every chat is answered, however many health checks get in its way.
EveryChatAnswers == \A x \in Chats : chat[x] = "parse" ~> chat[x] = "answered"
=============================================================================
