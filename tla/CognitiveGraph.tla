--------------------------- MODULE CognitiveGraph ---------------------------
(***************************************************************************)
(* The agent orchestrator: chat requests (agent/main.py) run concurrently  *)
(* through the LangGraph workflow of agent/graph.py, or through its        *)
(* streaming twin stream_graph, and share the memories kept by Mem0.       *)
(* One action per node; a node that awaits twice is two actions.  Every    *)
(* call to a service may fail, and the failure is handled as the node's    *)
(* except clause handles it.                                               *)
(***************************************************************************)
EXTENDS Naturals, FiniteSets

CONSTANTS Requests,      \* identities of the requests that may arrive
          Inputs,        \* the chat requests a client may send
          Answers,       \* what a model may answer, see AnswerKinds
          MAX_RETRIES,   \* MAX_RETRIES of nodes/metacognition.py
          RETRY_LIMIT,   \* the literal 2 that route_after_metacog compares with
          SEARCH_LIMIT   \* how many memories a search returns at most

(***************************************************************************)
(* A prompt is the set of tests of the code that it passes: it is empty,   *)
(* it is shorter than 50 characters, it contains one of should_use_memory's*)
(* greetings, one of TRIVIAL_INDICATORS, STATUS_KEYWORDS,                  *)
(* SOVEREIGN_VOCABULARY or COMPLEX_INDICATORS, or it is longer than 500    *)
(* characters or comes with more than five earlier messages ("deep").      *)
(***************************************************************************)
Features == {"empty", "short", "greeting", "trivial", "status",
             "sovereign", "indicator", "deep"}

\* The endpoints, by key, and the names they report.
ENDPOINTS == [deepseek |-> "deepseek-v3.2", qwen |-> "qwen-executor"]

\* The "model" field: an alias of an endpoint, "auto" or an unknown name.
ModelFields == DOMAIN ENDPOINTS \cup {"auto", "unknown"}

ChatRequests == [prompt : SUBSET Features, model : ModelFields, stream : BOOLEAN]

\* A non-empty answer is known by the first verification gate it fails; the
\* empty text is "no_text".
GateFailures == {"hallucination", "incomplete", "too_short", "incoherent"}
AnswerKinds == GateFailures \cup {"good"}

ASSUME InputsAssumption == Inputs \subseteq ChatRequests
ASSUME AnswersAssumption == Answers \subseteq AnswerKinds
ASSUME LimitsAssumption ==
  /\ MAX_RETRIES \in Nat
  /\ RETRY_LIMIT \in Nat \ {0}
  /\ SEARCH_LIMIT \in Nat

VARIABLES pc,      \* the node each request is about to run, "idle" or "done"
          input,   \* the chat request as received
          gs,      \* its GraphState, the keys the nodes read and write
          reply,   \* what its client has received
          memory,  \* the interactions Mem0 holds
          posted,  \* those it was sent and has not stored; it may yet, or never
          calls    \* how many times a model was called for it (history)

vars == <<pc, input, gs, reply, memory, posted, calls>>

Nodes == {"idle", "parse", "retrieve_memory", "search_memory", "classify",
          "handle_status", "retrieve_knowledge", "call_model", "store_memory",
          "metacog", "finalize", "done"}

ComplexityLevel == {"TRIVIAL", "ROUTINE", "COMPLEX", "TOOL_HEAVY"}
ModelNames == {"auto", "deepseek-v3.2", "qwen2.5-coder-7b", "qwen-executor",
               "sovereign-introspection"}
Verdicts == {"unset", "skipped", "passed_all_gates", "passed_after_max_retries"}
            \cup GateFailures
Replies == {"none", "refused", "answer", "empty", "apology",
            "sse", "sse_broken", "sse_closed"}
Items == [req : Requests, attempt : Nat, answer : AnswerKinds]

GraphState ==
  [complexity : ComplexityLevel \cup {"unset"}, is_status_query : BOOLEAN,
   model_name : ModelNames, memory_context : SUBSET Items,
   response : AnswerKinds \cup {"no_text", "status"}, usage : Nat, error : BOOLEAN,
   metacog_passed : BOOLEAN, metacog_verdict : Verdicts, retry_count : Nat]

\* The state invoke_graph starts from; absent keys have the default the code
\* reads them with.  usage is the number of the call that reported it.
InitialState ==
  [complexity |-> "unset", is_status_query |-> FALSE, model_name |-> "auto",
   memory_context |-> {}, response |-> "no_text", usage |-> 0, error |-> FALSE,
   metacog_passed |-> TRUE, metacog_verdict |-> "unset", retry_count |-> 0]

NoInput == [prompt |-> {"empty"}, model |-> "auto", stream |-> FALSE]

Init ==
  /\ pc = [r \in Requests |-> "idle"]
  /\ input = [r \in Requests |-> NoInput]
  /\ gs = [r \in Requests |-> InitialState]
  /\ reply = [r \in Requests |-> "none"]
  /\ memory = {}
  /\ posted = {}
  /\ calls = [r \in Requests |-> 0]
-----------------------------------------------------------------------------
(* The pure functions of the nodes and of the conditional edges. *)

\* Greetings go straight to classification.
should_use_memory(in) ==
  IF {"greeting", "short"} \subseteq in.prompt THEN "classify" ELSE "retrieve_memory"

\* A named endpoint overrides every other rule.
Override(in) == in.model \in DOMAIN ENDPOINTS

IsStatusQuery(in) == ~Override(in) /\ "status" \in in.prompt

\* The trivial words are looked for before the words that make a task complex.
PromptComplexity(prompt) ==
  IF {"trivial", "short"} \subseteq prompt THEN "TRIVIAL"
  ELSE IF prompt \cap {"sovereign", "indicator", "deep"} # {} THEN "COMPLEX"
  ELSE "ROUTINE"

Complexity(in) ==
  IF Override(in) THEN IF in.model = "deepseek" THEN "COMPLEX" ELSE "ROUTINE"
  ELSE IF IsStatusQuery(in) THEN "TRIVIAL"
  ELSE PromptComplexity(in.prompt)

UsesDeepSeek(complexity) == complexity \in {"COMPLEX", "TOOL_HEAVY"}

\* The name classification announces; a status query sets none.
ClassifiedModel(in, old) ==
  IF Override(in) THEN ENDPOINTS[in.model]
  ELSE IF IsStatusQuery(in) THEN old
  ELSE IF UsesDeepSeek(Complexity(in)) THEN "deepseek-v3.2"
  ELSE "qwen2.5-coder-7b"

Classified(s, in) ==
  [s EXCEPT !.complexity = Complexity(in),
            !.is_status_query = IsStatusQuery(in),
            !.model_name = ClassifiedModel(in, s.model_name)]

\* The endpoint call_model picks.
Endpoint(s) ==
  IF UsesDeepSeek(s.complexity) THEN ENDPOINTS["deepseek"] ELSE ENDPOINTS["qwen"]

\* (variant) routine tasks are remembered like complex ones
SkipsMemoryTrivialOnly(s) == s.complexity = "TRIVIAL"

SkipsMemory(s) == s.complexity \in {"TRIVIAL", "ROUTINE"}

ShouldStore(s) == ~SkipsMemory(s) /\ s.response # "no_text" /\ ~s.error

should_verify(s) ==
  /\ s.complexity \notin {"TRIVIAL", "ROUTINE"}
  /\ ~s.error
  /\ s.response # "no_text"

\* (variant) a failed attempt is not counted
handle_failureUncounted(s, failure) ==
  [s EXCEPT !.metacog_passed = FALSE, !.metacog_verdict = failure]

\* The state after a failed gate: another try, or a pass with a warning.
handle_failure(s, failure) ==
  IF s.retry_count >= MAX_RETRIES
  THEN [s EXCEPT !.metacog_passed = TRUE,
                 !.metacog_verdict = "passed_after_max_retries"]
  ELSE [s EXCEPT !.metacog_passed = FALSE,
                 !.metacog_verdict = failure,
                 !.retry_count = @ + 1]

run_gates(s) ==
  IF s.response \in GateFailures
  THEN handle_failure(s, s.response)
  ELSE [s EXCEPT !.metacog_passed = TRUE, !.metacog_verdict = "passed_all_gates"]

metacog_verify(s) ==
  IF should_verify(s) THEN run_gates(s)
  ELSE [s EXCEPT !.metacog_passed = TRUE, !.metacog_verdict = "skipped"]

\* (variant) only the first attempt is verified
should_run_metacogOnce(s) ==
  IF should_verify(s) /\ s.retry_count = 0 THEN "metacog" ELSE "finalize"

\* (variant) a failed call is tried again
should_run_metacogRetrying(s) ==
  IF s.error THEN "call_model" ELSE IF should_verify(s) THEN "metacog" ELSE "finalize"

should_run_metacog(s) == IF should_verify(s) THEN "metacog" ELSE "finalize"

\* (variant) the number of retries is left to handle_failure alone
route_after_metacogUnbounded(s) ==
  IF ~s.metacog_passed THEN "call_model" ELSE "finalize"

\* (variant) a retry starts over from the memories
route_after_metacogRefreshing(s) ==
  IF ~s.metacog_passed /\ s.retry_count < RETRY_LIMIT THEN "retrieve_memory" ELSE "finalize"

route_after_metacog(s) ==
  IF ~s.metacog_passed /\ s.retry_count < RETRY_LIMIT THEN "call_model" ELSE "finalize"

\* (variant) the usage of the first call is kept
AnsweredOldUsage(s, a, n) ==
  [s EXCEPT !.response = a, !.usage = IF @ = 0 THEN n ELSE @,
            !.model_name = Endpoint(s)]

\* The state after the n-th call was answered, and after a call failed by a
\* timeout, an HTTP error or any other exception: model_name and usage then
\* keep what an earlier call left there.
Answered(s, a, n) ==
  [s EXCEPT !.response = a, !.usage = n, !.model_name = Endpoint(s)]

Failed(s) == [s EXCEPT !.response = "no_text", !.error = TRUE]

\* (variant) the reply of a failed run is forgotten
FinalReplySilent(s) ==
  IF s.response # "no_text" THEN "answer" ELSE IF s.error THEN "none" ELSE "empty"

\* (variant) the response is sent as it is
FinalReplyRaw(s) == IF s.error THEN "apology" ELSE s.response

\* What chat_completions sends for a finished run.
FinalReply(s) ==
  IF s.response # "no_text" THEN "answer" ELSE IF s.error THEN "apology" ELSE "empty"
-----------------------------------------------------------------------------
(* The endpoint and the nodes. *)

At(r, node) == pc[r] = node
Goto(r, node) == pc' = [pc EXCEPT ![r] = node]

\* POST /v1/chat/completions: without a user message the request is refused.
chat_completions(r) ==
  /\ At(r, "idle")
  /\ \E in \in Inputs :
       /\ input' = [input EXCEPT ![r] = in]
       /\ IF "empty" \in in.prompt
          THEN Goto(r, "done") /\ reply' = [reply EXCEPT ![r] = "refused"]
          ELSE Goto(r, "parse") /\ UNCHANGED reply
  /\ UNCHANGED <<gs, memory, posted, calls>>

\* retry_count is absent from the initial state, so it is set to its default.
parse_request(r) ==
  /\ At(r, "parse")
  /\ gs' = [gs EXCEPT ![r].retry_count = 0]
  /\ Goto(r, should_use_memory(input[r]))
  /\ UNCHANGED <<input, reply, memory, posted, calls>>

\* First await: Mem0's health check, false when Mem0 cannot be reached.
retrieve_memory(r) ==
  /\ At(r, "retrieve_memory")
  /\ \E healthy \in BOOLEAN :
       Goto(r, IF healthy /\ ~SkipsMemory(gs[r]) THEN "search_memory" ELSE "classify")
  /\ gs' = [gs EXCEPT ![r].memory_context = {}]
  /\ UNCHANGED <<input, reply, memory, posted, calls>>

\* What Mem0 may find, for every request searches as the same user, "default";
\* any failure is an empty result.
SearchResults == {found \in SUBSET memory : Cardinality(found) <= SEARCH_LIMIT}

\* Second await: the search.
search_memory(r) ==
  /\ At(r, "search_memory")
  /\ \E found \in SearchResults : gs' = [gs EXCEPT ![r].memory_context = found]
  /\ Goto(r, "classify")
  /\ UNCHANGED <<input, reply, memory, posted, calls>>

classify_complexity(r) ==
  /\ At(r, "classify")
  /\ gs' = [gs EXCEPT ![r] = Classified(@, input[r])]
  /\ Goto(r, IF IsStatusQuery(input[r]) THEN "handle_status" ELSE "retrieve_knowledge")
  /\ UNCHANGED <<input, reply, memory, posted, calls>>

\* Answered from the status tool.  A stream sends the text and keeps its state
\* as it was, so store_memory sees no response.
handle_status(r) ==
  /\ At(r, "handle_status")
  /\ IF input[r].stream
     THEN reply' = [reply EXCEPT ![r] = "sse"] /\ UNCHANGED gs
     ELSE /\ gs' = [gs EXCEPT ![r].response = "status",
                              ![r].model_name = "sovereign-introspection"]
          /\ UNCHANGED reply
  /\ Goto(r, "store_memory")
  /\ UNCHANGED <<input, memory, posted, calls>>

\* Code context is fetched for TOOL_HEAVY tasks, which classification never
\* produces: for every other complexity the node returns no context.
retrieve_knowledge(r) ==
  /\ At(r, "retrieve_knowledge")
  /\ Goto(r, "call_model")
  /\ UNCHANGED <<input, gs, reply, memory, posted, calls>>

\* The model answers, perhaps with nothing, or the call fails.
call_model(r) ==
  /\ At(r, "call_model")
  /\ ~input[r].stream
  /\ calls' = [calls EXCEPT ![r] = @ + 1]
  /\ \/ \E a \in Answers \cup {"no_text"} :
          gs' = [gs EXCEPT ![r] = Answered(@, a, calls[r] + 1)]
     \/ gs' = [gs EXCEPT ![r] = Failed(@)]
  /\ Goto(r, "store_memory")
  /\ UNCHANGED <<input, reply, memory, posted>>

\* The streaming twin collects the model's lines, then sends them all; an
\* exception breaks the stream before the first line.
stream_model_response(r) ==
  /\ At(r, "call_model")
  /\ input[r].stream
  /\ calls' = [calls EXCEPT ![r] = @ + 1]
  /\ \/ reply' = [reply EXCEPT ![r] = "sse"] /\ Goto(r, "store_memory")
     \/ reply' = [reply EXCEPT ![r] = "sse_broken"] /\ Goto(r, "done")
  /\ UNCHANGED <<input, gs, memory, posted>>

Item(r) == [req |-> r, attempt |-> calls[r], answer |-> gs[r].response]

\* The interaction is sent to Mem0 and any failure is swallowed, a timeout included;
\* the edge after the node is should_run_metacog, and a stream ends here.
store_memory(r) ==
  /\ At(r, "store_memory")
  /\ posted' = IF ShouldStore(gs[r]) THEN posted \cup {Item(r)} ELSE posted
  /\ Goto(r, IF input[r].stream THEN "done" ELSE should_run_metacog(gs[r]))
  /\ UNCHANGED <<input, gs, reply, memory, calls>>

\* The server of Mem0 stores what it was sent: at once, after its client's 30 s are
\* over and the run is elsewhere or at its end, or, if it fails, never.
add_memory(m) ==
  /\ m \in posted
  /\ memory' = memory \cup {m}
  /\ posted' = posted \ {m}
  /\ UNCHANGED <<pc, input, gs, reply, calls>>

metacog(r) ==
  /\ At(r, "metacog")
  /\ gs' = [gs EXCEPT ![r] = metacog_verify(@)]
  /\ Goto(r, route_after_metacog(metacog_verify(gs[r])))
  /\ UNCHANGED <<input, reply, memory, posted, calls>>

\* finalize_response, and the reply chat_completions builds from the result.
finalize_response(r) ==
  /\ At(r, "finalize")
  /\ reply' = [reply EXCEPT ![r] = FinalReply(gs[r])]
  /\ Goto(r, "done")
  /\ UNCHANGED <<input, gs, memory, posted, calls>>

\* The client of a stream goes away: the generator is cancelled where it is.
client_disconnect(r) ==
  /\ ~At(r, "idle") /\ ~At(r, "done")
  /\ input[r].stream
  /\ reply[r] = "none"
  /\ reply' = [reply EXCEPT ![r] = "sse_closed"]
  /\ Goto(r, "done")
  /\ UNCHANGED <<input, gs, memory, posted, calls>>

\* A step of the workflow on behalf of r.
Step(r) ==
  \/ parse_request(r)
  \/ retrieve_memory(r)
  \/ search_memory(r)
  \/ classify_complexity(r)
  \/ handle_status(r)
  \/ retrieve_knowledge(r)
  \/ call_model(r)
  \/ stream_model_response(r)
  \/ store_memory(r)
  \/ metacog(r)
  \/ finalize_response(r)

Next ==
  \/ \E r \in Requests : chat_completions(r) \/ Step(r) \/ client_disconnect(r)
  \/ \E m \in posted : add_memory(m)

\* Every node of a run is eventually executed: the event loop schedules each
\* task, and every call to a service ends by an answer or by the timeout that
\* its client sets.  Nothing obliges a client to send or to hang up, nor Mem0 to
\* store what it was sent.
Fairness == \A r \in Requests : WF_vars(Step(r))

Spec == Init /\ [][Next]_vars /\ Fairness
-----------------------------------------------------------------------------
(* What must hold. *)

TypeOK ==
  /\ pc \in [Requests -> Nodes]
  /\ input \in [Requests -> ChatRequests]
  /\ gs \in [Requests -> GraphState]
  /\ reply \in [Requests -> Replies]
  /\ memory \subseteq Items /\ posted \subseteq Items
  /\ calls \in [Requests -> Nat]

\* A request costs at most RETRY_LIMIT model calls however its answers are
\* judged, and only a task that is verified (complex, not streamed) costs more
\* than one: nodes/metacognition.py counts the retries, graph.py compares them.
RetryBound ==
  \A r \in Requests :
    /\ calls[r] <= RETRY_LIMIT
    /\ calls[r] > 1 => gs[r].complexity = "COMPLEX" /\ ~input[r].stream

Sent == memory \cup posted

\* What Mem0 holds or may yet store was answered by a call that was really made for
\* a complex task of a non-streaming client, one memory per call, and the memory of
\* the call whose answer the state holds is that answer.
MemoryProvenance ==
  \A m \in Sent :
    /\ m.attempt \in 1..calls[m.req]
    /\ gs[m.req].complexity = "COMPLEX" /\ ~input[m.req].stream
    /\ \A n \in Sent : n.req = m.req /\ n.attempt = m.attempt => n = m
    /\ m.attempt = calls[m.req] => gs[m.req].response = m.answer

\* Memories put into a prompt come from other requests, never from an earlier
\* attempt of the same one, and a failing search leaves none behind.
ContextFromOthers ==
  \A r \in Requests :
    /\ gs[r].memory_context \subseteq {m \in memory : m.req # r}
    /\ Cardinality(gs[r].memory_context) <= SEARCH_LIMIT

\* The verdict of a finished run is about the answer that is delivered: all
\* gates passed and the answer passes them, or it fails the gate the verdict
\* names and the retries are spent.  Unverified tasks have no verdict.
DeliveredAnswerIsJudged ==
  \A r \in Requests : reply[r] = "answer" =>
    IF gs[r].complexity = "COMPLEX"
    THEN \/ gs[r].metacog_verdict = "passed_all_gates" /\ gs[r].response = "good"
         \/ /\ gs[r].metacog_verdict = gs[r].response
            /\ gs[r].response \in GateFailures
            /\ calls[r] = RETRY_LIMIT
         \/ /\ gs[r].metacog_verdict = "passed_after_max_retries"
            /\ gs[r].response \in GateFailures
            /\ calls[r] = MAX_RETRIES + 1
    ELSE gs[r].metacog_verdict = "unset" /\ calls[r] <= 1

\* A delivered answer is reported with the model that gave it and the usage of
\* that very call, not of an earlier attempt; a status answer cost no call.
AnswerAttributed ==
  \A r \in Requests : reply[r] = "answer" =>
    IF gs[r].is_status_query
    THEN calls[r] = 0 /\ gs[r].model_name = "sovereign-introspection"
    ELSE /\ gs[r].usage = calls[r] /\ calls[r] > 0
         /\ gs[r].model_name = Endpoint(gs[r])

\* Once a model call has failed, the run neither calls a model again nor sends Mem0
\* anything more, whatever of an earlier attempt Mem0 may still store; and the error
\* key is never cleared.
FailureEndsTheRun ==
  [][\A r \in Requests : gs[r].error =>
       /\ calls'[r] = calls[r]
       /\ {m \in Sent' : m.req = r} = {m \in Sent : m.req = r}
       /\ gs'[r].error]_vars

\* Every request the endpoint takes gets a reply, or a broken stream, in the
\* end: no path through the graph leaves a client waiting.
EveryRequestAnswered ==
  \A r \in Requests : ~At(r, "idle") ~> reply[r] # "none"

\* The workflow keeps the endpoint's promise.
Phase(r) ==
  IF At(r, "idle") THEN "new" ELSE IF At(r, "done") THEN "answered" ELSE "accepted"

Service == INSTANCE ChatService
             WITH phase <- [r \in Requests |-> Phase(r)],
                  calls <- calls,
                  sent <- {<<m.req, m.attempt>> : m \in Sent},
                  remembered <- {<<m.req, m.attempt>> : m \in memory},
                  CallLimit <- RETRY_LIMIT

\* Every step of the graph is a step of ChatService or none of its business.
ImplementsChatService == Service!SafeSpec
-----------------------------------------------------------------------------
(* Why it holds: the inductive invariant of CognitiveGraphProofs. *)

Unclassified == {"idle", "parse", "retrieve_memory", "search_memory", "classify"}
BeforeCall == Unclassified \cup {"handle_status", "retrieve_knowledge"}

\* How far classification has come, and which state a stream never has.
ClassifyInv(r) ==
  /\ gs[r].complexity # "TOOL_HEAVY"
  /\ At(r, "idle") => reply[r] = "none"
  /\ pc[r] \in Unclassified => gs[r].complexity = "unset" /\ ~gs[r].is_status_query
  /\ pc[r] \notin Unclassified \cup {"done"} => gs[r].complexity # "unset"
  /\ gs[r].is_status_query => gs[r].complexity = "TRIVIAL"
  /\ At(r, "handle_status") => gs[r].is_status_query
  /\ pc[r] \in {"retrieve_knowledge", "call_model", "metacog"} => ~gs[r].is_status_query
  /\ gs[r].response = "status" => gs[r].is_status_query
  /\ input[r].stream => /\ gs[r].response = "no_text" /\ ~gs[r].error
                        /\ gs[r].retry_count = 0
                        /\ pc[r] \notin {"metacog", "finalize"}
                        /\ reply[r] # "answer"

\* How the calls made relate to the retries counted, node by node.
CountInv(r) ==
  /\ calls[r] <= RETRY_LIMIT
  /\ gs[r].retry_count <= MAX_RETRIES
  /\ pc[r] \in BeforeCall => calls[r] = 0 /\ gs[r].retry_count = 0
  /\ At(r, "call_model") => calls[r] = gs[r].retry_count /\ calls[r] < RETRY_LIMIT
  /\ At(r, "store_memory") =>
       calls[r] = IF gs[r].is_status_query THEN 0 ELSE gs[r].retry_count + 1
  /\ At(r, "metacog") => calls[r] = gs[r].retry_count + 1
  /\ gs[r].complexity # "COMPLEX" =>
       gs[r].retry_count = 0 /\ gs[r].metacog_verdict = "unset" /\ calls[r] <= 1
  /\ input[r].stream => calls[r] <= 1

\* What the latest call left in the state, and what its verdict is worth once
\* the run is about to be finalized.
AnswerInv(r) ==
  /\ gs[r].error => gs[r].response = "no_text" /\ pc[r] \in {"store_memory", "finalize", "done"}
  /\ pc[r] \in BeforeCall => gs[r].response = "no_text"
  /\ At(r, "metacog") => should_verify(gs[r])
  /\ reply[r] = "answer" => At(r, "done") /\ gs[r].response # "no_text"
  /\ /\ pc[r] \in {"store_memory", "metacog", "finalize"} \/ reply[r] = "answer"
     /\ gs[r].response # "no_text"
     =>
         IF gs[r].is_status_query
         THEN calls[r] = 0 /\ gs[r].model_name = "sovereign-introspection"
         ELSE /\ gs[r].usage = calls[r] /\ calls[r] > 0
              /\ gs[r].model_name = Endpoint(gs[r])
  /\ /\ At(r, "finalize") \/ reply[r] = "answer"
     /\ gs[r].complexity = "COMPLEX" /\ gs[r].response # "no_text"
     =>
         \/ gs[r].metacog_verdict = "passed_all_gates" /\ gs[r].response = "good"
         \/ /\ gs[r].metacog_verdict = gs[r].response
            /\ gs[r].response \in GateFailures
            /\ calls[r] = RETRY_LIMIT
         \/ /\ gs[r].metacog_verdict = "passed_after_max_retries"
            /\ gs[r].response \in GateFailures
            /\ calls[r] = MAX_RETRIES + 1

\* Nothing of the latest call is sent before store_memory has run, and nothing that is
\* stored is still to be stored.
StoreInv ==
  /\ \A m \in Sent : At(m.req, "store_memory") => m.attempt < calls[m.req]
  /\ memory \cap posted = {}

RunInv == \A r \in Requests : ClassifyInv(r) /\ CountInv(r) /\ AnswerInv(r)

IInv == TypeOK /\ RunInv /\ MemoryProvenance /\ StoreInv /\ ContextFromOthers
-----------------------------------------------------------------------------
(* What the repository's documents say and the code does not do. *)

\* _handle_failure gives a failing answer up only once MAX_RETRIES retries are
\* spent ("Max retries reached, passing through").
GivesUpAfterMaxRetries ==
  \A r \in Requests :
    At(r, "done") /\ gs[r].metacog_verdict \in GateFailures /\ ~gs[r].error
      /\ gs[r].response # "no_text"
    => calls[r] = MAX_RETRIES + 1

\* retrieve_memory "only runs for COMPLEX and TOOL_HEAVY tasks".
MemoryOnlyForComplex ==
  \A r \in Requests :
    SkipsMemory(gs[r]) => gs[r].memory_context = {}
=============================================================================
