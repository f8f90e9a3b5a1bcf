# TLA+ models of Protocol OMNI

Protocol OMNI is a set of Python services around local language models: an
agent that answers chat requests through a LangGraph workflow, a memory it
shares among requests, a gateway that guards tools, a verification service, a
prompt evolution service, and an index of the code in a graph database. This
directory holds TLA+ models of them, the TLC configurations that check the
models on small instances, and TLAPS proofs.

## The system

| Part | State | Operations | Hard part |
|---|---|---|---|
| Cognitive workflow, `agent/graph.py`, `agent/nodes/*` | one `GraphState` per request | parse, retrieve memory, classify, status, knowledge, call model, store memory, verify, finalize; a streaming twin | every node awaits, so requests interleave; every service call may fail; a verified answer may be retried |
| Mem0, `memory/mem0_client.py` | the stored interactions, all of user `default` | health, search, store | shared by all requests; failures are swallowed, and a store that timed out at the client may still happen at the server (`docker/server_mem0.py`) |
| Agent HTTP service, `agent/main.py` | thread pool of the event loop | `/v1/chat/completions`, `/health/full`, `/v1/status`, `/health`, `/v1/models` | the health check asks the agent itself, from a thread of the pool the answer needs |
| MCP gateway, `mcp_proxy/*` | allowlist, rate limiter, audit log | `/invoke`, start | sliding window by a clock that may be set, default deny, limiter lost on restart |
| Metacognition engine, `metacognition/engine.py` | one HTTP client for all requests | `/verify`: four gates in order | overlapping requests replace and close the shared client; a failed call is read as `{}` |
| GEPA engine, `gepa/evolution.py` | trajectory buffer, Pareto frontier, state file | `/record-trajectory`, `/evolve`, start, stop | long overlapping cycles; ids by the second; a state file rewritten in place |
| Pareto utility, `gepa/pareto.py` | the solutions of a frontier | `add`, `get_best`, `get_compromise` | pruning by crowding distance; what is kept depends on the order of additions |
| Legacy router, `agent/router_legacy.py` | cached health of the endpoints | `process`, `process_stream`, `refresh_health` | a cached status may be stale; checks overlap and overtake each other; endpoints change in between |
| Code indexer, `scripts/index_code.py`, and its reader, `knowledge/memgraph_client.py` | code graph in Memgraph | index a directory or a file; `find_symbol`, `get_code_context`, `get_dependencies`, `get_file_symbols` | one statement at a time without a transaction, and no result is read; runs that die half-way or overlap; files that come, change and go while nothing is ever deleted |
| `metacognition/gates.py` | - | local gate classes nothing calls | - |
| `dashboard/app.py`, `docker/`, `scripts/`, `tools/`, `docs/`, `skills/` | - | display, deployment, tuning, texts | - |

The agent calls Mem0 and the model servers over HTTP. `/health/full` calls the
agent's own chat endpoint. The gateway, the metacognition engine and the GEPA
engine are separate services; the live workflow verifies answers with the local
heuristics of `agent/nodes/metacognition.py`, not with the engine. The legacy
router is the predecessor of the workflow: it asks the engine for a verdict and
sends trajectories to GEPA. The indexer is run by hand, and fills the graph that
the Memgraph client reads.

What makes each part correct:

- workflow: bounded retries; memories and contexts that stem from where they
  should; a delivered answer with its own verdict, model and usage; nothing new
  after a failure; an answer for every request;
- gateway: no window over its limit, no rejection without a full window, a
  complete audit log;
- engine: a verdict that depends on the answer alone while nothing interferes,
  and fails closed when something does;
- health check: no false alarm on a pool that is large enough, no hidden fault, an
  answer for every check and every chat;
- GEPA: an undominated, bounded frontier that survives restarts;
- Pareto utility: an undominated, bounded frontier, and nothing given up that
  need not be;
- legacy router: requests go to an endpoint that is up, with a bounded delay,
  and nobody is put off while one is;
- code graph: every symbol has its file, a completed run can be relied on, and a
  retry makes good for a run that died.

## Modules

| Module | Models | Notes |
|---|---|---|
| `ChatService` | what the chat endpoint promises | abstract specification |
| `CognitiveGraph` | the workflow and Mem0 | refines `ChatService` |
| `McpGateway` | allowlist, limiter, log, clock, restart | |
| `MetacogEngine` | `/verify` and the shared client | |
| `HealthCheck` | `/health/full` and the thread pool | |
| `Gepa` | trajectories, cycles, frontier, state file | |
| `Lists` | lists made of the elements of a list, in an order of their places | shared by `Gepa` and `ParetoFrontier` |
| `ParetoOffers` | solutions and dominance | shared by the next two |
| `ParetoSet` | what a Pareto frontier promises | abstract specification |
| `ParetoFrontier` | the list of `gepa/pareto.py` | refines `ParetoSet` |
| `LegacyRouter` | router, its health cache, the endpoints | |
| `CodeGraph` | files, indexer runs, the graph, its queries | |
| `*Proofs` | | theorems about the module they are named after |
| `MC*` | | model values and input sets for TLC |

An operator marked `(variant)` is a plausible mistake in the definition that
follows it; no specification uses it, and a property is worth keeping only if
one of these mistakes violates it.

### CognitiveGraph

One action per node; a node that awaits twice (`retrieve_memory`) is two. `pc`
is the node a request is about to run, `gs` its `GraphState`, `reply` what its
client has got, `memory` what Mem0 holds, `calls` a history of model calls.
`posted` is what Mem0 was sent and has not stored. The client gives up on a store
after 30 s (`mem0_client.py:70`) and swallows the timeout, while the server goes
on; so `store_memory` only sends, and `add_memory` stores at once, at any time
later, when the run may have failed or ended, or never. `ChatService` has the same
two steps: what a request sends is bounded by its progress, when it is remembered
is not. `FailureEndsTheRun` is about what a run does, calls and sends. The
edges are the functions of `graph.py` (`should_use_memory`,
`should_run_metacog`, `route_after_metacog`), applied by the action of the node
they leave. Data are abstracted to what the code tests: a prompt is the set of
substring and length tests it passes, an answer the first gate it fails. The
memories found by a search are any subset of what is stored, at most
`SEARCH_LIMIT`, for all requests share one user. A streamed request follows
`stream_graph`, which repeats the workflow without verification; its client may
hang up anywhere.

### McpGateway

`invoke_tool` never awaits anything that suspends (forwarding is a placeholder),
so a request is one step: allowlist, limiter, audit. The limiter's list of
times is a set of the requests themselves, so that equal times count twice. The
configuration is chosen at each start; restarts lose the limiter and keep the
log. `now` is the time that really passes, `clock` what `time.time()` says: both
tick together, and somebody may set the clock to any value of `Settings`.
`WindowBound` is stated in real time. Setting the clock back only makes the
limiter stricter; setting it forward makes it forget, so the bound counts from
the last such change (`trusted`).

### MetacogEngine

One action per await: entering (`__aenter__` and the first call), a gate's
reply, Letta's evidence. `conn` is the client a call was sent on; a call sent on
a closed client fails, one in flight may. The reply `{}` of a failed call is
`silent`, and `FailsOn` says which gates object to it.

### HealthCheck

A queue and a set of busy threads, and how far the chat of each client and of
each routing test is (`chat`). The four jobs of a check go through the pool, and so
does every stretch of a chat that does not run on the event loop: the model call
(`asyncio.to_thread`, DeepSeek's as well as Qwen's) and the nodes that are plain
functions, which LangGraph hands to the pool: `parse_request` before Mem0 is asked,
classification, which stands with the model call as `"call"`, and
`finalize_response`. A chat holds one thread at a time and may wait for one at
each of these. Mem0's health check and search (`"recall"`) take no thread and
take their time. A client is anybody who sends one request after the other; a
status query, whose tool runs in the pool as well, is a client with a short call,
and the second call for a rejected answer is one more turn.

A routing test ends by the reply to its own chat or by its timeout (`TimesOut`):
30 s pass while Mem0 or Qwen take their time, or while the chat waits for a
thread and none will be free soon (`Crowded`): each is held by a routing test
that waits, by a model call of some client, which may be one of DeepSeek and take
300 s (`state.py:81`), or by a check of a component that does not answer at once.
A backend is `healthy` (at once), `slow` (a good answer in its own time) or worse,
and stays so during a run. That a queue of jobs that each end at once is done in
30 s is taken for granted. The size of the pool depends on the host and is chosen
at the start. Left out are what a client's chat does between its call and
`finalize` (verification and store, which hold no thread) and the lookup of host
names by the asynchronous clients, which takes a thread for a moment.

### Gepa

A cycle samples the buffer, proposes variants for one model after the other, and
merges their scores into the frontier, which also saves; each is one stretch of
code between awaits. An answer of the oracle holds any number of variants up to
`MAX_VARIANTS`, none if the call failed. Their ids are the model, the second of
the answer and the place in it, so cycles answered in the same second give equal
ids. The frontier is `Listed` from the places of what is not dominated, in the
order of the list or, when it is cut, of the total scores (`BestFirst`). A failed
benchmark yields `accuracy` alone. The process may stop in order, die, or die
while it writes. `EvictionJustified` is about merges; what stops and starts do to
the frontier is the subject of `BestSurvives`.

### ParetoFrontier

A solution is the values of the objectives it states. `add` turns a solution
down if one on the list dominates it, else removes what it dominates, appends it,
and prunes the list by crowding distance. A sorted list is a set of pairs of
places, which come before which: `ByValue` for an objective, `Farther` for the
distances; so a stable sort is an order that compares the places last, and a
neighbour is the least place behind. Distances are exact: the code divides
by each objective's range, the model multiplies by the other ranges instead, so
rounding is left out. As in the code, only the objectives of the first solution
count for the distances. `ParetoSet` leaves open what is given up.

### LegacyRouter

One action per HTTP exchange. `route` asks for the health of the primary, then of
the fallback, unless the cache answers (`Fresh`); a check finds what is the case,
or either if the endpoint changed since the check was sent, and its answer may
come after that of a later check (`_is_healthy`, `refresh_answered`). An
endpoint is up, `sick` (it answers with an error) or `down` (it raises). The
three ways to call a model differ in what they take for a failure (`Raises`): a
call that is not streamed looks at no status. `CHECK_TIMEOUT` stands for all the
time a check takes, from sending to its use. `health_cache_ttl` is positive, as
the default of 30 s. Two simplifications: an endpoint that is up answers every
call, and `time.time()`, by which entries of the cache age, is never set.

### CodeGraph

A run parses all files under its target (`start`), then executes one statement
per step: nodes are merged, attributes overwritten, and relationships made only
if their owner is there (`Links`). Statements keep the order of the sections in
`index_to_memgraph`; within a section and among files the order is left open.
Runs overlap and are repeated; they die between any two statements, or end by the
error of a statement, which the next `session.run` raises (`fail`). No result is
read, so the error of the last statement is swallowed when the session closes, and
the run is done without it (`last_fails`; `lost` keeps the statement). With
`--output`, or without the driver, a run leaves the graph alone and ends
(`print_cypher`).

Files are the places where a file may be. Its text says whether there is a file
that parses (`valid`): files are written, changed, deleted, and moved by both, at
any time (`edit`), while their nodes stay in the graph. So a row of a search may
name a file that is gone, and what is promised is that some run has read it. A
name is a sequence of path components (`Prefix`), because it depends on the
target; the target `.`, which names modules without the directory, is left out
(`index_code.py:447`). A text has its imports, classes, methods and functions;
nested classes, which the parser loses, are not part of it. `edition` stands for
the attributes a symbol is given (lines, signature, docstring).

## Runs

| Run | Instance | Checks |
|---|---|---|
| `graph_concurrent` | 3 requests, one input per path, 2 kinds of answer | `TypeOK`, `IInv`, `RetryBound`, `MemoryProvenance`, `ContextFromOthers` |
| `graph_service` | 2 requests of nine kinds, liveness | `DeliveredAnswerIsJudged`, `AnswerAttributed`, `ImplementsChatService`, `FailureEndsTheRun`, `EveryRequestAnswered` |
| `gateway` | 3 requests, 3 ticks, the clock set once, 1 restart, configurations of both policies | `TypeOK`, `IInv`, `WindowBound`, `RejectionJustified`, `AuditTrail` |
| `metacog` | 3 requests, 5 jobs, with and without outage | `TypeOK`, `SequentialIsExact`, `OutageFailsClosed`, `InterferenceIsConfined` |
| `health` | 2 checks, 1 client, 2 or 4 threads, all well, Qwen slow or a service degraded, liveness | `TypeOK`, `HealthyIsReported`, `SicknessIsReported`, `EveryCheckAnswers`, `EveryChatAnswers` |
| `gepa_frontier` | 2 cycles, 3 models, up to 1 variant each, 2 seconds, frontier of 2, 3 trajectories, 1 restart | `TypeOK`, `FrontierIsAntichain`, `BestSurvives`, `EvictionJustified` |
| `legacy_router` | 2 requests, 1 refresh, time to live 1, checks of up to 1, 2 changes, time up to 3 | `IInv` (`TypeOK` is part of it), `RoutedToLiving`, `AnsweredByLiving` |
| `code_graph` | 2 runs, 2 files of one name, 3 targets, 3 texts (no file among them), 1 edit of each file | `TypeOK`, `Anchored`, `IndexedIsPresent`, `AloneIsCurrent`, `OwnSymbols` |
| `pareto` | 2 objectives, 9 complete solutions and a partial one, sizes 1, 2 and 4, any number of additions | `TypeOK`, `BestIsKept`, `CompromiseIsBest`, `ImplementsParetoSet` |

The bounds. Two requests suffice for any interference through the memory, the
client or the cache; a third lets one of them interfere after the other has
ended. Two calls fill the retry limit and one more would exceed it. Three
requests overfill a limit of two in a window of two, and a clock set once, back
or forward, lies between any two of them. Two cycles are enough for a merge on a
frontier that has moved; three variants of one merge, five with the old frontier,
are cut to two (that an answer holds several is in the proofs), and a
sample of one by the third trajectory; two seconds give equal and different ids.
One routing delay (the time to live and two checks) fits into the time of
`legacy_router`: an endpoint can fail and be found to have failed, or recover
before that. Longer histories are left to the proofs, which bound no time.
Four threads are one more than two checks and a client, the least with which
`HealthyIsReported` holds (with three a false alarm is found), and two are few
enough for the routing tests to hold them all. Two runs, one of them dying, interleave statement
by statement, and a run can follow one that died; two files of one name in two
directories are the smallest case of names that clash. `pareto` needs no bound on
its steps: its states are finite. `legacy_router` has only sick endpoints; that
a dead one is treated the same, but for the calls, is in the proofs, which take
any `Faults`.

Deadlock is checked where the system never stops (`pareto`); each of the others
ends once its finite supply of requests is served.

Fairness: `CognitiveGraph` assumes that each request's next node is eventually
run (the event loop is fair, and every HTTP client of the nodes has a timeout,
so each await ends); nobody is obliged to send a request or to hang up.
`HealthCheck` assumes that threads take jobs, that component checks (10 s), model
calls (60 s for Qwen, 300 s for DeepSeek, `state.py:81`, `:87`) and the calls to
Mem0 (30 s) end by an answer or their timeout, and that a routing test that runs
sends its request; no check and no client is obliged to ask. Nothing obliges Mem0
to store what it was sent.
The other modules state no fairness and no liveness.

## Where documents and code disagree

Each run below checks one statement of the repository and finds it violated.

| Run | Statement | What the code does |
|---|---|---|
| `graph_gives_up` | `MAX_RETRIES = 2` (`agent/nodes/metacognition.py:47`) | one retry: `route_after_metacog` stops at `retry_count = 2`, set by the second failure |
| `graph_memory_scope` | memory "only runs for COMPLEX and TOOL_HEAVY tasks" (`agent/nodes/memory.py:43`) | it runs before classification, for all but greetings |
| `metacog_client` | `async with engine` (`metacognition/engine.py:352`) | one request closes another's client |

More disagreements show in the models and have no run of their own.

- Streamed answers are never stored (`graph.py:314`, against
  `docs/architecture/phase4-sovereign-cognition.md:96`).
- The keywords of sovereign cognition should lead to COMPLEX
  (`classification.py:24`); a trivial word in a short prompt wins
  (`classification.py:128`).
- A store whose client gave up after 30 s is logged as failed
  (`mem0_client.py:173`) and may be stored all the same
  (`docker/server_mem0.py:64`), also for a run that has failed since.
- A run of the indexer whose last statement failed logs "Indexing complete"
  (`index_code.py:486`), for no result is read (`:336`), and one without the driver
  prints its statements and ends in order (`:488`). `IndexedIsPresent` and
  `AloneIsCurrent` except the last statement.
- "All MCP tool invocations" are logged (`docs/security/overview.md:230`); a tool
  with `audit: false` (`:94`) is not, and neither is one that only the default policy lets through
  (`gateway.py:196`). `AuditTrail` states what is.
- The routing test should verify that Qwen handles the prompt (`main.py:190`); it
  passes when Qwen failed, for the apology carries the name classification chose
  (`main.py:206`).
- The gateway's limit is per tool and method (`gateway.py:172`, against
  `docs/security/overview.md:142`).
- The frontier should hold non-dominated variants (`evolution.py:398`); variants
  with equal ids are not compared (`evolution.py:405`), and
  `FrontierIsAntichain` has to except them.
- A model whose variants are all dominated gets no prompt (`evolution.py:409`).
- The trajectory buffer that `_load_state` is said to load is never saved
  (`evolution.py:186`).
- The state file is truncated before it is written, so a death in between keeps
  the service from starting (`evolution.py:207`).
- `add` returns True for a solution that its own pruning has thrown out
  (`pareto.py:92`, against `:77`).
- `get_file_symbols` gives "all symbols defined in a file"
  (`memgraph_client.py:242`), those that the file has lost included: the indexer
  deletes nothing, not even files that are gone. `OwnSymbols` speaks of all that a
  file ever had.
- `CALLS` and `INHERITS` of the schema (`memgraph-schema.cypher:65`, `:71`) are
  written by nobody, so `find_references` and `get_class_hierarchy` find nothing.
- `generate_cypher` writes an alias that is missing as `None`
  (`index_code.py:261`), which is no Cypher value.
- In the legacy router the reply names the primary after the fallback has
  answered (`router_legacy.py:322`); an error status of a call that is not
  streamed gets no fallback (`:416`); an apology is recorded as a success when
  there is no verification (`:644`), and so is whatever a stream yields (`:725`);
  `refresh_health` leaves fresh entries alone (`:271`).

Four properties are weaker than one might hope for the same reason, that the
code does no better. `BestIsKept` needs room for both ends of every objective: a
smaller frontier can prune the best. `AloneIsCurrent` needs a run without
overlap: an older run that ends later leaves its older signatures. `BestSurvives`
and `EvictionJustified` need equal objectives: a failed benchmark evicts by its
`accuracy` alone, and dominance by what two variants have in common is not
transitive.

## Proofs

All assumptions are about the constants, named in the modules, and evaluated by
TLC in each run: what sets the inputs are from, positive sizes and windows, finite
numbers of requests of `MetacogEngine`, of checks and clients, of objectives and of the
scores of a variant. Every invariant and every action property that a passing run
checks is a theorem, and so are both refinements.

`CognitiveGraphProofs`. `Inductive` proves `IInv`: any set of requests, inputs
and answers, any two retry constants. None of the safety properties is
inductive as it stands. `RetryBound` needs `CountInv`, which relates calls and
counted retries node by node, and `ClassifyInv`, for only a complex, not
streamed task gets to the verification. `DeliveredAnswerIsJudged` and
`AnswerAttributed` need `AnswerInv`, which follows the latest answer from the
call to the reply. `MemoryProvenance` needs `StoreInv` (nothing of the latest
call is sent before `store_memory` has run), else a second memory of the same
call could not be excluded. Both speak of `Sent`, what is stored or may yet be, so
that a late `add_memory` disturbs nothing. From `IInv` follow, as theorems of `Spec`, the five
properties, the action property `FailureEndsTheRun`, and
`GraphImplementsChatService`: the initial state maps to an initial state and
each action to a step of `ChatService` or a stutter.

`McpGatewayProofs`. `WindowBound` is not inductive, for the limiter counts what
it remembers and not what was forwarded, and by the clock, not in real time.
`LimiterInv` says that every forwarded request that still counts is remembered,
`ClockInv` that the clock has not outrun time since it was last set forward, and
`HistoryInv` that nothing is of the future. A window that ends earlier than now
held its requests before the step; one that ends now is part of the limiter's
list. `RejectionJustified` follows in the same way, with `RejectedInv`;
`AuditTrail` needs that a new request's number is new.

`MetacogEngineProofs`. `CountInv` bounds the clients by the requests that have
entered; `HeardInv` says which gates a request behind them has heard, and
`RejectInv` that a verdict names a gate that objected or was not answered: from
the two follow `OutageFailsClosed` and `InterferenceIsConfined`. `AloneInv` is
what `SequentialIsExact` needs: the client of a request that is alone is open and
its own, so no call of it fails, and no gate behind it would have objected.

`HealthCheckProofs`. `HealthyIsReported` is a pigeonhole argument. `OnceInv` and
`DueInv` say that a job is in one place and belongs to the stage its chat is at, so
a client or a routing test's chat has one job at most. In a healthy system a thread
that waits is held by a routing test, one for each check, or by the call of a
client; so there are no more of them than checks and clients, and with one thread
more than that the pool is never `Crowded` (`NotCrowded`). Then no routing test
times out (`PassInv`). `FoundInv`, that a component's result is its state, gives
`SicknessIsReported`.

`GepaProofs`. The frontier is an antichain because whatever is listed comes from
the undominated variants (`ListedFacts`). `ChainInv` also covers the saved
frontier, which a restart brings back. `BestSurvives` is not inductive, for it
says nothing of a process that is down: `SurviveInv` says that the file holds the
best total and that a running process has on its frontier what the file holds.
A merge keeps the best because the variant that comes first by total score is
not dominated (`BestUndominated`: what dominates has a higher total, and only if
the objectives are the same), and a cut lists the first or one as good
(`UpdatedFacts`). `EvictionJustified` needs both of a merge's steps. What the
test for dominance drops has a dominating variant that is itself undominated, for
dominance on the same objectives is transitive and of all that dominate a variant
the first by total score is dominated by none (`DominatorKept`); what the cut
drops, a dominating one included, leaves behind only what is no worse by total
(`IsCut`).

`LegacyRouterProofs`. `TruthInv` says that what is remembered was true when its
check was sent or later, whatever order answers come in. A request that waits for
its fallback has found its primary sick: `RouteInv` says that the primary then is
so still, or has recovered too late to be known. `CallInv` carries what was right
when a request was routed to the end of its calls. `RoutedToLiving` and
`AnsweredByLiving` are action properties and follow from `IInv` and one step.

`CodeGraphProofs`. A plan contains the owner of all that it contains
(`PlanShape`), and the order of statements puts the owner first (`ReadyOwner`);
so a statement that is neither to be executed nor lost has left its node and its
link (`ExecutedInv`), which nothing removes, and so has its owner's statement
(`OwnerInv`), which cannot be the lost one, for that comes last. `DoneInv` (a run
that is done has nothing left to execute) and `AloneInv` turn that into
`IndexedIsPresent` and `AloneIsCurrent`. `OwnSymbols` rests on `OwnInv`: a link is
one that some run had to make, and what a run parsed was under its target and in
the file. A method reaches a file through its class; two files that name a class
alike have the same prefix (`SamePrefix`), and under one target they are one file
(`PrefixInjective`). Two theorems are about the queries: every row of a search
names a file that some run has read, and a symbol that the file had, but for the
methods `OwnSymbols` excepts (`RowsOfSearch`); and what a completed run found
imported stays a dependency, but for a lost statement (`DependenciesStay`).

`ParetoFrontierProofs`. The first part is about any sums and lists, and
`GepaProofs` uses it through an instance. The prover cannot take a predicate for
an induction, but it can take a set: `AllNumbers` and `AllSubsets` are induction
over the numbers and over the subsets of a finite set, proved from the least
element that a set would lack. With them `SumUnfolds` shows that the folds of the
library satisfy their recursion, and `SumGrows` that a sum grows with its
summands. `Ranked` is the fact behind every list: in a strict total order on a
finite set there is an element with any number of others before it, for the
numbers are different and as many as the elements; so what is `Listed` is well
defined, and holds what has few enough before it.

Of the abstract frontier, `Frontier` (which keeps the range of the list; every
finite set is such a range): no solution dominates another (`NoneDominated`),
and as long as nothing was pruned and all solutions are
complete it is exactly what nothing offered dominates, in whatever order it came
(`FrontierIsMaximal`), because dominance of complete solutions is transitive.
That it is not for partial ones is why `Complete` is needed. `Covered`, that what
is no longer kept is dominated by what is, is the invariant.

Of the list: every addition is one to the set (`SetAdd`), so the list implements
it and inherits both. `BestInv`, that every offer is matched in every
objective, needs more than the set promises: the ends of the objectives are at
most twice as many as the objectives (`ExtremesFew`) and are listed before all
others (`FartherOrdered`, `PrunedFacts`), so with that much place pruning keeps
them, and what a new solution removes it matches itself. `CompromiseIsBest`
follows from `Covered` and `SumGrows`.

Model-checked only: liveness (`EveryRequestAnswered`, `EveryCheckAnswers`,
`EveryChatAnswers`), which the prover does not handle. What the proofs leave to
TLC besides is that the assumptions on the constants can be met, which each run
evaluates.

## Plan

Done: all modules above. Left, in order of what it would add:

1. streamed calls of `LegacyRouter` whose client hangs up;
2. the ratios of `metacognition/gates.py` as operators, should anything call them.

## Not modelled

`metacognition/gates.py` holds local gate classes that nothing calls: stateless
ratios of word counts, with no order, state or failure to get wrong.
`dashboard/`, `docker/`, `tools/`, the shell scripts and `benchmark_dragrace.py`
display, deploy, measure or wrap and have no protocol of their own; of
`docker/server_mem0.py` only what adds a memory is modelled, as the part of Mem0
that outlives its client's patience. `agent/tools/status.py` asks the DCGM exporter
and Mem0, and formats. `find_references` and `get_class_hierarchy` ask for
relationships that nothing writes. The metacognition engine joins the evidence
outside any `try` (`engine.py:186`): an item that is no text fails the request
without a verdict; the model takes evidence to be texts. Tracing, metrics, logging,
prompt texts and the wording of answers are left out everywhere.
