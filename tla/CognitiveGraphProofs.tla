------------------------ MODULE CognitiveGraphProofs ------------------------
(***************************************************************************)
(* Theorems about CognitiveGraph for every set of requests, every input,   *)
(* every answer and every value of the limits.                             *)
(***************************************************************************)
EXTENDS CognitiveGraph, FiniteSetTheorems, TLAPS

\* The initial state of a run satisfies the inductive invariant.
LEMMA InitIInv == Init => IInv
<1> SUFFICES ASSUME Init PROVE IInv
  OBVIOUS
<1>1. TypeOK
  BY DEF Init, TypeOK, Nodes, ChatRequests, NoInput, Features, ModelFields, GraphState,
         InitialState, ModelNames, Verdicts, Replies
<1>2. ASSUME NEW r \in Requests
      PROVE  ClassifyInv(r) /\ CountInv(r) /\ AnswerInv(r)
  <2>1. /\ pc[r] = "idle" /\ input[r] = NoInput /\ gs[r] = InitialState
        /\ reply[r] = "none" /\ calls[r] = 0
    BY DEF Init
  <2>2. ClassifyInv(r)
    BY <2>1 DEF ClassifyInv, InitialState, NoInput, At, Unclassified
  <2>3. CountInv(r)
    BY <2>1, LimitsAssumption DEF CountInv, InitialState, NoInput, At
  <2>4. AnswerInv(r)
    BY <2>1 DEF AnswerInv, InitialState, At
  <2>5. QED
    BY <2>2, <2>3, <2>4
<1>3. MemoryProvenance /\ StoreInv
  BY DEF Init, Sent, MemoryProvenance, StoreInv
<1>4. ContextFromOthers
  <2>1. Cardinality({}) = 0
    BY FS_EmptySet
  <2>2. \A r \in Requests : gs[r].memory_context = {}
    BY DEF Init, InitialState
  <2>3. QED
    BY <2>1, <2>2, LimitsAssumption DEF ContextFromOthers
<1>5. QED
  BY <1>1, <1>2, <1>3, <1>4 DEF IInv, RunInv

\* A request that a step leaves alone keeps its invariant.
LEMMA OtherRun ==
  ASSUME NEW p \in Requests,
         ClassifyInv(p), CountInv(p), AnswerInv(p),
         pc'[p] = pc[p], input'[p] = input[p], gs'[p] = gs[p],
         reply'[p] = reply[p], calls'[p] = calls[p]
  PROVE  ClassifyInv(p)' /\ CountInv(p)' /\ AnswerInv(p)'
<1>1. ClassifyInv(p)'
  BY DEF ClassifyInv, At
<1>2. CountInv(p)'
  BY DEF CountInv, At
<1>3. AnswerInv(p)'
  BY DEF AnswerInv, At, should_verify, Endpoint, UsesDeepSeek
<1>4. QED
  BY <1>1, <1>2, <1>3

\* What was sent to Mem0 stays accounted for under a step of request r that does
\* not send: either r makes a new call, or its answer and its place before
\* store_memory do not change, or it has made no call at all.
LEMMA MemoryKept ==
  ASSUME IInv, NEW r \in Requests, UNCHANGED <<memory, posted>>,
         \A p \in Requests \ {r} :
           gs'[p] = gs[p] /\ input'[p] = input[p] /\ calls'[p] = calls[p] /\ pc'[p] = pc[p],
         calls'[r] \in Nat,
         \/ calls[r] = 0 /\ calls'[r] = 0
         \/ /\ gs'[r].complexity = gs[r].complexity /\ input'[r].stream = input[r].stream
            /\ \/ /\ calls'[r] = calls[r] /\ gs'[r].response = gs[r].response
                  /\ pc'[r] = "store_memory" => pc[r] = "store_memory"
               \/ calls'[r] > calls[r]
  PROVE  MemoryProvenance' /\ StoreInv'
<1>1. ASSUME NEW m \in Sent
      PROVE  /\ m.attempt \in 1..calls'[m.req]
             /\ gs'[m.req].complexity = "COMPLEX" /\ ~input'[m.req].stream
             /\ m.attempt = calls'[m.req] => gs'[m.req].response = m.answer
             /\ pc'[m.req] = "store_memory" => m.attempt < calls'[m.req]
  <2>1. /\ m.req \in Requests /\ m.attempt \in Nat /\ calls[m.req] \in Nat
        /\ m.attempt \in 1..calls[m.req]
        /\ gs[m.req].complexity = "COMPLEX" /\ ~input[m.req].stream
        /\ m.attempt = calls[m.req] => gs[m.req].response = m.answer
        /\ pc[m.req] = "store_memory" => m.attempt < calls[m.req]
    BY DEF IInv, TypeOK, Items, Sent, MemoryProvenance, StoreInv, At
  <2>2. CASE m.req # r
    BY <2>1, <2>2
  <2>3. CASE m.req = r
    BY <2>1, <2>3
  <2>4. QED
    BY <2>2, <2>3
<1>2. \A m, n \in Sent : n.req = m.req /\ n.attempt = m.attempt => n = m
  BY DEF IInv, MemoryProvenance
<1>3. Sent' = Sent /\ memory' \cap posted' = {}
  BY DEF Sent, IInv, StoreInv
<1>4. QED
  BY <1>1, <1>2, <1>3 DEF MemoryProvenance, StoreInv, At

\* Contexts stay as they are, or are emptied, while memories are only added.
LEMMA ContextKept ==
  ASSUME IInv, memory \subseteq memory',
         \A p \in Requests : \/ gs'[p].memory_context = gs[p].memory_context
                             \/ gs'[p].memory_context = {}
  PROVE  ContextFromOthers'
<1>1. Cardinality({}) = 0
  BY FS_EmptySet
<1>2. ASSUME NEW p \in Requests
      PROVE  /\ gs'[p].memory_context \subseteq {m \in memory' : m.req # p}
             /\ Cardinality(gs'[p].memory_context) <= SEARCH_LIMIT
  <2>1. /\ gs[p].memory_context \subseteq {m \in memory : m.req # p}
        /\ Cardinality(gs[p].memory_context) <= SEARCH_LIMIT
    BY DEF IInv, ContextFromOthers
  <2>2. CASE gs'[p].memory_context = gs[p].memory_context
    BY <2>1, <2>2
  <2>3. CASE gs'[p].memory_context = {}
    BY <1>1, <2>3, LimitsAssumption
  <2>4. QED
    BY <2>2, <2>3
<1>3. QED
  BY <1>2 DEF ContextFromOthers

\* A request arrives.
LEMMA ChatCompletionsIInv ==
  ASSUME IInv, NEW r \in Requests, chat_completions(r)
  PROVE  IInv'
<1>1. TypeOK'
  <2>1. TypeOK
    BY DEF IInv
  <2>2. pc' \in [Requests -> Nodes]
    BY <2>1 DEF TypeOK, chat_completions, Goto, Nodes
  <2>3. gs' \in [Requests -> GraphState]
    BY <2>1 DEF TypeOK, chat_completions
  <2>4. QED
    BY <2>1, <2>2, <2>3, InputsAssumption DEF TypeOK, chat_completions, Items, Replies
<1>2. ASSUME NEW p \in Requests
      PROVE  ClassifyInv(p)' /\ CountInv(p)' /\ AnswerInv(p)'
  <2>1. CASE p # r
    BY <2>1, OtherRun DEF chat_completions, Goto, IInv, RunInv, TypeOK
  <2>2. CASE p = r
    <3>1. ClassifyInv(r) /\ CountInv(r) /\ AnswerInv(r)
      BY DEF IInv, RunInv
    <3>2. ClassifyInv(r)'
      BY <3>1 DEF chat_completions, Goto, At, IInv, TypeOK, GraphState, ClassifyInv, CountInv, AnswerInv, BeforeCall, Unclassified
    <3>3. CountInv(r)'
      BY <3>1, LimitsAssumption DEF chat_completions, Goto, At, IInv, TypeOK, GraphState, CountInv, BeforeCall, Unclassified
    <3>4. AnswerInv(r)'
      BY <3>1, LimitsAssumption DEF chat_completions, Goto, At, IInv, TypeOK, GraphState, AnswerInv, BeforeCall, Unclassified
    <3>5. QED
      BY <2>2, <3>2, <3>3, <3>4
  <2>3. QED
    BY <2>1, <2>2
<1>3. MemoryProvenance' /\ StoreInv'
  BY MemoryKept DEF chat_completions, Goto, At, IInv, TypeOK, GraphState, RunInv, CountInv, BeforeCall, Unclassified
<1>4. ContextFromOthers'
  BY ContextKept DEF chat_completions, Goto, IInv, TypeOK, GraphState
<1>5. QED
  BY <1>1, <1>2, <1>3, <1>4 DEF IInv, RunInv

\* parse_request sets the retry counter.
LEMMA ParseRequestIInv ==
  ASSUME IInv, NEW r \in Requests, parse_request(r)
  PROVE  IInv'
<1>1. TypeOK'
  <2>1. TypeOK
    BY DEF IInv
  <2>2. pc' \in [Requests -> Nodes]
    BY <2>1 DEF TypeOK, parse_request, Goto, Nodes, should_use_memory
  <2>3. gs' \in [Requests -> GraphState]
    BY <2>1 DEF TypeOK, parse_request, GraphState
  <2>4. QED
    BY <2>1, <2>2, <2>3 DEF TypeOK, parse_request, Items
<1>2. ASSUME NEW p \in Requests
      PROVE  ClassifyInv(p)' /\ CountInv(p)' /\ AnswerInv(p)'
  <2>1. CASE p # r
    BY <2>1, OtherRun DEF parse_request, Goto, IInv, RunInv, TypeOK
  <2>2. CASE p = r
    <3>1. ClassifyInv(r) /\ CountInv(r) /\ AnswerInv(r)
      BY DEF IInv, RunInv
    <3>2. ClassifyInv(r)'
      BY <3>1 DEF parse_request, Goto, At, IInv, TypeOK, GraphState, ClassifyInv, Unclassified, should_use_memory
    <3>3. CountInv(r)'
      BY <3>1, LimitsAssumption DEF parse_request, Goto, At, IInv, TypeOK, GraphState, CountInv, BeforeCall, Unclassified, should_use_memory
    <3>4. AnswerInv(r)'
      BY <3>1, LimitsAssumption DEF parse_request, Goto, At, IInv, TypeOK, GraphState, AnswerInv, BeforeCall, Unclassified, should_use_memory
    <3>5. QED
      BY <2>2, <3>2, <3>3, <3>4
  <2>3. QED
    BY <2>1, <2>2
<1>3. MemoryProvenance' /\ StoreInv'
  BY MemoryKept DEF parse_request, Goto, At, IInv, TypeOK, GraphState, RunInv, CountInv, BeforeCall, Unclassified, should_use_memory
<1>4. ContextFromOthers'
  BY ContextKept DEF parse_request, Goto, IInv, TypeOK, GraphState
<1>5. QED
  BY <1>1, <1>2, <1>3, <1>4 DEF IInv, RunInv

\* Mem0 answers the health check, or not.
LEMMA RetrieveMemoryIInv ==
  ASSUME IInv, NEW r \in Requests, retrieve_memory(r)
  PROVE  IInv'
<1>1. TypeOK'
  <2>1. TypeOK
    BY DEF IInv
  <2>2. pc' \in [Requests -> Nodes]
    BY <2>1 DEF TypeOK, retrieve_memory, Goto, Nodes
  <2>3. gs' \in [Requests -> GraphState]
    BY <2>1 DEF TypeOK, retrieve_memory, GraphState
  <2>4. QED
    BY <2>1, <2>2, <2>3 DEF TypeOK, retrieve_memory, Items
<1>2. ASSUME NEW p \in Requests
      PROVE  ClassifyInv(p)' /\ CountInv(p)' /\ AnswerInv(p)'
  <2>1. CASE p # r
    BY <2>1, OtherRun DEF retrieve_memory, Goto, IInv, RunInv, TypeOK
  <2>2. CASE p = r
    <3>1. ClassifyInv(r) /\ CountInv(r) /\ AnswerInv(r)
      BY DEF IInv, RunInv
    <3>2. ClassifyInv(r)'
      BY <3>1 DEF retrieve_memory, Goto, At, IInv, TypeOK, GraphState, ClassifyInv, Unclassified
    <3>3. CountInv(r)'
      BY <3>1, LimitsAssumption DEF retrieve_memory, Goto, At, IInv, TypeOK, GraphState, CountInv, BeforeCall, Unclassified
    <3>4. AnswerInv(r)'
      BY <3>1, LimitsAssumption DEF retrieve_memory, Goto, At, IInv, TypeOK, GraphState, AnswerInv, BeforeCall, Unclassified
    <3>5. QED
      BY <2>2, <3>2, <3>3, <3>4
  <2>3. QED
    BY <2>1, <2>2
<1>3. MemoryProvenance' /\ StoreInv'
  BY MemoryKept DEF retrieve_memory, Goto, At, IInv, TypeOK, GraphState, RunInv, CountInv, BeforeCall, Unclassified
<1>4. ContextFromOthers'
  BY ContextKept DEF retrieve_memory, Goto, IInv, TypeOK, GraphState
<1>5. QED
  BY <1>1, <1>2, <1>3, <1>4 DEF IInv, RunInv

\* Classification gives every request a level, never TOOL_HEAVY, and a model
\* name; a status query is trivial.
LEMMA Classification ==
  ASSUME NEW in \in ChatRequests, NEW s \in GraphState
  PROVE  /\ Classified(s, in) \in GraphState
         /\ Complexity(in) \in {"TRIVIAL", "ROUTINE", "COMPLEX"}
         /\ IsStatusQuery(in) \in BOOLEAN
         /\ IsStatusQuery(in) => Complexity(in) = "TRIVIAL"
<1>1. IsStatusQuery(in) \in BOOLEAN
  BY DEF IsStatusQuery
<1>2. Complexity(in) \in {"TRIVIAL", "ROUTINE", "COMPLEX"}
  BY DEF Complexity, PromptComplexity
<1>3. IsStatusQuery(in) => Complexity(in) = "TRIVIAL"
  BY DEF Complexity, IsStatusQuery
<1>4. ClassifiedModel(in, s.model_name) \in ModelNames
  BY DEF ClassifiedModel, ModelNames, Override, ENDPOINTS, GraphState
<1>5. Classified(s, in) \in GraphState
  BY <1>1, <1>2, <1>4 DEF Classified, GraphState, ComplexityLevel
<1>6. QED
  BY <1>1, <1>2, <1>3, <1>5

\* Classification.
LEMMA ClassifyComplexityIInv ==
  ASSUME IInv, NEW r \in Requests, classify_complexity(r)
  PROVE  IInv'
<1>1. TypeOK'
  <2>1. TypeOK
    BY DEF IInv
  <2>2. pc' \in [Requests -> Nodes]
    BY <2>1 DEF TypeOK, classify_complexity, Goto, Nodes
  <2>3. gs' \in [Requests -> GraphState]
    BY <2>1, Classification DEF TypeOK, classify_complexity
  <2>4. QED
    BY <2>1, <2>2, <2>3 DEF TypeOK, classify_complexity, Items
<1>2. ASSUME NEW p \in Requests
      PROVE  ClassifyInv(p)' /\ CountInv(p)' /\ AnswerInv(p)'
  <2>1. CASE p # r
    BY <2>1, OtherRun DEF classify_complexity, Goto, IInv, RunInv, TypeOK
  <2>2. CASE p = r
    <3>1. ClassifyInv(r) /\ CountInv(r) /\ AnswerInv(r)
      BY DEF IInv, RunInv
    <3>2. /\ Complexity(input[r]) \in {"TRIVIAL", "ROUTINE", "COMPLEX"}
          /\ IsStatusQuery(input[r]) => Complexity(input[r]) = "TRIVIAL"
          /\ IsStatusQuery(input[r]) \in BOOLEAN
      BY Classification DEF IInv, TypeOK
    <3>3. ClassifyInv(r)'
      BY <3>1, <3>2 DEF classify_complexity, Goto, At, IInv, TypeOK, GraphState, ClassifyInv, CountInv, AnswerInv, BeforeCall, Unclassified, Classified
    <3>4. CountInv(r)'
      BY <3>1, LimitsAssumption DEF classify_complexity, Goto, At, IInv, TypeOK, GraphState, CountInv, BeforeCall, Unclassified, ClassifyInv, Classified
    <3>5. AnswerInv(r)'
      BY <3>1, LimitsAssumption DEF classify_complexity, Goto, At, IInv, TypeOK, GraphState, AnswerInv, BeforeCall, Unclassified, Classified
    <3>6. QED
      BY <2>2, <3>3, <3>4, <3>5
  <2>3. QED
    BY <2>1, <2>2
<1>3. MemoryProvenance' /\ StoreInv'
  BY MemoryKept DEF classify_complexity, Goto, At, IInv, TypeOK, GraphState, RunInv, CountInv, BeforeCall, Unclassified, Classified
<1>4. ContextFromOthers'
  BY ContextKept DEF classify_complexity, Goto, IInv, TypeOK, GraphState, Classified
<1>5. QED
  BY <1>1, <1>2, <1>3, <1>4 DEF IInv, RunInv

\* A search puts memories into the context.
LEMMA SearchMemoryIInv ==
  ASSUME IInv, NEW r \in Requests, search_memory(r)
  PROVE  IInv'
<1>1. TypeOK'
  <2>1. TypeOK
    BY DEF IInv
  <2>2. pc' \in [Requests -> Nodes]
    BY <2>1 DEF TypeOK, search_memory, Goto, Nodes
  <2>3. gs' \in [Requests -> GraphState]
    BY <2>1 DEF TypeOK, search_memory, SearchResults, GraphState
  <2>4. QED
    BY <2>1, <2>2, <2>3 DEF TypeOK, search_memory, SearchResults, Items
<1>2. ASSUME NEW p \in Requests
      PROVE  ClassifyInv(p)' /\ CountInv(p)' /\ AnswerInv(p)'
  <2>1. CASE p # r
    BY <2>1, OtherRun DEF search_memory, Goto, IInv, RunInv, TypeOK
  <2>2. CASE p = r
    <3>1. ClassifyInv(r) /\ CountInv(r) /\ AnswerInv(r)
      BY DEF IInv, RunInv
    <3>2. ClassifyInv(r)'
      BY <3>1 DEF search_memory, Goto, At, IInv, TypeOK, GraphState, ClassifyInv, CountInv, AnswerInv, BeforeCall, Unclassified
    <3>3. CountInv(r)'
      BY <3>1, LimitsAssumption DEF search_memory, Goto, At, IInv, TypeOK, GraphState, CountInv, BeforeCall, Unclassified
    <3>4. AnswerInv(r)'
      BY <3>1, LimitsAssumption DEF search_memory, Goto, At, IInv, TypeOK, GraphState, AnswerInv, BeforeCall, Unclassified
    <3>5. QED
      BY <2>2, <3>2, <3>3, <3>4
  <2>3. QED
    BY <2>1, <2>2
<1>3. MemoryProvenance' /\ StoreInv'
  BY MemoryKept DEF search_memory, Goto, At, IInv, TypeOK, GraphState, RunInv, CountInv, BeforeCall, Unclassified
<1>4. ContextFromOthers'
  <2>1. ASSUME NEW p \in Requests
        PROVE  /\ gs'[p].memory_context \subseteq {m \in memory' : m.req # p}
               /\ Cardinality(gs'[p].memory_context) <= SEARCH_LIMIT
    <3>1. CASE p # r
      BY <2>1, <3>1 DEF search_memory, IInv, TypeOK, ContextFromOthers
    <3>2. CASE p = r
      <4>1. PICK found \in SUBSET memory :
              /\ Cardinality(found) <= SEARCH_LIMIT
              /\ gs' = [gs EXCEPT ![r].memory_context = found]
        BY DEF search_memory, SearchResults
      <4>2. gs'[r].memory_context = found
        BY <4>1 DEF IInv, TypeOK, GraphState
      <4>3. calls[r] = 0
        BY DEF search_memory, At, IInv, RunInv, CountInv, BeforeCall, Unclassified
      <4>4. \A m \in memory : m.req # r
        BY <4>3 DEF IInv, MemoryProvenance, Sent
      <4>5. QED
        BY <3>2, <4>1, <4>2, <4>4 DEF search_memory, SearchResults
    <3>3. QED
      BY <3>1, <3>2
  <2>2. QED
    BY <2>1 DEF ContextFromOthers
<1>5. QED
  BY <1>1, <1>2, <1>3, <1>4 DEF IInv, RunInv

\* The status tool answers.
LEMMA HandleStatusIInv ==
  ASSUME IInv, NEW r \in Requests, handle_status(r)
  PROVE  IInv'
<1>1. TypeOK'
  <2>1. TypeOK
    BY DEF IInv
  <2>2. pc' \in [Requests -> Nodes]
    BY <2>1 DEF TypeOK, handle_status, Goto, Nodes
  <2>3. gs' \in [Requests -> GraphState]
    <3>1. gs[r] \in GraphState
      BY <2>1 DEF TypeOK
    <3>2. [gs[r] EXCEPT !.response = "status", !.model_name = "sovereign-introspection"] \in GraphState
      BY <3>1 DEF GraphState, ModelNames
    <3>3. CASE gs' = gs
      BY <2>1, <3>3 DEF TypeOK
    <3>4. CASE gs' = [gs EXCEPT ![r].response = "status",
                               ![r].model_name = "sovereign-introspection"]
      BY <2>1, <3>2, <3>4 DEF TypeOK
    <3>5. QED
      BY <3>3, <3>4 DEF handle_status
  <2>4. QED
    BY <2>1, <2>2, <2>3 DEF TypeOK, handle_status, Items, Replies
<1>2. ASSUME NEW p \in Requests
      PROVE  ClassifyInv(p)' /\ CountInv(p)' /\ AnswerInv(p)'
  <2>1. CASE p # r
    BY <2>1, OtherRun DEF handle_status, Goto, IInv, RunInv, TypeOK
  <2>2. CASE p = r
    <3>1. ClassifyInv(r) /\ CountInv(r) /\ AnswerInv(r)
      BY DEF IInv, RunInv
    <3>2. ClassifyInv(r)'
      BY <3>1 DEF handle_status, Goto, At, IInv, TypeOK, GraphState, ClassifyInv, CountInv, AnswerInv, BeforeCall, Unclassified
    <3>3. CountInv(r)'
      BY <3>1, LimitsAssumption DEF handle_status, Goto, At, IInv, TypeOK, GraphState, CountInv, BeforeCall, Unclassified, ClassifyInv
    <3>4. AnswerInv(r)'
      BY <3>1, LimitsAssumption DEF handle_status, Goto, At, IInv, TypeOK, GraphState, AnswerInv, BeforeCall, Unclassified, ClassifyInv, CountInv
    <3>5. QED
      BY <2>2, <3>2, <3>3, <3>4
  <2>3. QED
    BY <2>1, <2>2
<1>3. MemoryProvenance' /\ StoreInv'
  BY MemoryKept DEF handle_status, Goto, At, IInv, TypeOK, GraphState, RunInv, CountInv, BeforeCall, Unclassified
<1>4. ContextFromOthers'
  BY ContextKept DEF handle_status, Goto, IInv, TypeOK, GraphState
<1>5. QED
  BY <1>1, <1>2, <1>3, <1>4 DEF IInv, RunInv

\* retrieve_knowledge only moves on.
LEMMA RetrieveKnowledgeIInv ==
  ASSUME IInv, NEW r \in Requests, retrieve_knowledge(r)
  PROVE  IInv'
<1>1. TypeOK'
  <2>1. TypeOK
    BY DEF IInv
  <2>2. pc' \in [Requests -> Nodes]
    BY <2>1 DEF TypeOK, retrieve_knowledge, Goto, Nodes
  <2>3. gs' \in [Requests -> GraphState]
    BY <2>1 DEF TypeOK, retrieve_knowledge
  <2>4. QED
    BY <2>1, <2>2, <2>3 DEF TypeOK, retrieve_knowledge, Items
<1>2. ASSUME NEW p \in Requests
      PROVE  ClassifyInv(p)' /\ CountInv(p)' /\ AnswerInv(p)'
  <2>1. CASE p # r
    BY <2>1, OtherRun DEF retrieve_knowledge, Goto, IInv, RunInv, TypeOK
  <2>2. CASE p = r
    <3>1. ClassifyInv(r) /\ CountInv(r) /\ AnswerInv(r)
      BY DEF IInv, RunInv
    <3>2. ClassifyInv(r)'
      BY <3>1 DEF retrieve_knowledge, Goto, At, IInv, TypeOK, GraphState, ClassifyInv, CountInv, AnswerInv, BeforeCall, Unclassified
    <3>3. CountInv(r)'
      BY <3>1, LimitsAssumption DEF retrieve_knowledge, Goto, At, IInv, TypeOK, GraphState, CountInv, BeforeCall, Unclassified
    <3>4. AnswerInv(r)'
      BY <3>1, LimitsAssumption DEF retrieve_knowledge, Goto, At, IInv, TypeOK, GraphState, AnswerInv, BeforeCall, Unclassified
    <3>5. QED
      BY <2>2, <3>2, <3>3, <3>4
  <2>3. QED
    BY <2>1, <2>2
<1>3. MemoryProvenance' /\ StoreInv'
  BY MemoryKept DEF retrieve_knowledge, Goto, At, IInv, TypeOK, GraphState, RunInv, CountInv, BeforeCall, Unclassified
<1>4. ContextFromOthers'
  BY ContextKept DEF retrieve_knowledge, Goto, IInv, TypeOK, GraphState
<1>5. QED
  BY <1>1, <1>2, <1>3, <1>4 DEF IInv, RunInv

\* What a finished call makes of the state.
LEMMA CallOutcome ==
  ASSUME NEW s \in GraphState, NEW n \in Nat, NEW a \in AnswerKinds \cup {"no_text"}
  PROVE  /\ Answered(s, a, n) \in GraphState
         /\ Failed(s) \in GraphState
         /\ Answered(s, a, n) = [s EXCEPT !.response = a, !.usage = n,
                                         !.model_name = Endpoint(s)]
         /\ Endpoint(Answered(s, a, n)) = Endpoint(s)
<1>1. Endpoint(s) \in ModelNames
  BY DEF Endpoint, ENDPOINTS, ModelNames
<1>2. Endpoint(Answered(s, a, n)) = Endpoint(s)
  BY DEF Endpoint, UsesDeepSeek, Answered, GraphState
<1>3. QED
  BY <1>1, <1>2 DEF Answered, Failed, GraphState

\* A model answers, or the call fails.
LEMMA CallModelIInv ==
  ASSUME IInv, NEW r \in Requests, call_model(r)
  PROVE  IInv'
<1>0. /\ TypeOK /\ gs[r] \in GraphState /\ calls[r] \in Nat
      /\ ClassifyInv(r) /\ CountInv(r) /\ AnswerInv(r)
  BY DEF IInv, TypeOK, RunInv
<1>1. /\ pc[r] = "call_model" /\ ~input[r].stream
      /\ pc' = [pc EXCEPT ![r] = "store_memory"]
      /\ calls' = [calls EXCEPT ![r] = calls[r] + 1]
      /\ UNCHANGED <<input, reply, memory, posted>>
  BY DEF call_model, Goto, At
<1>2. PICK s \in GraphState :
        /\ gs' = [gs EXCEPT ![r] = s]
        /\ \/ \E a \in AnswerKinds \cup {"no_text"} :
                 /\ s = [gs[r] EXCEPT !.response = a, !.usage = calls[r] + 1,
                                      !.model_name = Endpoint(gs[r])]
                 /\ Endpoint(s) = Endpoint(gs[r])
           \/ s = [gs[r] EXCEPT !.response = "no_text", !.error = TRUE]
  <2>1. CASE gs' = [gs EXCEPT ![r] = Failed(@)]
    <3>1. gs' = [gs EXCEPT ![r] = Failed(gs[r])] /\ Failed(gs[r]) \in GraphState
      BY <1>0, <2>1, CallOutcome
    <3>2. QED
      BY <3>1 DEF Failed
  <2>2. CASE \E a \in Answers \cup {"no_text"} :
               gs' = [gs EXCEPT ![r] = Answered(@, a, calls[r] + 1)]
    <3>1. PICK a \in AnswerKinds \cup {"no_text"} :
            gs' = [gs EXCEPT ![r] = Answered(gs[r], a, calls[r] + 1)]
      BY <2>2, AnswersAssumption
    <3>2. calls[r] + 1 \in Nat
      BY <1>0
    <3>3. QED
      BY <1>0, <3>1, <3>2, CallOutcome
  <2>3. QED
    BY <2>1, <2>2 DEF call_model
<1>3. TypeOK'
  <2>1. pc' \in [Requests -> Nodes]
    BY <1>0, <1>1 DEF TypeOK, Nodes
  <2>2. gs' \in [Requests -> GraphState]
    BY <1>0, <1>2 DEF TypeOK
  <2>3. calls' \in [Requests -> Nat]
    BY <1>0, <1>1 DEF TypeOK
  <2>4. QED
    BY <1>0, <1>1, <2>1, <2>2, <2>3 DEF TypeOK, Items
<1>4. ASSUME NEW p \in Requests
      PROVE  ClassifyInv(p)' /\ CountInv(p)' /\ AnswerInv(p)'
  <2>1. CASE p # r
    BY <1>1, <1>2, <2>1, OtherRun DEF IInv, RunInv, TypeOK
  <2>2. CASE p = r
    <3>1. /\ pc'[r] = "store_memory" /\ gs'[r] = s /\ calls'[r] = calls[r] + 1
          /\ input'[r] = input[r] /\ reply'[r] = reply[r]
      BY <1>0, <1>1, <1>2 DEF TypeOK
    <3>2. /\ s.complexity = gs[r].complexity /\ s.retry_count = gs[r].retry_count
          /\ s.is_status_query = gs[r].is_status_query
          /\ s.metacog_verdict = gs[r].metacog_verdict
      BY <1>0, <1>2 DEF GraphState
    <3>3. \/ /\ s.response \in AnswerKinds \cup {"no_text"} /\ s.usage = calls[r] + 1
             /\ s.model_name = Endpoint(s) /\ s.error = gs[r].error
          \/ s.response = "no_text" /\ s.error
      BY <1>0, <1>2 DEF GraphState
    <3>4. ClassifyInv(r)'
      BY <1>0, <1>1, <3>1, <3>2, <3>3
      DEF ClassifyInv, At, Unclassified, AnswerKinds, GateFailures
    <3>5. CountInv(r)'
      BY <1>0, <1>1, <3>1, <3>2, LimitsAssumption
      DEF ClassifyInv, CountInv, At, BeforeCall, Unclassified, GraphState
    <3>6. AnswerInv(r)'
      BY <1>0, <1>1, <3>1, <3>2, <3>3 DEF AnswerInv, At, BeforeCall, Unclassified, ClassifyInv
    <3>7. QED
      BY <2>2, <3>4, <3>5, <3>6
  <2>3. QED
    BY <2>1, <2>2
<1>5. MemoryProvenance' /\ StoreInv'
  <2>1. /\ calls'[r] = calls[r] + 1 /\ input'[r] = input[r] /\ gs'[r] = s
        /\ \A p \in Requests \ {r} :
             gs'[p] = gs[p] /\ input'[p] = input[p] /\ calls'[p] = calls[p] /\ pc'[p] = pc[p]
    BY <1>0, <1>1, <1>2 DEF TypeOK
  <2>2. s.complexity = gs[r].complexity
    BY <1>0, <1>2 DEF GraphState
  <2>3. calls'[r] \in Nat /\ calls'[r] > calls[r]
    BY <1>0, <2>1
  <2>4. QED
    BY <1>1, <2>1, <2>2, <2>3, MemoryKept
<1>6. ContextFromOthers'
  BY <1>0, <1>1, <1>2, ContextKept DEF TypeOK, GraphState
<1>7. QED
  BY <1>3, <1>4, <1>5, <1>6 DEF IInv, RunInv

\* A stream is sent, or broken.
LEMMA StreamModelResponseIInv ==
  ASSUME IInv, NEW r \in Requests, stream_model_response(r)
  PROVE  IInv'
<1>1. TypeOK'
  <2>1. TypeOK
    BY DEF IInv
  <2>2. pc' \in [Requests -> Nodes]
    BY <2>1 DEF TypeOK, stream_model_response, Goto, Nodes
  <2>3. gs' \in [Requests -> GraphState]
    BY <2>1 DEF TypeOK, stream_model_response
  <2>4. QED
    BY <2>1, <2>2, <2>3 DEF TypeOK, stream_model_response, Items, Replies
<1>2. ASSUME NEW p \in Requests
      PROVE  ClassifyInv(p)' /\ CountInv(p)' /\ AnswerInv(p)'
  <2>1. CASE p # r
    BY <2>1, OtherRun DEF stream_model_response, Goto, IInv, RunInv, TypeOK
  <2>2. CASE p = r
    <3>1. ClassifyInv(r) /\ CountInv(r) /\ AnswerInv(r)
      BY DEF IInv, RunInv
    <3>2. ClassifyInv(r)'
      BY <3>1 DEF stream_model_response, Goto, At, IInv, TypeOK, GraphState, ClassifyInv, CountInv, AnswerInv, BeforeCall, Unclassified
    <3>3. CountInv(r)'
      BY <3>1, LimitsAssumption DEF stream_model_response, Goto, At, IInv, TypeOK, GraphState, CountInv, BeforeCall, Unclassified, ClassifyInv
    <3>4. AnswerInv(r)'
      BY <3>1, LimitsAssumption DEF stream_model_response, Goto, At, IInv, TypeOK, GraphState, AnswerInv, BeforeCall, Unclassified, ClassifyInv, CountInv
    <3>5. QED
      BY <2>2, <3>2, <3>3, <3>4
  <2>3. QED
    BY <2>1, <2>2
<1>3. MemoryProvenance' /\ StoreInv'
  BY MemoryKept DEF stream_model_response, Goto, At, IInv, TypeOK, GraphState, RunInv, CountInv, BeforeCall, Unclassified, ClassifyInv
<1>4. ContextFromOthers'
  BY ContextKept DEF stream_model_response, Goto, IInv, TypeOK, GraphState
<1>5. QED
  BY <1>1, <1>2, <1>3, <1>4 DEF IInv, RunInv

\* The run is finalized and its reply sent.
LEMMA FinalizeResponseIInv ==
  ASSUME IInv, NEW r \in Requests, finalize_response(r)
  PROVE  IInv'
<1>1. TypeOK'
  <2>1. TypeOK
    BY DEF IInv
  <2>2. pc' \in [Requests -> Nodes]
    BY <2>1 DEF TypeOK, finalize_response, Goto, Nodes
  <2>3. gs' \in [Requests -> GraphState]
    BY <2>1 DEF TypeOK, finalize_response
  <2>4. QED
    BY <2>1, <2>2, <2>3 DEF TypeOK, finalize_response, Items, Replies, FinalReply
<1>2. ASSUME NEW p \in Requests
      PROVE  ClassifyInv(p)' /\ CountInv(p)' /\ AnswerInv(p)'
  <2>1. CASE p # r
    BY <2>1, OtherRun DEF finalize_response, Goto, IInv, RunInv, TypeOK
  <2>2. CASE p = r
    <3>1. ClassifyInv(r) /\ CountInv(r) /\ AnswerInv(r)
      BY DEF IInv, RunInv
    <3>2. ClassifyInv(r)'
      BY <3>1 DEF finalize_response, Goto, At, IInv, TypeOK, GraphState, ClassifyInv, CountInv, AnswerInv, BeforeCall, Unclassified
    <3>3. CountInv(r)'
      BY <3>1, LimitsAssumption DEF finalize_response, Goto, At, IInv, TypeOK, GraphState, CountInv, BeforeCall, Unclassified, ClassifyInv
    <3>4. AnswerInv(r)'
      BY <3>1, LimitsAssumption DEF finalize_response, Goto, At, IInv, TypeOK, GraphState, AnswerInv, BeforeCall, Unclassified, ClassifyInv, CountInv, FinalReply
    <3>5. QED
      BY <2>2, <3>2, <3>3, <3>4
  <2>3. QED
    BY <2>1, <2>2
<1>3. MemoryProvenance' /\ StoreInv'
  BY MemoryKept DEF finalize_response, Goto, At, IInv, TypeOK, GraphState, RunInv, CountInv, BeforeCall, Unclassified
<1>4. ContextFromOthers'
  BY ContextKept DEF finalize_response, Goto, IInv, TypeOK, GraphState
<1>5. QED
  BY <1>1, <1>2, <1>3, <1>4 DEF IInv, RunInv

\* The client of a stream hangs up.
LEMMA ClientDisconnectIInv ==
  ASSUME IInv, NEW r \in Requests, client_disconnect(r)
  PROVE  IInv'
<1>1. TypeOK'
  <2>1. TypeOK
    BY DEF IInv
  <2>2. pc' \in [Requests -> Nodes]
    BY <2>1 DEF TypeOK, client_disconnect, Goto, Nodes
  <2>3. gs' \in [Requests -> GraphState]
    BY <2>1 DEF TypeOK, client_disconnect
  <2>4. QED
    BY <2>1, <2>2, <2>3 DEF TypeOK, client_disconnect, Items, Replies
<1>2. ASSUME NEW p \in Requests
      PROVE  ClassifyInv(p)' /\ CountInv(p)' /\ AnswerInv(p)'
  <2>1. CASE p # r
    BY <2>1, OtherRun DEF client_disconnect, Goto, IInv, RunInv, TypeOK
  <2>2. CASE p = r
    <3>1. ClassifyInv(r) /\ CountInv(r) /\ AnswerInv(r)
      BY DEF IInv, RunInv
    <3>2. ClassifyInv(r)'
      BY <3>1 DEF client_disconnect, Goto, At, IInv, TypeOK, GraphState, ClassifyInv, CountInv, AnswerInv, BeforeCall, Unclassified
    <3>3. CountInv(r)'
      BY <3>1, LimitsAssumption DEF client_disconnect, Goto, At, IInv, TypeOK, GraphState, CountInv, BeforeCall, Unclassified, ClassifyInv
    <3>4. AnswerInv(r)'
      BY <3>1, LimitsAssumption DEF client_disconnect, Goto, At, IInv, TypeOK, GraphState, AnswerInv, BeforeCall, Unclassified, ClassifyInv, CountInv
    <3>5. QED
      BY <2>2, <3>2, <3>3, <3>4
  <2>3. QED
    BY <2>1, <2>2
<1>3. MemoryProvenance' /\ StoreInv'
  BY MemoryKept DEF client_disconnect, Goto, At, IInv, TypeOK, GraphState, RunInv, CountInv, BeforeCall, Unclassified
<1>4. ContextFromOthers'
  BY ContextKept DEF client_disconnect, Goto, IInv, TypeOK, GraphState
<1>5. QED
  BY <1>1, <1>2, <1>3, <1>4 DEF IInv, RunInv

\* What verification makes of a state that should be verified.
LEMMA Verification ==
  ASSUME NEW s \in GraphState, should_verify(s)
  PROVE  /\ metacog_verify(s) \in GraphState
         /\ \/ metacog_verify(s) = [s EXCEPT !.metacog_passed = TRUE,
                                             !.metacog_verdict = "passed_all_gates"]
               /\ s.response \notin GateFailures
            \/ /\ metacog_verify(s) = [s EXCEPT !.metacog_passed = TRUE,
                                       !.metacog_verdict = "passed_after_max_retries"]
               /\ s.response \in GateFailures /\ s.retry_count >= MAX_RETRIES
            \/ /\ metacog_verify(s) = [s EXCEPT !.metacog_passed = FALSE,
                                       !.metacog_verdict = s.response,
                                       !.retry_count = s.retry_count + 1]
               /\ s.response \in GateFailures /\ ~(s.retry_count >= MAX_RETRIES)
<1>1. CASE s.response \notin GateFailures
  BY <1>1 DEF metacog_verify, run_gates, GraphState, Verdicts
<1>2. CASE s.response \in GateFailures /\ s.retry_count >= MAX_RETRIES
  BY <1>2 DEF metacog_verify, run_gates, handle_failure, GraphState, Verdicts
<1>3. CASE s.response \in GateFailures /\ ~(s.retry_count >= MAX_RETRIES)
  <2>1. metacog_verify(s) = [s EXCEPT !.metacog_passed = FALSE,
                                      !.metacog_verdict = s.response,
                                      !.retry_count = s.retry_count + 1]
    BY <1>3 DEF metacog_verify, run_gates, handle_failure, GraphState
  <2>2. s.response \in Verdicts /\ s.retry_count + 1 \in Nat
    BY <1>3 DEF GraphState, Verdicts
  <2>3. QED
    BY <1>3, <2>1, <2>2 DEF GraphState
<1>4. QED
  BY <1>1, <1>2, <1>3

\* Verification.
LEMMA MetacogIInv ==
  ASSUME IInv, NEW r \in Requests, metacog(r)
  PROVE  IInv'
<1>0. /\ TypeOK /\ gs[r] \in GraphState /\ calls[r] \in Nat
      /\ ClassifyInv(r) /\ CountInv(r) /\ AnswerInv(r)
  BY DEF IInv, TypeOK, RunInv
<1> DEFINE s == metacog_verify(gs[r])
<1>1. /\ pc[r] = "metacog" /\ should_verify(gs[r])
      /\ pc' = [pc EXCEPT ![r] = route_after_metacog(s)]
      /\ gs' = [gs EXCEPT ![r] = s]
      /\ UNCHANGED <<input, reply, memory, posted, calls>>
  BY <1>0 DEF metacog, Goto, At, AnswerInv
<1>2. /\ s \in GraphState
      /\ \/ /\ s = [gs[r] EXCEPT !.metacog_passed = TRUE,
                                !.metacog_verdict = "passed_all_gates"]
            /\ gs[r].response \notin GateFailures
         \/ /\ s = [gs[r] EXCEPT !.metacog_passed = TRUE,
                                !.metacog_verdict = "passed_after_max_retries"]
            /\ gs[r].response \in GateFailures /\ gs[r].retry_count >= MAX_RETRIES
         \/ /\ s = [gs[r] EXCEPT !.metacog_passed = FALSE,
                                !.metacog_verdict = gs[r].response,
                                !.retry_count = gs[r].retry_count + 1]
            /\ gs[r].response \in GateFailures /\ ~(gs[r].retry_count >= MAX_RETRIES)
  BY <1>0, <1>1, Verification
<1> HIDE DEF s
<1>3. /\ s.complexity = gs[r].complexity /\ s.is_status_query = gs[r].is_status_query
      /\ s.response = gs[r].response /\ s.error = gs[r].error
      /\ s.model_name = gs[r].model_name /\ s.usage = gs[r].usage
      /\ s.memory_context = gs[r].memory_context
  BY <1>0, <1>2 DEF GraphState
<1>4. \/ /\ s.metacog_passed /\ s.metacog_verdict = "passed_all_gates"
         /\ s.retry_count = gs[r].retry_count /\ gs[r].response \notin GateFailures
      \/ /\ s.metacog_passed /\ s.metacog_verdict = "passed_after_max_retries"
         /\ s.retry_count = gs[r].retry_count /\ gs[r].response \in GateFailures
         /\ gs[r].retry_count >= MAX_RETRIES
      \/ /\ ~s.metacog_passed /\ s.metacog_verdict = gs[r].response
         /\ s.retry_count = gs[r].retry_count + 1 /\ gs[r].response \in GateFailures
         /\ ~(gs[r].retry_count >= MAX_RETRIES)
  BY <1>0, <1>2 DEF GraphState
<1>5. /\ route_after_metacog(s) \in {"call_model", "finalize"}
      /\ route_after_metacog(s) = "call_model" =>
           ~s.metacog_passed /\ s.retry_count < RETRY_LIMIT
      /\ route_after_metacog(s) = "finalize" =>
           s.metacog_passed \/ ~(s.retry_count < RETRY_LIMIT)
  BY DEF route_after_metacog
<1>6. TypeOK'
  BY <1>0, <1>1, <1>2, <1>5 DEF TypeOK, Nodes, Items
<1>7. ASSUME NEW p \in Requests
      PROVE  ClassifyInv(p)' /\ CountInv(p)' /\ AnswerInv(p)'
  <2>1. CASE p # r
    BY <1>1, <2>1, OtherRun DEF IInv, RunInv, TypeOK
  <2>2. CASE p = r
    <3>1. /\ pc'[r] = route_after_metacog(s) /\ gs'[r] = s /\ calls'[r] = calls[r]
          /\ input'[r] = input[r] /\ reply'[r] = reply[r]
      BY <1>0, <1>1 DEF TypeOK
    <3>2. gs[r].complexity = "COMPLEX" /\ ~input[r].stream /\ ~gs[r].is_status_query
      BY <1>0, <1>1 DEF should_verify, ClassifyInv, At, Unclassified, GraphState, ComplexityLevel
    <3>3. calls[r] = gs[r].retry_count + 1 /\ calls[r] <= RETRY_LIMIT
          /\ gs[r].retry_count \in Nat /\ gs[r].retry_count <= MAX_RETRIES
      BY <1>0, <1>1 DEF CountInv, At, GraphState
    <3>4. ClassifyInv(r)'
      BY <1>0, <1>1, <1>3, <1>5, <3>1, <3>2 DEF ClassifyInv, At, Unclassified
    <3>5. CountInv(r)'
      BY <1>3, <1>4, <1>5, <3>1, <3>2, <3>3, LimitsAssumption
      DEF CountInv, At, BeforeCall, Unclassified
    <3>6. AnswerInv(r)'
      <4>1. reply[r] # "answer" /\ ~gs[r].error /\ gs[r].response # "no_text"
        BY <1>0, <1>1 DEF AnswerInv, At, should_verify
      <4>2. gs[r].response # "status"
        BY <1>0, <3>2 DEF ClassifyInv
      <4>3. gs[r].usage = calls[r] /\ calls[r] > 0 /\ gs[r].model_name = Endpoint(gs[r])
        BY <1>0, <1>1, <3>2, <4>1 DEF AnswerInv
      <4>4. Endpoint(s) = Endpoint(gs[r])
        BY <1>3 DEF Endpoint, UsesDeepSeek
      <4>5. gs[r].response \in GateFailures \cup {"good"}
        BY <1>0, <4>1, <4>2 DEF GraphState, AnswerKinds
      <4>6. route_after_metacog(s) = "finalize" =>
              \/ s.metacog_verdict = "passed_all_gates" /\ s.response = "good"
              \/ /\ s.metacog_verdict = s.response
                 /\ s.response \in GateFailures
                 /\ calls[r] = RETRY_LIMIT
              \/ /\ s.metacog_verdict = "passed_after_max_retries"
                 /\ s.response \in GateFailures
                 /\ calls[r] = MAX_RETRIES + 1
        BY <1>3, <1>4, <1>5, <3>3, <4>5, LimitsAssumption
      <4>7. QED
        BY <1>3, <1>5, <3>1, <3>2, <4>1, <4>3, <4>4, <4>6
        DEF AnswerInv, At, BeforeCall, Unclassified
    <3>7. QED
      BY <2>2, <3>4, <3>5, <3>6
  <2>3. QED
    BY <2>1, <2>2
<1>8. MemoryProvenance' /\ StoreInv'
  BY <1>0, <1>1, <1>3, <1>5, MemoryKept DEF TypeOK
<1>9. ContextFromOthers'
  BY <1>0, <1>1, <1>3, ContextKept DEF TypeOK
<1>10. QED
  BY <1>6, <1>7, <1>8, <1>9 DEF IInv, RunInv

\* store_memory sends the memory of the latest call, or nothing.
LEMMA StoreMemoryIInv ==
  ASSUME IInv, NEW r \in Requests, store_memory(r)
  PROVE  IInv'
<1>0. /\ TypeOK /\ gs[r] \in GraphState /\ calls[r] \in Nat
      /\ ClassifyInv(r) /\ CountInv(r) /\ AnswerInv(r)
  BY DEF IInv, TypeOK, RunInv
<1>1. /\ pc[r] = "store_memory"
      /\ pc' = [pc EXCEPT ![r] = IF input[r].stream THEN "done"
                                  ELSE should_run_metacog(gs[r])]
      /\ UNCHANGED <<input, gs, reply, memory, calls>>
  BY DEF store_memory, Goto, At
<1>2. /\ should_run_metacog(gs[r]) \in {"metacog", "finalize"}
      /\ should_run_metacog(gs[r]) = "metacog" => should_verify(gs[r])
      /\ should_run_metacog(gs[r]) = "finalize" => ~should_verify(gs[r])
  BY DEF should_run_metacog
<1>3. ASSUME posted' = posted
      PROVE  TypeOK' /\ MemoryProvenance' /\ StoreInv' /\ ContextFromOthers'
  <2>1. TypeOK'
    <3>1. pc' \in [Requests -> Nodes]
      BY <1>0, <1>1, <1>2 DEF TypeOK, Nodes
    <3>2. QED
      BY <1>0, <1>1, <1>3, <3>1 DEF TypeOK, Items
  <2>2. MemoryProvenance' /\ StoreInv'
    BY <1>0, <1>1, <1>3, MemoryKept DEF TypeOK
  <2>3. ContextFromOthers'
    BY <1>1, <1>3, ContextKept
  <2>4. QED
    BY <2>1, <2>2, <2>3
<1>4. ASSUME ShouldStore(gs[r]), posted' = posted \cup {Item(r)}
      PROVE  TypeOK' /\ MemoryProvenance' /\ StoreInv' /\ ContextFromOthers'
  <2>1. /\ gs[r].response \in AnswerKinds /\ gs[r].complexity = "COMPLEX"
        /\ ~input[r].stream /\ calls[r] > 0
    BY <1>0, <1>1, <1>4
    DEF ShouldStore, SkipsMemory, ClassifyInv, CountInv, At, Unclassified, GraphState,
        ComplexityLevel
  <2>2. Item(r) \in Items
    BY <1>0, <2>1 DEF Item, Items
  <2>3. Item(r).req = r /\ Item(r).attempt = calls[r] /\ Item(r).answer = gs[r].response
    BY DEF Item
  <2>4. TypeOK'
    <3>1. pc' \in [Requests -> Nodes]
      BY <1>0, <1>1, <1>2 DEF TypeOK, Nodes
    <3>2. QED
      BY <1>0, <1>1, <1>4, <2>2, <3>1 DEF TypeOK, Items
  <2>5. \A m \in Sent :
          /\ m.req \in Requests /\ m.attempt \in Nat /\ m.attempt \in 1..calls[m.req]
          /\ gs[m.req].complexity = "COMPLEX" /\ ~input[m.req].stream
          /\ \A n \in Sent : n.req = m.req /\ n.attempt = m.attempt => n = m
          /\ m.attempt = calls[m.req] => gs[m.req].response = m.answer
          /\ pc[m.req] = "store_memory" => m.attempt < calls[m.req]
    BY DEF IInv, TypeOK, Items, Sent, MemoryProvenance, StoreInv, At
  <2>6. \A m \in Sent : m.req = r => m.attempt # calls[r]
    BY <1>0, <1>1, <2>5
  <2>11. Sent' = Sent \cup {Item(r)}
    BY <1>1, <1>4 DEF Sent
  <2>7. MemoryProvenance'
    BY <1>0, <1>1, <1>4, <2>1, <2>3, <2>5, <2>6, <2>11 DEF MemoryProvenance
  <2>8. StoreInv'
    <3>1. pc'[r] # "store_memory"
      BY <1>0, <1>1, <1>2 DEF TypeOK
    <3>2. \A p \in Requests : p # r => pc'[p] = pc[p]
      BY <1>0, <1>1 DEF TypeOK
    <3>3. memory \cap posted = {} /\ Item(r) \notin memory
      BY <2>3, <2>6 DEF IInv, StoreInv, Sent
    <3>4. memory' \cap posted' = {}
      BY <1>1, <1>4, <3>3
    <3>5. QED
      BY <1>1, <1>4, <2>3, <2>5, <2>11, <3>1, <3>2, <3>4 DEF StoreInv, At
  <2>9. ContextFromOthers'
    BY <1>1, <1>4, ContextKept
  <2>10. QED
    BY <2>4, <2>7, <2>8, <2>9
<1>5. TypeOK' /\ MemoryProvenance' /\ StoreInv' /\ ContextFromOthers'
  BY <1>3, <1>4 DEF store_memory
<1>6. ASSUME NEW p \in Requests
      PROVE  ClassifyInv(p)' /\ CountInv(p)' /\ AnswerInv(p)'
  <2>1. CASE p # r
    BY <1>1, <2>1, OtherRun DEF IInv, RunInv, TypeOK
  <2>2. CASE p = r
    <3>1. /\ pc'[r] = IF input[r].stream THEN "done" ELSE should_run_metacog(gs[r])
          /\ gs'[r] = gs[r] /\ calls'[r] = calls[r]
          /\ input'[r] = input[r] /\ reply'[r] = reply[r]
      BY <1>0, <1>1 DEF TypeOK
    <3>2. ClassifyInv(r)'
      BY <1>0, <1>1, <1>2, <3>1 DEF ClassifyInv, At, Unclassified, should_verify
    <3>3. CountInv(r)'
      BY <1>0, <1>1, <1>2, <3>1
      DEF CountInv, ClassifyInv, At, BeforeCall, Unclassified, should_verify
    <3>4. should_verify(gs[r])' = should_verify(gs[r]) /\ Endpoint(gs[r])' = Endpoint(gs[r])
      BY <3>1 DEF should_verify, Endpoint, UsesDeepSeek
    <3>5. gs[r].complexity = "COMPLEX" /\ gs[r].response # "no_text" => should_verify(gs[r])
      BY <1>0 DEF should_verify, AnswerInv
    <3>6. gs[r].error => ~should_verify(gs[r])
      BY DEF should_verify
    <3>7. AnswerInv(r)'
      BY <1>0, <1>1, <1>2, <3>1, <3>4, <3>5, <3>6
      DEF AnswerInv, ClassifyInv, At, BeforeCall, Unclassified
    <3>8. QED
      BY <2>2, <3>2, <3>3, <3>7
  <2>3. QED
    BY <2>1, <2>2
<1>7. QED
  BY <1>5, <1>6 DEF IInv, RunInv

\* Mem0 stores what it was sent.
LEMMA AddMemoryIInv ==
  ASSUME IInv, NEW m \in posted, add_memory(m)
  PROVE  IInv'
<1>1. /\ memory' = memory \cup {m} /\ posted' = posted \ {m}
      /\ UNCHANGED <<pc, input, gs, reply, calls>>
  BY DEF add_memory
<1>2. Sent' = Sent /\ memory' \cap posted' = {}
  BY <1>1 DEF Sent, IInv, StoreInv
<1>3. TypeOK'
  BY <1>1 DEF IInv, TypeOK, Items
<1>4. MemoryProvenance' /\ StoreInv'
  BY <1>1, <1>2 DEF IInv, MemoryProvenance, StoreInv, At
<1>5. ContextFromOthers'
  BY <1>1, ContextKept
<1>6. \A p \in Requests : ClassifyInv(p)' /\ CountInv(p)' /\ AnswerInv(p)'
  BY <1>1, OtherRun DEF IInv, RunInv
<1>7. QED
  BY <1>3, <1>4, <1>5, <1>6 DEF IInv, RunInv

\* Every step preserves the inductive invariant.
LEMMA NextIInv == IInv /\ [Next]_vars => IInv'
<1> SUFFICES ASSUME IInv, [Next]_vars PROVE IInv'
  OBVIOUS
<1>1. CASE Next
  <2> SUFFICES ASSUME NEW r \in Requests,
                      chat_completions(r) \/ Step(r) \/ client_disconnect(r)
               PROVE  IInv'
    BY <1>1, AddMemoryIInv DEF Next
  <2>2. CASE chat_completions(r)
    BY <2>2, ChatCompletionsIInv
  <2>3. CASE Step(r)
    BY <2>3, ParseRequestIInv, RetrieveMemoryIInv, SearchMemoryIInv, ClassifyComplexityIInv,
       HandleStatusIInv, RetrieveKnowledgeIInv, CallModelIInv, StreamModelResponseIInv,
       StoreMemoryIInv, MetacogIInv, FinalizeResponseIInv
    DEF Step
  <2>4. CASE client_disconnect(r)
    BY <2>4, ClientDisconnectIInv
  <2>5. QED
    BY <2>2, <2>3, <2>4
<1>2. CASE UNCHANGED vars
  <2>1. \A p \in Requests : ClassifyInv(p)' /\ CountInv(p)' /\ AnswerInv(p)'
    BY <1>2, OtherRun DEF vars, IInv, RunInv
  <2>2. TypeOK' /\ MemoryProvenance' /\ StoreInv' /\ ContextFromOthers'
    BY <1>2 DEF vars, IInv, TypeOK, Sent, MemoryProvenance, StoreInv, ContextFromOthers, At
  <2>3. QED
    BY <2>1, <2>2 DEF IInv, RunInv
<1>3. QED
  BY <1>1, <1>2

\* The inductive invariant holds throughout every behaviour.
THEOREM Inductive == Spec => []IInv
BY InitIInv, NextIInv, PTL DEF Spec

\* Types: in particular only texts a model wrote are ever stored in Mem0.
THEOREM TypeCorrect == Spec => []TypeOK
<1>1. IInv => TypeOK
  BY DEF IInv
<1>2. QED
  BY <1>1, Inductive, PTL

\* No request costs more than RETRY_LIMIT calls, and only verified complex
\* tasks cost more than one, whatever MAX_RETRIES is.
THEOREM RetriesBounded == Spec => []RetryBound
<1>1. IInv => RetryBound
  <2> SUFFICES ASSUME IInv, NEW r \in Requests
               PROVE  /\ calls[r] <= RETRY_LIMIT
                      /\ calls[r] > 1 => gs[r].complexity = "COMPLEX" /\ ~input[r].stream
    BY DEF RetryBound
  <2>1. CountInv(r) /\ calls[r] \in Nat
    BY DEF IInv, RunInv, TypeOK
  <2>2. QED
    BY <2>1 DEF CountInv
<1>2. QED
  BY <1>1, Inductive, PTL

\* Mem0 holds only what a call for a complex, non-streamed task answered.
THEOREM MemoryIsProven == Spec => []MemoryProvenance
<1>1. IInv => MemoryProvenance
  BY DEF IInv
<1>2. QED
  BY <1>1, Inductive, PTL

\* A prompt is never given its own earlier attempts as memories.
THEOREM ContextIsOthers == Spec => []ContextFromOthers
<1>1. IInv => ContextFromOthers
  BY DEF IInv
<1>2. QED
  BY <1>1, Inductive, PTL

\* The verdict of a delivered answer is about that answer.
THEOREM AnswerIsJudged == Spec => []DeliveredAnswerIsJudged
<1>1. IInv => DeliveredAnswerIsJudged
  <2> SUFFICES ASSUME IInv, NEW r \in Requests, reply[r] = "answer"
               PROVE  DeliveredAnswerIsJudged!(r)!2
    BY DEF DeliveredAnswerIsJudged
  <2>1. CountInv(r) /\ AnswerInv(r)
    BY DEF IInv, RunInv
  <2>2. QED
    BY <2>1 DEF CountInv, AnswerInv
<1>2. QED
  BY <1>1, Inductive, PTL

\* A delivered answer is attributed to the call that gave it.
THEOREM AnswerIsAttributed == Spec => []AnswerAttributed
<1>1. IInv => AnswerAttributed
  <2> SUFFICES ASSUME IInv, NEW r \in Requests, reply[r] = "answer"
               PROVE  AnswerAttributed!(r)!2
    BY DEF AnswerAttributed
  <2>1. AnswerInv(r)
    BY DEF IInv, RunInv
  <2>2. QED
    BY <2>1 DEF AnswerInv
<1>2. QED
  BY <1>1, Inductive, PTL
-----------------------------------------------------------------------------
(* What a step may not do, and the promise of ChatService. *)

\* A step on behalf of q leaves the state, the calls and the memories of every
\* other request alone.
LEMMA StepIsLocal ==
  ASSUME TypeOK, NEW q \in Requests, NEW p \in Requests, p # q,
         chat_completions(q) \/ Step(q) \/ client_disconnect(q)
  PROVE  /\ gs'[p] = gs[p] /\ calls'[p] = calls[p]
         /\ \A m : m.req = p => (m \in Sent' <=> m \in Sent)
<1>1. gs'[p] = gs[p] /\ calls'[p] = calls[p]
  BY DEF TypeOK, Step, chat_completions, client_disconnect, parse_request, retrieve_memory,
         search_memory, classify_complexity, handle_status, retrieve_knowledge, call_model,
         stream_model_response, store_memory, metacog, finalize_response
<1>2. Sent' = Sent \/ Sent' = Sent \cup {Item(q)}
  BY DEF Sent, Step, chat_completions, client_disconnect, parse_request, retrieve_memory,
         search_memory, classify_complexity, handle_status, retrieve_knowledge, call_model,
         stream_model_response, store_memory, metacog, finalize_response
<1>3. Item(q).req # p
  BY DEF Item
<1>4. QED
  BY <1>1, <1>2, <1>3

\* A failed run makes no call, sends no memory and stays failed.
THEOREM FailureIsFinal == Spec => FailureEndsTheRun
<1>1. ASSUME IInv, [Next]_vars, NEW r \in Requests, gs[r].error
      PROVE  /\ calls'[r] = calls[r]
             /\ {m \in Sent' : m.req = r} = {m \in Sent : m.req = r}
             /\ gs'[r].error
  <2>1. ASSUME NEW q \in Requests, chat_completions(q) \/ Step(q) \/ client_disconnect(q)
        PROVE  /\ calls'[r] = calls[r]
               /\ \A m : m.req = r => (m \in Sent' <=> m \in Sent)
               /\ gs'[r] = gs[r]
    <3>1. CASE q # r
      <4>1. TypeOK /\ r # q
        BY <1>1, <3>1 DEF IInv
      <4>2. QED
        BY <2>1, <4>1, StepIsLocal
    <3>2. CASE q = r
      <4>1. AnswerInv(r)
        BY <1>1 DEF IInv, RunInv
      <4>2. pc[r] \in {"store_memory", "finalize", "done"}
        BY <1>1, <4>1 DEF AnswerInv
      <4>3. store_memory(r) \/ finalize_response(r) \/ client_disconnect(r)
        BY <2>1, <3>2, <4>2
        DEF Step, chat_completions, parse_request, retrieve_memory,
            search_memory, classify_complexity, handle_status, retrieve_knowledge, call_model,
            stream_model_response, metacog, At
      <4>4. ~ShouldStore(gs[r])
        BY <1>1 DEF ShouldStore
      <4>5. UNCHANGED <<gs, calls, memory, posted>>
        BY <4>3, <4>4 DEF store_memory, finalize_response, client_disconnect
      <4>6. QED
        BY <4>5 DEF Sent
    <3>3. QED
      BY <3>1, <3>2
  <2>2. CASE UNCHANGED vars
    BY <1>1, <2>2 DEF vars, Sent
  <2>3. CASE \E m \in posted : add_memory(m)
    BY <1>1, <2>3 DEF add_memory, Sent
  <2>4. QED
    BY <1>1, <2>1, <2>2, <2>3 DEF Next
<1>2. IInv /\ [Next]_vars =>
        [\A r \in Requests : gs[r].error =>
           /\ calls'[r] = calls[r]
           /\ {m \in Sent' : m.req = r} = {m \in Sent : m.req = r}
           /\ gs'[r].error]_vars
  BY <1>1
<1>3. QED
  BY <1>2, Inductive, PTL DEF Spec, FailureEndsTheRun

phase == [r \in Requests |-> Phase(r)]
sent == {<<m.req, m.attempt>> : m \in Sent}
remembered == {<<m.req, m.attempt>> : m \in memory}

\* How the abstract phase follows the node.
LEMMA PhaseFollows ==
  ASSUME TypeOK, NEW r \in Requests, NEW n \in Nodes \ {"idle"},
         pc' = [pc EXCEPT ![r] = n]
  PROVE  /\ phase \in [Requests -> {"new", "accepted", "answered"}]
         /\ phase[r] = Phase(r)
         /\ phase' = [phase EXCEPT ![r] = IF n = "done" THEN "answered" ELSE "accepted"]
<1>1. \A q \in Requests : q # r => pc'[q] = pc[q]
  BY DEF TypeOK
<1>2. pc'[r] = n
  BY DEF TypeOK
<1>3. QED
  BY <1>1, <1>2 DEF phase, Phase, At

\* Every step of the workflow is a step of ChatService, or changes nothing that
\* ChatService speaks of.
LEMMA StepRefines ==
  ASSUME IInv, IInv', NEW r \in Requests,
         chat_completions(r) \/ Step(r) \/ client_disconnect(r)
  PROVE  Service!Next \/ UNCHANGED <<phase, calls, sent, remembered>>
<1>0. TypeOK /\ calls[r] \in Nat /\ ClassifyInv(r) /\ CountInv(r) /\ CountInv(r)' /\ calls'[r] \in Nat
  BY DEF IInv, TypeOK, RunInv
<1>1. CASE chat_completions(r)
  <2>1. PICK n \in {"done", "parse"} : pc' = [pc EXCEPT ![r] = n]
    BY <1>1 DEF chat_completions, Goto
  <2>2. /\ phase[r] = "new"
        /\ phase' = [phase EXCEPT ![r] = IF n = "done" THEN "answered" ELSE "accepted"]
    BY <1>0, <1>1, <2>1, PhaseFollows DEF chat_completions, Phase, At, Nodes
  <2>3. UNCHANGED <<calls, sent, remembered>>
    BY <1>1 DEF chat_completions, Sent, sent, remembered
  <2>4. Service!Refuse(r) \/ Service!Accept(r)
    BY <2>2, <2>3 DEF Service!Refuse, Service!Accept, phase, Sent, sent, remembered
  <2>5. QED
    BY <2>4 DEF Service!Next
<1>2. CASE call_model(r) \/ stream_model_response(r)
  <2>1. /\ pc[r] = "call_model" /\ UNCHANGED <<memory, posted>>
        /\ calls' = [calls EXCEPT ![r] = calls[r] + 1]
        /\ calls[r] < RETRY_LIMIT
    BY <1>0, <1>2 DEF call_model, stream_model_response, CountInv, At
  <2>2. PICK n \in {"store_memory", "done"} : pc' = [pc EXCEPT ![r] = n]
    BY <1>2 DEF call_model, stream_model_response, Goto
  <2>3. /\ phase[r] = "accepted"
        /\ phase' = [phase EXCEPT ![r] = IF n = "done" THEN "answered" ELSE "accepted"]
        /\ phase \in [Requests -> {"new", "accepted", "answered"}]
    BY <1>0, <2>1, <2>2, PhaseFollows DEF Phase, At, Nodes
  <2>4. n = "store_memory" => phase' = phase
    BY <2>3
  <2>5. Service!Call(r) \/ Service!Answer(r)
    BY <2>1, <2>2, <2>3, <2>4 DEF Service!Call, Service!Answer, phase, Sent, sent, remembered
  <2>6. QED
    BY <2>5 DEF Service!Next
<1>3. CASE store_memory(r)
  <2>1. /\ pc[r] = "store_memory" /\ UNCHANGED <<calls, memory>>
        /\ pc' = [pc EXCEPT ![r] = IF input[r].stream THEN "done"
                                   ELSE should_run_metacog(gs[r])]
    BY <1>3 DEF store_memory, Goto, At
  <2>2. PICK n \in {"done", "metacog", "finalize"} :
          pc' = [pc EXCEPT ![r] = n] /\ (n = "done" <=> input[r].stream)
    BY <2>1 DEF should_run_metacog
  <2>3. /\ phase[r] = "accepted"
        /\ phase' = [phase EXCEPT ![r] = IF n = "done" THEN "answered" ELSE "accepted"]
        /\ phase \in [Requests -> {"new", "accepted", "answered"}]
    BY <1>0, <2>1, <2>2, PhaseFollows DEF Phase, At, Nodes
  <2>4. CASE posted' = posted /\ n = "done"
    <3>1. Service!Answer(r)
      BY <2>1, <2>3, <2>4 DEF Service!Answer, phase, Sent, sent, remembered
    <3>2. QED
      BY <3>1 DEF Service!Next
  <2>5. CASE posted' = posted /\ n # "done"
    BY <2>1, <2>3, <2>5 DEF Sent, sent, remembered
  <2>6. CASE ShouldStore(gs[r]) /\ posted' = posted \cup {Item(r)}
    <3>1. ~input[r].stream /\ n # "done"
      BY <1>0, <2>2, <2>6 DEF ShouldStore, ClassifyInv
    <3>2. calls[r] > 0
      BY <1>0, <2>1, <2>6
      DEF ShouldStore, SkipsMemory, ClassifyInv, CountInv, At, TypeOK, GraphState
    <3>3. Item(r).req = r /\ Item(r).attempt = calls[r]
      BY DEF Item
    <3>4. <<r, calls[r]>> \notin sent
      <4>1. \A m \in Sent : m.req = r => m.attempt < calls[r] /\ m.attempt \in Nat
        BY <2>1 DEF IInv, StoreInv, TypeOK, Items, Sent, At
      <4>2. QED
        BY <1>0, <4>1 DEF sent
    <3>5. sent' = sent \cup {<<r, calls[r]>>} /\ remembered' = remembered
      <4>1. Sent' = Sent \cup {Item(r)}
        BY <2>1, <2>6 DEF Sent
      <4>2. QED
        BY <2>1, <3>3, <4>1 DEF sent, remembered
    <3>6. phase' = phase
      BY <2>3, <3>1
    <3>7. Service!Send(r)
      BY <2>1, <2>3, <3>2, <3>4, <3>5, <3>6 DEF Service!Send, phase, Sent, sent, remembered
    <3>8. QED
      BY <3>7 DEF Service!Next
  <2>7. QED
    BY <1>3, <2>4, <2>5, <2>6 DEF store_memory
<1>4. CASE finalize_response(r) \/ client_disconnect(r)
  <2>1. /\ pc[r] \notin {"idle", "done"} /\ UNCHANGED <<calls, memory, posted>>
        /\ pc' = [pc EXCEPT ![r] = "done"]
    BY <1>4 DEF finalize_response, client_disconnect, At, Goto
  <2>2. phase[r] = "accepted" /\ phase' = [phase EXCEPT ![r] = "answered"]
    BY <1>0, <2>1, PhaseFollows DEF Phase, At, Nodes
  <2>3. Service!Answer(r)
    BY <2>1, <2>2 DEF Service!Answer, phase, Sent, sent, remembered
  <2>4. QED
    BY <2>3 DEF Service!Next
<1>5. CASE \/ parse_request(r) \/ retrieve_memory(r) \/ search_memory(r)
           \/ classify_complexity(r) \/ handle_status(r) \/ retrieve_knowledge(r)
           \/ metacog(r)
  <2>1. /\ pc[r] \notin {"idle", "done"} /\ UNCHANGED <<calls, memory, posted>>
    BY <1>5
    DEF parse_request, retrieve_memory, search_memory, classify_complexity, handle_status,
        retrieve_knowledge, metacog, At
  <2>2. PICK n \in Nodes \ {"idle", "done"} : pc' = [pc EXCEPT ![r] = n]
    BY <1>5
    DEF parse_request, retrieve_memory, search_memory, classify_complexity, handle_status,
        retrieve_knowledge, metacog, Goto, Nodes, should_use_memory, route_after_metacog
  <2>3. /\ phase[r] = "accepted" /\ phase' = [phase EXCEPT ![r] = "accepted"]
        /\ phase \in [Requests -> {"new", "accepted", "answered"}]
    BY <1>0, <2>1, <2>2, PhaseFollows DEF Phase, At
  <2>4. QED
    BY <2>1, <2>3 DEF Sent, sent, remembered
<1>6. QED
  BY <1>1, <1>2, <1>3, <1>4, <1>5 DEF Step

\* What Mem0 stores was sent to it, once.
LEMMA AddMemoryRefines ==
  ASSUME IInv, NEW m \in posted, add_memory(m)
  PROVE  Service!Next
<1> DEFINE c == <<m.req, m.attempt>>
<1>1. /\ memory' = memory \cup {m} /\ Sent' = Sent
      /\ phase' = phase /\ calls' = calls
  BY DEF add_memory, Sent, phase, Phase, At
<1>2. m \in Sent /\ m \notin memory
  BY DEF Sent, IInv, StoreInv
<1>3. c \in sent
  BY <1>2 DEF sent
<1>4. c \notin remembered
  <2>1. \A n \in memory : n.req = m.req /\ n.attempt = m.attempt => n = m
    BY <1>2 DEF IInv, MemoryProvenance, Sent
  <2>2. QED
    BY <1>2, <2>1 DEF remembered
<1>5. remembered' = remembered \cup {c} /\ sent' = sent
  BY <1>1 DEF remembered, sent
<1>6. Service!Remember(c)
  BY <1>1, <1>3, <1>4, <1>5 DEF Service!Remember, phase, sent, remembered
<1>7. QED
  BY <1>3, <1>6 DEF Service!Next, sent

\* The workflow implements ChatService.
THEOREM GraphImplementsChatService == Spec => ImplementsChatService
<1>1. Init => Service!Init
  BY DEF Init, Service!Init, Phase, At, Sent
<1>2. IInv /\ IInv' /\ [Next]_vars => [Service!Next]_(Service!vars)
  <2> SUFFICES ASSUME IInv, IInv', [Next]_vars
               PROVE  Service!Next \/ UNCHANGED Service!vars
    OBVIOUS
  <2>1. Service!vars = <<phase, calls, sent, remembered>>
        /\ Service!vars' = <<phase, calls, sent, remembered>>'
    BY DEF Service!vars, phase, sent, remembered
  <2>2. CASE Next
    BY <2>1, <2>2, StepRefines, AddMemoryRefines DEF Next
  <2>3. CASE UNCHANGED vars
    BY <2>1, <2>3 DEF vars, phase, Phase, At, Sent, sent, remembered
  <2>4. QED
    BY <2>2, <2>3
<1>3. QED
  BY <1>1, <1>2, Inductive, PTL DEF Spec, ImplementsChatService, Service!SafeSpec
=============================================================================
