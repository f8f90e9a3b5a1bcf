------------------------------ MODULE CodeGraph ------------------------------
(***************************************************************************)
(* The code graph in Memgraph: scripts/index_code.py parses source files   *)
(* and merges their symbols statement by statement, each a transaction of  *)
(* its own; knowledge/memgraph_client.py asks for them at any time.  Runs  *)
(* of the indexer may overlap, die between two statements or lose the last *)
(* one; sources come, change and go meanwhile.  Nothing is ever deleted    *)
(* from the graph.                                                         *)
(***************************************************************************)
EXTENDS Naturals, Sequences, FiniteSets

CONSTANTS Files,     \* where a source file may be: paths without suffix, as sequences of names
          Targets,   \* what the indexer is called on: directories and files
          Texts,     \* what may be in a file, see IsText
          Runs,      \* runs of the indexer
          MAX_EDITS  \* bound: a file is edited so often

\* The definitions that CodeVisitor finds in a text.  "valid": there is a file, and
\* it parses; the indexer treats one that does not as if it were not there.
IsText(x) ==
  /\ x.valid \in BOOLEAN
  /\ \A i \in x.imports : DOMAIN i = {"qualified_name", "module"}
  /\ x.classes \subseteq STRING
  /\ \A m \in x.methods : m[1] \in x.classes

ASSUME FilesAssumption ==
  Files \subseteq Seq(STRING) /\ Targets \subseteq Seq(STRING) \ {<<>>}
ASSUME TextsAssumption == \A x \in Texts : IsText(x)
ASSUME BoundAssumption == MAX_EDITS \in Nat

\* Nodes are known by their label and path or qualified name.
Labels == {"File", "Class", "Function", "Import"}
File(f) == <<"File", f>>
Class(q) == <<"Class", q>>
Function(q) == <<"Function", q>>
Import(q) == <<"Import", q>>
NoNode == <<"none", <<>> >>

VARIABLES source,   \* the text of each file
          edition,  \* how often it was edited: what tells a signature from an older one
          nodes,    \* the nodes of the graph, with the edition that a symbol was read
                    \* from, or the module of an import
          edges,    \* its relationships: from, type, to
          pc,       \* whether a run is new, running, done ("Indexing complete"), has
                    \* failed, or has printed its statements instead
          target,   \* what it was called on
          parsed,   \* the files it has parsed, with text and edition
          todo,     \* its statements still to be executed
          lost,     \* (history) the last statement of a run, if it failed
          alone,    \* (history) no other run and no edit since it started
          had       \* (history) the texts that each file ever had

vars == <<source, edition, nodes, edges, pc, target, parsed, todo, lost, alone, had>>

Init ==
  /\ source \in [Files -> Texts]
  /\ edition = [f \in Files |-> 0]
  /\ nodes = [k \in {} |-> {}]
  /\ edges = {}
  /\ pc = [r \in Runs |-> "new"]
  /\ target = [r \in Runs |-> <<>>]
  /\ parsed = [r \in Runs |-> [f \in {} |-> [text |-> {}, edition |-> 0]]]
  /\ todo = [r \in Runs |-> {}]
  /\ lost = [r \in Runs |-> {}]
  /\ alone = [r \in Runs |-> FALSE]
  /\ had = [f \in Files |-> {source[f]}]
-----------------------------------------------------------------------------
Under(f, t) == Len(t) <= Len(f) /\ SubSeq(f, 1, Len(t)) = t

\* (variant) a module is named by its file alone
PrefixStem(t, f) == SubSeq(f, Len(f), Len(f))

\* The module's name: the path from the target's parent on, so that a file has
\* another name when it is indexed by itself.
Prefix(t, f) == SubSeq(f, Len(t), Len(f))

\* The symbols of a text, as nodes.
Symbols(t, f, x) ==
  {Class(Prefix(t, f) \o <<c>>) : c \in x.classes} \cup
  {Function(Prefix(t, f) \o m) : m \in x.methods} \cup
  {Function(Prefix(t, f) \o <<g>>) : g \in x.functions}

\* The statements for a file: each merges a node and links it to its owner.
Statements(t, f, x, e) ==
  LET statement(node, attr, owner) == [file |-> f, node |-> node, attr |-> attr, owner |-> owner]
      read == [file |-> f, edition |-> e]
      class(c) == Class(Prefix(t, f) \o <<c>>)
  IN {statement(File(f), read, NoNode)} \cup
     {statement(Import(i.qualified_name), i.module, File(f)) : i \in x.imports} \cup
     {statement(class(c), read, File(f)) : c \in x.classes} \cup
     {statement(Function(Prefix(t, f) \o m), read, class(m[1])) : m \in x.methods} \cup
     {statement(Function(Prefix(t, f) \o <<g>>), read, File(f)) : g \in x.functions}

PlanOf(t, files) ==
  UNION {Statements(t, f, files[f].text, files[f].edition) : f \in DOMAIN files}
Plan(r) == PlanOf(target[r], parsed[r])

\* main: all files are parsed before the first is written, those that do not parse
\* are left out.
start(r, t) ==
  LET files == [f \in {g \in Files : Under(g, t) /\ source[g].valid} |->
                  [text |-> source[f], edition |-> edition[f]]]
      plan == PlanOf(t, files)
  IN /\ pc[r] = "new"
     /\ target' = [target EXCEPT ![r] = t]
     /\ parsed' = [parsed EXCEPT ![r] = files]
     /\ todo' = [todo EXCEPT ![r] = plan]
     /\ pc' = [pc EXCEPT ![r] = IF plan = {} THEN "done" ELSE "running"]
     /\ alone' = [x \in Runs |-> x = r /\ \A y \in Runs : pc[y] # "running"]
     /\ UNCHANGED <<source, edition, nodes, edges, lost, had>>

\* main, with --output or without the driver: the graph is left alone.
print_cypher(r) ==
  /\ pc[r] = "new"
  /\ pc' = [pc EXCEPT ![r] = "printed"]
  /\ UNCHANGED <<source, edition, nodes, edges, target, parsed, todo, lost, alone, had>>

\* The order of index_to_memgraph: one file after the other, and of a file its node,
\* its imports, its classes, each before its methods, and its functions.
Section(s) ==
  CASE s.node[1] = "File" -> 0
    [] s.node[1] = "Import" -> 1
    [] s.node[1] = "Class" \/ s.owner[1] = "Class" -> 2
    [] OTHER -> 3

Started(r, f) == \E s \in Plan(r) : s.file = f /\ s \notin todo[r]

\* (variant) the functions of a file come in any order, methods before their class
ReadyUnordered(r, s) == \A u \in todo[r] : u.file = s.file => s.node[1] = "Function" \/ Section(s) <= Section(u)

Ready(r, s) ==
  /\ \A u \in todo[r] : u.file = s.file => Section(s) <= Section(u) /\ s.owner # u.node
  /\ \A u \in todo[r] : u.file # s.file => ~Started(r, u.file)

\* (variant) what is there is left as it is
MergedOnce(node, attr) ==
  [k \in DOMAIN nodes \cup {node} |-> IF k \in DOMAIN nodes THEN nodes[k] ELSE attr]

\* (variant) the file that a symbol was read from is dropped
MergedBare(node, attr) ==
  [k \in DOMAIN nodes \cup {node} |->
     IF k # node THEN nodes[k]
     ELSE IF node[1] = "Import" THEN attr ELSE [edition |-> attr.edition]]

\* MERGE with SET: the node is created, or its attributes are overwritten.
Merged(node, attr) ==
  [k \in DOMAIN nodes \cup {node} |-> IF k = node THEN attr ELSE nodes[k]]

\* (variant) only what is new is linked
LinksNew(s) ==
  IF s.owner \in DOMAIN nodes /\ s.node \notin DOMAIN nodes
  THEN {<<s.owner, IF s.node[1] = "Import" THEN "IMPORTS" ELSE "CONTAINS", s.node>>} ELSE {}

\* MATCH the owner and MERGE the relationship; no owner, no relationship.
Links(s) ==
  IF s.owner \in DOMAIN nodes
  THEN {<<s.owner, IF s.node[1] = "Import" THEN "IMPORTS" ELSE "CONTAINS", s.node>>} ELSE {}

\* index_to_memgraph: the next statement.
index_to_memgraph(r) ==
  /\ pc[r] = "running"
  /\ \E s \in todo[r] :
       /\ Ready(r, s)
       /\ nodes' = Merged(s.node, s.attr)
       /\ edges' = edges \cup Links(s)
       /\ todo' = [todo EXCEPT ![r] = @ \ {s}]
       /\ pc' = [pc EXCEPT ![r] = IF todo[r] = {s} THEN "done" ELSE "running"]
  /\ UNCHANGED <<source, edition, target, parsed, lost, alone, had>>

\* The process dies; or a statement fails, and as no result is read, the next
\* session.run raises its error.
fail(r) ==
  /\ pc[r] = "running"
  /\ pc' = [pc EXCEPT ![r] = "failed"]
  /\ todo' = [todo EXCEPT ![r] = {}]
  /\ UNCHANGED <<source, edition, nodes, edges, target, parsed, lost, alone, had>>

\* The last statement fails: there is no next one, the session swallows the error
\* when it closes, and the run is as complete as any.
last_fails(r) ==
  /\ pc[r] = "running" /\ \E s \in todo[r] : todo[r] = {s}
  /\ pc' = [pc EXCEPT ![r] = "done"]
  /\ lost' = [lost EXCEPT ![r] = todo[r]]
  /\ todo' = [todo EXCEPT ![r] = {}]
  /\ UNCHANGED <<source, edition, nodes, edges, target, parsed, alone, had>>

\* Somebody writes, changes or deletes a file; one that is moved is deleted here and
\* written there.
edit(f, x) ==
  /\ edition[f] < MAX_EDITS /\ x # source[f]
  /\ source' = [source EXCEPT ![f] = x]
  /\ edition' = [edition EXCEPT ![f] = @ + 1]
  /\ had' = [had EXCEPT ![f] = @ \cup {x}]
  /\ alone' = [r \in Runs |-> FALSE]
  /\ UNCHANGED <<nodes, edges, pc, target, parsed, todo, lost>>

Next ==
  \/ \E r \in Runs : \/ \E t \in Targets : start(r, t)
                    \/ print_cypher(r)
                    \/ index_to_memgraph(r)
                    \/ fail(r)
                    \/ last_fails(r)
  \/ \E f \in Files, x \in Texts : edit(f, x)

Spec == Init /\ [][Next]_vars
-----------------------------------------------------------------------------
\* The queries of MemgraphClient; one that fails is answered by nothing.
Contained(k) == {e[3] : e \in {d \in edges : d[1] = k /\ d[2] = "CONTAINS"}}

get_file_symbols(f) ==
  Contained(File(f)) \cup
  UNION {{m \in Contained(c) : m[1] = "Function"} : c \in {k \in Contained(File(f)) : k[1] = "Class"}}

\* The rows of find_symbol: the symbols of that name with each file that they are in,
\* or with none; the search within names is abstracted to whole names.
find_symbol(name) ==
  LET found == {k \in DOMAIN nodes : k[1] \in {"Class", "Function"} /\ k[2][Len(k[2])] = name}
      paths(k) == {f \in Files : k \in get_file_symbols(f)}
  IN UNION {{<<k, p>> : p \in IF paths(k) = {} THEN {<<>>} ELSE paths(k)} : k \in found}

\* The answers of get_code_context: of the rows for the names in a query, the first of
\* each qualified name, in any order of the rows.
get_code_context(names) ==
  LET rows == UNION {find_symbol(n) : n \in names}
  IN {answer \in SUBSET rows :
        \A row \in rows : \E a \in answer : {b \in answer : b[1][2] = row[1][2]} = {a}}

get_dependencies(f) ==
  {nodes[e[3]] : e \in {d \in edges : d[1] = File(f) /\ d[2] = "IMPORTS"}}
-----------------------------------------------------------------------------
Reads == [file : Files, edition : Nat]

TypeOK ==
  /\ source \in [Files -> Texts]
  /\ edition \in [Files -> Nat]
  /\ \A k \in DOMAIN nodes :
       k[1] \in Labels /\ (k[1] # "Import" => nodes[k] \in Reads)
  /\ \A e \in edges : e[1] \in DOMAIN nodes /\ e[2] \in {"CONTAINS", "IMPORTS"} /\ e[3] \in DOMAIN nodes
  /\ pc \in [Runs -> {"new", "running", "done", "failed", "printed"}]
  /\ target \in [Runs -> Targets \cup {<<>>}]
  /\ DOMAIN parsed = Runs /\ DOMAIN todo = Runs /\ DOMAIN lost = Runs
  /\ \A r \in Runs :
       /\ DOMAIN parsed[r] \subseteq Files
       /\ parsed[r] \in [DOMAIN parsed[r] -> [text : Texts, edition : Nat]]
       /\ todo[r] \subseteq Plan(r) /\ lost[r] \subseteq Plan(r)
  /\ alone \in [Runs -> BOOLEAN]
  /\ had \in [Files -> SUBSET Texts]

\* No symbol is ever without a file, whatever runs overlap or die half-way: every row
\* of find_symbol names a file that was indexed (which may be gone by now).
Anchored ==
  \A k \in DOMAIN nodes : k[1] \in {"Class", "Function"} =>
    \E f \in Files : File(f) \in DOMAIN nodes /\ k \in get_file_symbols(f)

\* What a completed run has failed to write for a file: at most its last statement.
Lost(r, f) == {s.node : s \in {u \in lost[r] : u.file = f}}

\* Whatever a completed run has parsed can be found, but for what its last statement
\* was to write, even if other runs overlapped it or died: a retry makes good for any
\* failure before it.
IndexedIsPresent ==
  \A r \in Runs : pc[r] = "done" =>
    \A f \in DOMAIN parsed[r] :
      /\ Symbols(target[r], f, parsed[r][f].text) \ Lost(r, f) \subseteq get_file_symbols(f)
      /\ \A i \in parsed[r][f].text.imports :
           \/ Import(i.qualified_name) \in Lost(r, f)
           \/ <<File(f), "IMPORTS", Import(i.qualified_name)>> \in edges

\* After a completed run that was alone what it was called on is current, but for its
\* last statement if that failed: each symbol is known by the signature in the present
\* text of a file that defines it.
AloneIsCurrent ==
  \A r \in Runs : pc[r] = "done" /\ alone[r] =>
    \A f \in DOMAIN parsed[r] : \A k \in Symbols(target[r], f, source[f]) \ Lost(r, f) :
      \E g \in DOMAIN parsed[r] :
        k \in Symbols(target[r], g, source[g]) /\ nodes[k] = [file |-> g, edition |-> edition[g]]

\* A file is never credited with a symbol that it never had, except for the methods of
\* a class that has the same qualified name in another file, seen from another target.
Mistaken(f, k) ==
  \E g \in Files, r, s \in Runs :
    /\ g # f /\ target[r] # target[s]
    /\ f \in DOMAIN parsed[r] /\ g \in DOMAIN parsed[s]
    /\ Prefix(target[r], f) = Prefix(target[s], g)
    /\ \E x \in had[g] : \E m \in x.methods : k = Function(Prefix(target[s], g) \o m)
OwnSymbols ==
  \A f \in Files : \A k \in get_file_symbols(f) :
    (\E t \in Targets, x \in had[f] : Under(f, t) /\ k \in Symbols(t, f, x)) \/ Mistaken(f, k)
=============================================================================
