--------------------------- MODULE CodeGraphProofs ---------------------------
(***************************************************************************)
(* What the code graph promises to those who query it, for every set of    *)
(* files, texts and targets and every number of overlapping runs.  The     *)
(* argument: a plan contains the owner of all that it contains (PlanShape),*)
(* and the order of its statements puts the owner first (ReadyOwner); so a *)
(* statement that was executed has left its node and its link              *)
(* (ExecutedInv), which nothing takes away again.  A link is one that some *)
(* run had to make (LinksInv), and under one target no two modules have    *)
(* one name (PrefixInjective): so a symbol is in the file it was read from.*)
(***************************************************************************)
EXTENDS CodeGraph, SequenceTheorems, TLAPS

Link(s) == <<s.owner, IF s.node[1] = "Import" THEN "IMPORTS" ELSE "CONTAINS", s.node>>

\* A statement that a live run has executed has left its node and its link.
Executed(r) == Plan(r) \ (todo[r] \cup lost[r])
Written(s) == s.node \in DOMAIN nodes /\ (s.owner # NoNode => Link(s) \in edges)
ExecutedInv == \A r \in Runs : pc[r] # "failed" => \A s \in Executed(r) : Written(s)

\* So has the statement that its owner has in the plan, which was never lost.
OwnerInv ==
  \A r \in Runs : pc[r] # "failed" =>
    \A s \in Executed(r), u \in Plan(r) : u.file = s.file /\ u.node = s.owner => Written(u)

DoneInv ==
  \A r \in Runs : /\ pc[r] = "done" => todo[r] = {}
                  /\ pc[r] # "done" => lost[r] = {}

\* A run that is alone has read what is there, and what it wrote is as it left it.
AloneInv ==
  \A r \in Runs : alone[r] =>
    /\ \A y \in Runs \ {r} : pc[y] # "running"
    /\ \A f \in DOMAIN parsed[r] :
         parsed[r][f].text = source[f] /\ parsed[r][f].edition = edition[f]
    /\ pc[r] # "failed" =>
         \A s \in Executed(r) : s.node[1] # "Import" =>
           \E u \in Plan(r) : u.node = s.node /\ nodes[s.node] = u.attr

IInv == TypeOK /\ ExecutedInv /\ OwnerInv /\ DoneInv /\ AloneInv /\ Anchored
-----------------------------------------------------------------------------
\* What a statement may be: of its file, with an owner that is its file or a class
\* that has a statement of its own.
Shape(P, s) ==
  /\ s.node[1] \in Labels
  /\ s.node[1] = "File" => s.node = File(s.file) /\ s.owner = NoNode
  /\ s.node[1] # "File" =>
       \E u \in P : /\ u.file = s.file /\ u.node = s.owner /\ s.owner # NoNode
                    /\ \/ s.owner = File(s.file)
                       \/ s.owner[1] = "Class" /\ s.node[1] = "Function"

LEMMA NodeLabels ==
  \A q : /\ File(q)[1] = "File" /\ Class(q)[1] = "Class"
         /\ Function(q)[1] = "Function" /\ Import(q)[1] = "Import"
         /\ File(q) # NoNode /\ Class(q) # NoNode
PROOF BY DEF File, Class, Function, Import, NoNode

\* Nodes of two kinds differ, and a file's node tells the file.
LEMMA NodesDiffer ==
  /\ NoNode[1] = "none"
  /\ \A p, q : (File(p) = File(q) => p = q) /\ File(p) # Class(q)
PROOF
<1>1. \A p, q : File(p)[2] = p /\ File(p)[1] # Class(q)[1]
  BY DEF File, Class
<1> QED BY <1>1 DEF NoNode

LEMMA StatementShape ==
  ASSUME NEW t, NEW f, NEW x, IsText(x), NEW e, NEW s \in Statements(t, f, x, e)
  PROVE  /\ s.file = f
         /\ s.node[1] # "Import" => s.attr = [file |-> f, edition |-> e]
         /\ Shape(Statements(t, f, x, e), s)
         /\ s.node[1] \in {"Class", "Function"} => s.node \in Symbols(t, f, x)
PROOF
<1> DEFINE class(c) == Class(Prefix(t, f) \o <<c>>)
           stmt(node, attr, owner) == [file |-> f, node |-> node, attr |-> attr, owner |-> owner]
           read == [file |-> f, edition |-> e]
           P == Statements(t, f, x, e)
<1>1. stmt(File(f), read, NoNode) \in P
  BY DEF Statements
<1>2. \A c \in x.classes : stmt(class(c), read, File(f)) \in P
  BY DEF Statements
<1>3. CASE s = stmt(File(f), read, NoNode)
  BY <1>3, NodeLabels DEF Shape, Labels
<1>4. CASE \E i \in x.imports : s = stmt(Import(i.qualified_name), i.module, File(f))
  <2>1. PICK i \in x.imports : s = stmt(Import(i.qualified_name), i.module, File(f))
    BY <1>4
  <2>2. Shape(P, s)
    <3> DEFINE u == stmt(File(f), read, NoNode)
    <3>1. u.file = s.file /\ u.node = s.owner /\ s.owner = File(s.file)
      BY <2>1
    <3>2. s.node[1] = "Import" /\ s.owner # NoNode
      BY <2>1, NodeLabels
    <3> QED BY <1>1, <3>1, <3>2 DEF Shape, Labels
  <2> QED BY <2>1, <2>2, NodeLabels
<1>5. CASE \E c \in x.classes : s = stmt(class(c), read, File(f))
  <2>1. PICK c \in x.classes : s = stmt(class(c), read, File(f))
    BY <1>5
  <2>2. s.node[1] = "Class" /\ s.node \in Symbols(t, f, x)
    BY <2>1, NodeLabels DEF Symbols
  <2>3. Shape(P, s)
    <3> DEFINE u == stmt(File(f), read, NoNode)
    <3>1. u.file = s.file /\ u.node = s.owner /\ s.owner = File(s.file) /\ s.owner # NoNode
      BY <2>1, NodeLabels
    <3> QED BY <1>1, <2>2, <3>1 DEF Shape, Labels
  <2> QED BY <2>1, <2>2, <2>3
<1>6. CASE \E m \in x.methods : s = stmt(Function(Prefix(t, f) \o m), read, class(m[1]))
  <2>1. PICK m \in x.methods : s = stmt(Function(Prefix(t, f) \o m), read, class(m[1]))
    BY <1>6
  <2>2. s.node[1] = "Function" /\ s.node \in Symbols(t, f, x)
    BY <2>1, NodeLabels DEF Symbols
  <2>3. Shape(P, s)
    <3> DEFINE u == stmt(class(m[1]), read, File(f))
    <3>1. u \in P
      BY <1>2, <2>1 DEF IsText
    <3>2. u.file = s.file /\ u.node = s.owner /\ s.owner[1] = "Class" /\ s.owner # NoNode
      BY <2>1, NodeLabels
    <3> QED BY <2>2, <3>1, <3>2 DEF Shape, Labels
  <2> QED BY <2>1, <2>2, <2>3
<1>7. CASE \E g \in x.functions : s = stmt(Function(Prefix(t, f) \o <<g>>), read, File(f))
  <2>1. PICK g \in x.functions : s = stmt(Function(Prefix(t, f) \o <<g>>), read, File(f))
    BY <1>7
  <2>2. s.node[1] = "Function" /\ s.node \in Symbols(t, f, x)
    BY <2>1, NodeLabels DEF Symbols
  <2>3. Shape(P, s)
    <3> DEFINE u == stmt(File(f), read, NoNode)
    <3>1. u.file = s.file /\ u.node = s.owner /\ s.owner = File(s.file) /\ s.owner # NoNode
      BY <2>1, NodeLabels
    <3> QED BY <1>1, <2>2, <3>1 DEF Shape, Labels
  <2> QED BY <2>1, <2>2, <2>3
<1> QED BY <1>3, <1>4, <1>5, <1>6, <1>7 DEF Statements

\* All that a text holds has its statement.
LEMMA StatementsCover ==
  ASSUME NEW t, NEW f, NEW x, NEW e
  PROVE  /\ \A k \in Symbols(t, f, x) : \E s \in Statements(t, f, x, e) : s.node = k
         /\ \A i \in x.imports : \E s \in Statements(t, f, x, e) :
              s.node = Import(i.qualified_name) /\ s.owner = File(f)
PROOF
<1> DEFINE class(c) == Class(Prefix(t, f) \o <<c>>)
           stmt(node, attr, owner) == [file |-> f, node |-> node, attr |-> attr, owner |-> owner]
           read == [file |-> f, edition |-> e]
           P == Statements(t, f, x, e)
<1>1. \A node, attr, owner : stmt(node, attr, owner).node = node /\ stmt(node, attr, owner).owner = owner
  OBVIOUS
<1>2. \A i \in x.imports : stmt(Import(i.qualified_name), i.module, File(f)) \in P
  BY DEF Statements
<1>3. \A c \in x.classes : stmt(class(c), read, File(f)) \in P
  BY DEF Statements
<1>4. \A m \in x.methods : stmt(Function(Prefix(t, f) \o m), read, class(m[1])) \in P
  BY DEF Statements
<1>5. \A g \in x.functions : stmt(Function(Prefix(t, f) \o <<g>>), read, File(f)) \in P
  BY DEF Statements
<1> HIDE DEF stmt, class, P
<1>6. ASSUME NEW k \in Symbols(t, f, x) PROVE \E s \in P : s.node = k
  <2>1. CASE \E c \in x.classes : k = class(c)
    BY <2>1, <1>1, <1>3
  <2>2. CASE \E m \in x.methods : k = Function(Prefix(t, f) \o m)
    BY <2>2, <1>1, <1>4
  <2>3. CASE \E g \in x.functions : k = Function(Prefix(t, f) \o <<g>>)
    BY <2>3, <1>1, <1>5
  <2> QED BY <2>1, <2>2, <2>3 DEF Symbols, class
<1>7. ASSUME NEW i \in x.imports
      PROVE  \E s \in P : s.node = Import(i.qualified_name) /\ s.owner = File(f)
  BY <1>1, <1>2
<1> QED BY <1>6, <1>7 DEF P

\* All statements of a plan are well shaped, and speak of what the run has read.
LEMMA PlanShape ==
  ASSUME TypeOK, NEW r \in Runs, NEW s \in Plan(r)
  PROVE  /\ s.file \in DOMAIN parsed[r] /\ s.file \in Files
         /\ Shape(Plan(r), s)
         /\ s.node[1] # "Import" =>
              /\ s.attr = [file |-> s.file, edition |-> parsed[r][s.file].edition]
              /\ s.attr \in Reads
         /\ s.node[1] \in {"Class", "Function"} =>
              s.node \in Symbols(target[r], s.file, parsed[r][s.file].text)
PROOF
<1>1. PICK f \in DOMAIN parsed[r] :
        s \in Statements(target[r], f, parsed[r][f].text, parsed[r][f].edition)
  BY DEF Plan, PlanOf
<1> DEFINE P == Statements(target[r], f, parsed[r][f].text, parsed[r][f].edition)
<1>2. parsed[r][f] \in [text : Texts, edition : Nat] /\ f \in Files
  BY <1>1 DEF TypeOK
<1>3. IsText(parsed[r][f].text)
  BY <1>2, TextsAssumption
<1>4. /\ s.file = f
      /\ s.node[1] # "Import" => s.attr = [file |-> f, edition |-> parsed[r][f].edition]
      /\ Shape(P, s)
      /\ s.node[1] \in {"Class", "Function"} => s.node \in Symbols(target[r], f, parsed[r][f].text)
  BY <1>1, <1>3, StatementShape
<1>5. P \subseteq Plan(r)
  BY <1>1 DEF Plan, PlanOf
<1>6. Shape(Plan(r), s)
  BY <1>4, <1>5 DEF Shape
<1> QED BY <1>1, <1>2, <1>4, <1>6 DEF Reads

\* A plan covers all that was read.
LEMMA PlanCovers ==
  ASSUME TypeOK, NEW r \in Runs, NEW f \in DOMAIN parsed[r]
  PROVE  /\ \A k \in Symbols(target[r], f, parsed[r][f].text) :
              \E s \in Plan(r) : s.node = k /\ s.file = f
         /\ \A i \in parsed[r][f].text.imports : \E s \in Plan(r) :
              s.node = Import(i.qualified_name) /\ s.owner = File(f) /\ s.file = f
PROOF
<1> DEFINE P == Statements(target[r], f, parsed[r][f].text, parsed[r][f].edition)
<1>1. P \subseteq Plan(r)
  BY DEF Plan, PlanOf
<1>2. IsText(parsed[r][f].text)
  BY TextsAssumption DEF TypeOK
<1>3. ASSUME NEW s \in P PROVE s.file = f
  <2>1. /\ s.file = f
        /\ s.node[1] # "Import" => s.attr = [file |-> f, edition |-> parsed[r][f].edition]
        /\ Shape(P, s)
        /\ s.node[1] \in {"Class", "Function"} => s.node \in Symbols(target[r], f, parsed[r][f].text)
    BY <1>2, StatementShape
  <2> QED BY <2>1
<1>4. ASSUME NEW k \in Symbols(target[r], f, parsed[r][f].text)
      PROVE  \E s \in Plan(r) : s.node = k /\ s.file = f
  <2>1. PICK s \in P : s.node = k
    BY <1>4, StatementsCover
  <2> QED BY <2>1, <1>1, <1>3
<1>5. ASSUME NEW i \in parsed[r][f].text.imports
      PROVE  \E s \in Plan(r) :
               s.node = Import(i.qualified_name) /\ s.owner = File(f) /\ s.file = f
  <2>1. PICK s \in P : s.node = Import(i.qualified_name) /\ s.owner = File(f)
    BY <1>5, StatementsCover
  <2> QED BY <2>1, <1>1, <1>3
<1> QED BY <1>4, <1>5

\* The order of the statements puts an owner before what it owns.
LEMMA ReadyOwner ==
  ASSUME TypeOK, ExecutedInv, DoneInv, NEW r \in Runs, pc[r] = "running",
         NEW s \in todo[r], Ready(r, s), s.owner # NoNode
  PROVE  s.owner \in DOMAIN nodes
PROOF
<1>1. s \in Plan(r)
  BY DEF TypeOK
<1>2. s.node[1] # "File"
  BY <1>1, PlanShape DEF Shape
<1>3. PICK u \in Plan(r) : u.file = s.file /\ u.node = s.owner
  BY <1>1, <1>2, PlanShape DEF Shape
<1>4. u \in Executed(r)
  BY <1>3 DEF Ready, DoneInv, Executed
<1> QED BY <1>3, <1>4 DEF ExecutedInv, Written

\* What was written stays written.
LEMMA WrittenRemains ==
  ASSUME DOMAIN nodes \subseteq DOMAIN nodes', edges \subseteq edges', NEW s, Written(s)
  PROVE  Written(s)'
PROOF BY DEF Written, Link

\* What was in the graph remains there.
LEMMA SymbolsRemain ==
  ASSUME edges \subseteq edges', NEW f
  PROVE  get_file_symbols(f) \subseteq get_file_symbols(f)'
PROOF
<1>1. \A k : Contained(k) \subseteq Contained(k)'
  BY DEF Contained
<1> QED BY <1>1 DEF get_file_symbols

\* The step of a run that executes a statement.
LEMMA ExecuteStep ==
  ASSUME IInv, NEW r \in Runs, index_to_memgraph(r)
  PROVE  IInv'
PROOF
<1>1. PICK s \in todo[r] :
        /\ Ready(r, s)
        /\ nodes' = Merged(s.node, s.attr)
        /\ edges' = edges \cup Links(s)
        /\ todo' = [todo EXCEPT ![r] = @ \ {s}]
        /\ pc' = [pc EXCEPT ![r] = IF todo[r] = {s} THEN "done" ELSE "running"]
  BY DEF index_to_memgraph
<1>2. /\ pc[r] = "running"
      /\ UNCHANGED <<source, edition, target, parsed, lost, alone, had>>
  BY DEF index_to_memgraph
<1>3. TypeOK /\ ExecutedInv /\ OwnerInv /\ DoneInv /\ AloneInv /\ Anchored
  BY DEF IInv
<1>4. s \in Plan(r) /\ \A y \in Runs : Plan(y)' = Plan(y)
  BY <1>2, <1>3 DEF TypeOK, Plan
<1>5. /\ DOMAIN nodes' = DOMAIN nodes \cup {s.node}
      /\ nodes'[s.node] = s.attr
      /\ \A k \in DOMAIN nodes : k # s.node => nodes'[k] = nodes[k]
  BY <1>1 DEF Merged
<1>6. NoNode \notin DOMAIN nodes
  BY <1>3 DEF TypeOK, Labels, NoNode
<1>7. s.owner # NoNode => s.owner \in DOMAIN nodes /\ Link(s) \in edges'
  BY <1>1, <1>2, <1>3, ReadyOwner DEF Links, Link
<1>8. \A e \in edges' : e \in edges \/ (e = Link(s) /\ s.owner \in DOMAIN nodes)
  BY <1>1 DEF Links, Link
<1>9. s.node[1] \in Labels /\ (s.node[1] # "Import" => s.attr \in Reads)
  BY <1>3, <1>4, PlanShape DEF Shape
<1>10. /\ pc' \in [Runs -> {"new", "running", "done", "failed", "printed"}]
       /\ \A y \in Runs : y # r => pc'[y] = pc[y] /\ todo'[y] = todo[y]
       /\ todo'[r] = todo[r] \ {s}
       /\ pc'[r] = IF todo[r] = {s} THEN "done" ELSE "running"
  <2>1. pc \in [Runs -> {"new", "running", "done", "failed", "printed"}]
    BY <1>3 DEF TypeOK
  <2>2. \A y \in Runs : y # r => todo'[y] = todo[y] /\ pc'[y] = pc[y]
    BY <1>1
  <2> QED BY <1>1, <2>1, <2>2, <1>3 DEF TypeOK
<1>11. TypeOK'
  <2>1. \A k \in DOMAIN nodes' : k[1] \in Labels /\ (k[1] # "Import" => nodes'[k] \in Reads)
    <3> SUFFICES ASSUME NEW k \in DOMAIN nodes'
                 PROVE  k[1] \in Labels /\ (k[1] # "Import" => nodes'[k] \in Reads)
      OBVIOUS
    <3>1. CASE k = s.node
      BY <3>1, <1>5, <1>9
    <3>2. CASE k # s.node
      BY <3>2, <1>3, <1>5 DEF TypeOK
    <3> QED BY <3>1, <3>2
  <2>2. \A e \in edges' : e[1] \in DOMAIN nodes' /\ e[2] \in {"CONTAINS", "IMPORTS"} /\ e[3] \in DOMAIN nodes'
    BY <1>3, <1>5, <1>8 DEF TypeOK, Link
  <2>3. \A y \in Runs : todo'[y] \subseteq Plan(y)' /\ lost'[y] \subseteq Plan(y)'
    <3> SUFFICES ASSUME NEW y \in Runs PROVE todo'[y] \subseteq todo[y] /\ lost'[y] = lost[y]
      BY <1>3, <1>4 DEF TypeOK
    <3> QED BY <1>2, <1>10
  <2>4. DOMAIN todo' = Runs /\ DOMAIN lost' = Runs
    BY <1>1, <1>2, <1>3 DEF TypeOK
  <2>5. /\ source' \in [Files -> Texts] /\ edition' \in [Files -> Nat]
        /\ target' \in [Runs -> Targets \cup {<<>>}] /\ alone' \in [Runs -> BOOLEAN]
        /\ had' \in [Files -> SUBSET Texts] /\ DOMAIN parsed' = Runs
        /\ \A y \in Runs :
             /\ DOMAIN parsed'[y] \subseteq Files
             /\ parsed'[y] \in [DOMAIN parsed'[y] -> [text : Texts, edition : Nat]]
    BY <1>2, <1>3 DEF TypeOK
  <2> QED BY <2>1, <2>2, <2>3, <2>4, <2>5, <1>10 DEF TypeOK, Reads
<1>12. /\ \A y \in Runs : y # r => Executed(y)' = Executed(y)
       /\ Executed(r)' \subseteq Executed(r) \cup {s}
       /\ lost[r] = {}
  BY <1>2, <1>3, <1>4, <1>10 DEF Executed, DoneInv
<1>17. \A u : Written(u) => Written(u)'
  BY <1>1, <1>5, WrittenRemains
<1>18. Written(s)'
  BY <1>5, <1>7 DEF Written, Link
<1>19. ASSUME NEW y \in Runs, pc'[y] # "failed", NEW v \in Executed(y)'
       PROVE  pc[y] # "failed" /\ (v \in Executed(y) \/ (v = s /\ y = r))
  BY <1>2, <1>10, <1>12, <1>19
<1>20. ExecutedInv'
  BY <1>3, <1>17, <1>18, <1>19 DEF ExecutedInv
<1>21. OwnerInv'
  <2> SUFFICES ASSUME NEW y \in Runs, pc'[y] # "failed", NEW v \in Executed(y)', NEW u \in Plan(y),
                      u.file = v.file, u.node = v.owner
               PROVE  Written(u)'
    BY <1>4 DEF OwnerInv
  <2>1. CASE v \in Executed(y)
    BY <2>1, <1>3, <1>17, <1>19 DEF OwnerInv
  <2>2. CASE v = s /\ y = r
    <3>1. u \in Executed(r)
      BY <2>2, <1>1, <1>12 DEF Ready, Executed
    <3> QED BY <3>1, <1>2, <1>3, <1>17 DEF ExecutedInv
  <2> QED BY <2>1, <2>2, <1>19
<1>13. DoneInv'
  BY <1>2, <1>3, <1>10, <1>12 DEF DoneInv
<1>14. AloneInv'
  <2> SUFFICES ASSUME NEW y \in Runs, alone[y]
               PROVE  /\ \A x \in Runs \ {y} : pc'[x] # "running"
                      /\ \A f \in DOMAIN parsed[y] :
                           parsed[y][f].text = source[f] /\ parsed[y][f].edition = edition[f]
                      /\ pc'[y] # "failed" =>
                           \A u \in Executed(y)' : u.node[1] # "Import" =>
                             \E v \in Plan(y) : v.node = u.node /\ nodes'[u.node] = v.attr
    BY <1>2, <1>4 DEF AloneInv
  <2>1. y = r
    BY <1>2, <1>3 DEF AloneInv
  <2>2. \A x \in Runs \ {y} : pc'[x] # "running"
    BY <2>1, <1>3, <1>10 DEF AloneInv
  <2>3. ASSUME NEW u \in Executed(y)', u.node[1] # "Import"
        PROVE  \E v \in Plan(y) : v.node = u.node /\ nodes'[u.node] = v.attr
    <3>1. CASE u.node = s.node
      BY <3>1, <2>1, <1>4, <1>5
    <3>2. CASE u.node # s.node
      <4>1. u \in Executed(r) /\ pc[r] # "failed"
        BY <3>2, <2>1, <2>3, <1>2, <1>12
      <4>2. u.node \in DOMAIN nodes
        BY <4>1, <1>3 DEF ExecutedInv, Written
      <4>3. \E v \in Plan(r) : v.node = u.node /\ nodes[u.node] = v.attr
        BY <4>1, <2>1, <2>3, <1>3 DEF AloneInv
      <4> QED BY <4>2, <4>3, <3>2, <2>1, <1>5
    <3> QED BY <3>1, <3>2
  <2>4. \A f \in DOMAIN parsed[y] :
          parsed[y][f].text = source[f] /\ parsed[y][f].edition = edition[f]
    BY <1>3 DEF AloneInv
  <2> QED BY <2>2, <2>3, <2>4
<1>15. Anchored'
  <2> SUFFICES ASSUME NEW k \in DOMAIN nodes', k[1] \in {"Class", "Function"}
               PROVE  \E f \in Files : File(f) \in DOMAIN nodes' /\ k \in get_file_symbols(f)'
    BY DEF Anchored
  <2>1. \A f \in Files : get_file_symbols(f) \subseteq get_file_symbols(f)'
    BY <1>1, SymbolsRemain
  <2>2. CASE k \in DOMAIN nodes
    BY <2>1, <2>2, <1>3, <1>5 DEF Anchored
  <2>3. CASE k = s.node
    <3>1. /\ s.file \in Files /\ s.owner # NoNode
          /\ s.owner = File(s.file) \/ (s.owner[1] = "Class" /\ s.node[1] = "Function")
      BY <2>3, <1>3, <1>4, PlanShape DEF Shape
    <3>2. s.node \in Contained(s.owner)'
      BY <3>1, <2>3, <1>7 DEF Contained, Link
    <3>3. CASE s.owner = File(s.file)
      BY <3>1, <3>2, <3>3, <2>3, <1>5, <1>7 DEF get_file_symbols
    <3>4. CASE s.owner[1] = "Class" /\ s.node[1] = "Function"
      <4>1. PICK f \in Files : File(f) \in DOMAIN nodes /\ s.owner \in get_file_symbols(f)
        BY <3>1, <3>4, <1>3, <1>7 DEF Anchored
      <4>2. s.owner \in Contained(File(f))
        BY <4>1, <3>4 DEF get_file_symbols
      <4>3. s.owner \in Contained(File(f))'
        BY <4>2, <1>1 DEF Contained
      <4>4. s.node \in get_file_symbols(f)'
        BY <4>3, <3>2, <3>4 DEF get_file_symbols
      <4> QED BY <4>1, <4>4, <2>3, <1>5
    <3> QED BY <3>1, <3>3, <3>4
  <2> QED BY <2>2, <2>3, <1>5
<1> QED BY <1>11, <1>13, <1>14, <1>15, <1>20, <1>21 DEF IInv

\* A run that starts has executed nothing, and is alone only if no other is at work.
LEMMA StartStep ==
  ASSUME IInv, NEW r \in Runs, NEW t \in Targets, start(r, t)
  PROVE  IInv'
PROOF
<1> DEFINE files == [f \in {g \in Files : Under(g, t) /\ source[g].valid} |->
                       [text |-> source[f], edition |-> edition[f]]]
           plan == PlanOf(t, files)
<1>1. /\ target' = [target EXCEPT ![r] = t]
      /\ parsed' = [parsed EXCEPT ![r] = files]
      /\ todo' = [todo EXCEPT ![r] = plan]
      /\ pc' = [pc EXCEPT ![r] = IF plan = {} THEN "done" ELSE "running"]
      /\ alone' = [x \in Runs |-> x = r /\ \A y \in Runs : pc[y] # "running"]
      /\ UNCHANGED <<source, edition, nodes, edges, lost, had>>
  BY DEF start
<1>2. TypeOK /\ ExecutedInv /\ OwnerInv /\ DoneInv /\ AloneInv /\ Anchored
  BY DEF IInv
<1>0. pc[r] = "new" /\ lost[r] = {}
  BY <1>2 DEF start, DoneInv
<1>3. /\ DOMAIN files \subseteq Files
      /\ \A f \in DOMAIN files : /\ files[f].text = source[f] /\ files[f].edition = edition[f]
                                 /\ files[f] \in [text : Texts, edition : Nat]
  BY <1>2 DEF TypeOK
<1>4. files \in [DOMAIN files -> [text : Texts, edition : Nat]]
  BY <1>3
<1> HIDE DEF files, plan
<1>5. /\ target'[r] = t /\ parsed'[r] = files /\ todo'[r] = plan
      /\ pc'[r] = IF plan = {} THEN "done" ELSE "running"
  BY <1>1, <1>2 DEF TypeOK
<1>6. \A y \in Runs : y # r =>
        target'[y] = target[y] /\ parsed'[y] = parsed[y] /\ todo'[y] = todo[y] /\ pc'[y] = pc[y]
  BY <1>1, <1>2 DEF TypeOK
<1>7. Plan(r)' = plan /\ \A y \in Runs : y # r => Plan(y)' = Plan(y)
  BY <1>5, <1>6 DEF Plan, plan
<1>8. TypeOK'
  <2>1. \A y \in Runs :
          /\ DOMAIN parsed'[y] \subseteq Files
          /\ parsed'[y] \in [DOMAIN parsed'[y] -> [text : Texts, edition : Nat]]
          /\ todo'[y] \subseteq Plan(y)' /\ lost'[y] \subseteq Plan(y)'
    BY <1>0, <1>1, <1>2, <1>3, <1>4, <1>5, <1>6, <1>7 DEF TypeOK
  <2>2. /\ pc' \in [Runs -> {"new", "running", "done", "failed", "printed"}]
        /\ target' \in [Runs -> Targets \cup {<<>>}]
        /\ alone' \in [Runs -> BOOLEAN]
        /\ DOMAIN parsed' = Runs /\ DOMAIN todo' = Runs /\ DOMAIN lost' = Runs
    BY <1>1, <1>2 DEF TypeOK
  <2> QED BY <2>1, <2>2, <1>1, <1>2 DEF TypeOK, Reads
<1>9. /\ Executed(r)' = {}
      /\ \A y \in Runs : y # r => Executed(y)' = Executed(y)
      /\ \A u : Written(u)' <=> Written(u)
  BY <1>1, <1>5, <1>6, <1>7 DEF Executed, Written, Link
<1>10. ExecutedInv' /\ OwnerInv' /\ DoneInv'
  <2>1. ExecutedInv' /\ OwnerInv'
    BY <1>2, <1>6, <1>7, <1>9 DEF ExecutedInv, OwnerInv
  <2>2. DoneInv'
    BY <1>0, <1>1, <1>2, <1>5, <1>6 DEF DoneInv
  <2> QED BY <2>1, <2>2
<1>11. AloneInv'
  <2> SUFFICES ASSUME NEW y \in Runs, alone'[y]
               PROVE  /\ \A x \in Runs \ {y} : pc'[x] # "running"
                      /\ \A f \in DOMAIN parsed'[y] :
                           parsed'[y][f].text = source'[f] /\ parsed'[y][f].edition = edition'[f]
                      /\ \A u \in Executed(y)' : FALSE
    BY DEF AloneInv
  <2>1. y = r /\ \A x \in Runs : pc[x] # "running"
    BY <1>1
  <2> QED BY <2>1, <1>1, <1>3, <1>5, <1>6, <1>9
<1>12. Anchored'
  BY <1>1, <1>2 DEF Anchored, get_file_symbols, Contained
<1> QED BY <1>8, <1>10, <1>11, <1>12 DEF IInv

\* A run that ends in any other way than by its last statement leaves the graph as
\* it is, and has executed no more than before.
LEMMA EndStep ==
  ASSUME IInv, NEW r \in Runs, fail(r) \/ last_fails(r) \/ print_cypher(r)
  PROVE  IInv'
PROOF
<1>1. UNCHANGED <<source, edition, nodes, edges, target, parsed, alone, had>>
  BY DEF fail, last_fails, print_cypher
<1>2. TypeOK /\ ExecutedInv /\ OwnerInv /\ DoneInv /\ AloneInv /\ Anchored
  BY DEF IInv
<1>3. /\ pc'[r] \in {"failed", "done", "printed"} /\ pc[r] \in {"new", "running"}
      /\ todo'[r] \subseteq todo[r] /\ lost'[r] \subseteq todo[r]
      /\ pc'[r] = "done" => todo'[r] = {}
      /\ pc'[r] # "done" => lost'[r] = {}
      /\ pc'[r] # "failed" => todo[r] \cup lost[r] \subseteq todo'[r] \cup lost'[r]
  <2>1. /\ pc \in [Runs -> {"new", "running", "done", "failed", "printed"}]
        /\ DOMAIN todo = Runs /\ DOMAIN lost = Runs
        /\ pc[r] # "done" => lost[r] = {}
    BY <1>2 DEF TypeOK, DoneInv
  <2>2. CASE fail(r)
    BY <2>1, <2>2 DEF fail
  <2>3. CASE last_fails(r)
    BY <2>1, <2>3 DEF last_fails
  <2>4. CASE print_cypher(r)
    BY <2>1, <2>4 DEF print_cypher
  <2> QED BY <2>2, <2>3, <2>4
<1>4. /\ \A y \in Runs : y # r => pc'[y] = pc[y] /\ todo'[y] = todo[y] /\ lost'[y] = lost[y]
      /\ pc' \in [Runs -> {"new", "running", "done", "failed", "printed"}]
      /\ DOMAIN todo' = Runs /\ DOMAIN lost' = Runs
  BY <1>2 DEF fail, last_fails, print_cypher, TypeOK
<1>5. \A y \in Runs : /\ Plan(y)' = Plan(y)
                      /\ pc'[y] # "failed" => pc[y] # "failed" /\ Executed(y)' \subseteq Executed(y)
  BY <1>1, <1>3, <1>4 DEF Plan, Executed
<1>6. \A y \in Runs : todo'[y] \subseteq Plan(y)' /\ lost'[y] \subseteq Plan(y)'
  <2>1. \A y \in Runs : todo[y] \subseteq Plan(y) /\ lost[y] \subseteq Plan(y)
    BY <1>2 DEF TypeOK
  <2>2. \A y \in Runs : todo'[y] \subseteq Plan(y) /\ lost'[y] \subseteq Plan(y)
    BY <2>1, <1>3, <1>4
  <2> QED BY <2>2, <1>5
<1>7. TypeOK'
  BY <1>1, <1>2, <1>4, <1>6 DEF TypeOK, Reads
<1>8. ExecutedInv' /\ OwnerInv'
  <2>1. \A u : Written(u)' <=> Written(u)
    BY <1>1 DEF Written, Link
  <2> QED BY <2>1, <1>2, <1>5 DEF ExecutedInv, OwnerInv
<1>9. DoneInv'
  BY <1>2, <1>3, <1>4 DEF DoneInv
<1>10. AloneInv'
  <2> SUFFICES ASSUME NEW y \in Runs, alone[y]
               PROVE  /\ \A x \in Runs \ {y} : pc'[x] # "running"
                      /\ \A f \in DOMAIN parsed[y] :
                           parsed[y][f].text = source[f] /\ parsed[y][f].edition = edition[f]
                      /\ pc'[y] # "failed" =>
                           \A u \in Executed(y)' : u.node[1] # "Import" =>
                             \E v \in Plan(y)' : v.node = u.node /\ nodes[u.node] = v.attr
    BY <1>1 DEF AloneInv
  <2>1. \A x \in Runs \ {y} : pc'[x] # "running"
    BY <1>2, <1>3, <1>4 DEF AloneInv
  <2> QED BY <2>1, <1>2, <1>5 DEF AloneInv
<1>11. Anchored'
  BY <1>1, <1>2 DEF Anchored, get_file_symbols, Contained
<1> QED BY <1>7, <1>8, <1>9, <1>10, <1>11 DEF IInv

\* After an edit no run is alone.
LEMMA EditStep ==
  ASSUME IInv, NEW f \in Files, NEW x \in Texts, edit(f, x)
  PROVE  IInv'
PROOF
<1>1. /\ source' = [source EXCEPT ![f] = x]
      /\ edition' = [edition EXCEPT ![f] = @ + 1]
      /\ had' = [had EXCEPT ![f] = @ \cup {x}]
      /\ alone' = [r \in Runs |-> FALSE]
      /\ UNCHANGED <<nodes, edges, pc, target, parsed, todo, lost>>
  BY DEF edit
<1>2. TypeOK /\ ExecutedInv /\ OwnerInv /\ DoneInv /\ Anchored
  BY DEF IInv
<1>3. /\ source' \in [Files -> Texts] /\ edition' \in [Files -> Nat]
      /\ had' \in [Files -> SUBSET Texts] /\ alone' \in [Runs -> BOOLEAN]
  BY <1>1, <1>2 DEF TypeOK
<1>4. \A y \in Runs : Plan(y)' = Plan(y)
  BY <1>1 DEF Plan
<1>5. TypeOK'
  BY <1>1, <1>2, <1>3, <1>4 DEF TypeOK, Reads
<1>6. ExecutedInv' /\ OwnerInv'
  BY <1>1, <1>2, <1>4 DEF ExecutedInv, OwnerInv, Executed, Written, Link
<1>7. DoneInv' /\ AloneInv'
  BY <1>1, <1>2 DEF DoneInv, AloneInv
<1>8. Anchored'
  BY <1>1, <1>2 DEF Anchored, get_file_symbols, Contained
<1> QED BY <1>5, <1>6, <1>7, <1>8 DEF IInv

\* Nothing is in the graph at first, and no run has begun.
LEMMA InitIInv == Init => IInv
PROOF
<1> SUFFICES ASSUME Init PROVE IInv
  OBVIOUS
<1>1. \A r \in Runs : Plan(r) = {}
  BY DEF Init, Plan, PlanOf
<1>2. DOMAIN nodes = {} /\ edges = {}
  BY DEF Init
<1>3. \A r \in Runs : DOMAIN parsed[r] = {} /\ parsed[r] = [f \in {} |-> [text |-> {}, edition |-> 0]]
  BY DEF Init
<1>4. \A r \in Runs : parsed[r] \in [DOMAIN parsed[r] -> [text : Texts, edition : Nat]]
  BY <1>3
<1>5. TypeOK
  BY <1>1, <1>2, <1>3, <1>4 DEF Init, TypeOK
<1>6. ExecutedInv /\ OwnerInv /\ DoneInv /\ AloneInv /\ Anchored
  BY <1>1, <1>2 DEF Init, ExecutedInv, OwnerInv, Executed, DoneInv, AloneInv, Anchored
<1> QED BY <1>5, <1>6 DEF IInv

\* What a completed run has read was executed to the last statement but one.
LEMMA IndexedFollows == IInv => IndexedIsPresent
PROOF
<1> SUFFICES ASSUME IInv, NEW r \in Runs, pc[r] = "done", NEW f \in DOMAIN parsed[r]
             PROVE  /\ Symbols(target[r], f, parsed[r][f].text) \ Lost(r, f)
                         \subseteq get_file_symbols(f)
                    /\ \A i \in parsed[r][f].text.imports :
                         \/ Import(i.qualified_name) \in Lost(r, f)
                         \/ <<File(f), "IMPORTS", Import(i.qualified_name)>> \in edges
  BY DEF IndexedIsPresent
<1>1. TypeOK
  BY DEF IInv
<1>2. \A s \in Plan(r) : s.file = f /\ s.node \notin Lost(r, f) => s \in Executed(r) /\ Written(s)
  BY DEF IInv, DoneInv, ExecutedInv, Executed, Lost
<1>3. ASSUME NEW k \in Symbols(target[r], f, parsed[r][f].text), k \notin Lost(r, f)
      PROVE  k \in get_file_symbols(f)
  <2>1. PICK s \in Plan(r) : s.node = k /\ s.file = f
    BY <1>1, <1>3, PlanCovers
  <2>2. k[1] \in {"Class", "Function"}
    BY <1>3, NodeLabels DEF Symbols
  <2>3. PICK u \in Plan(r) :
          /\ u.file = f /\ u.node = s.owner /\ s.owner # NoNode
          /\ s.owner = File(f) \/ (s.owner[1] = "Class" /\ k[1] = "Function")
    BY <1>1, <2>1, <2>2, PlanShape DEF Shape
  <2>4. k \in Contained(s.owner)
    <3>1. Link(s) \in edges /\ Link(s) = <<s.owner, "CONTAINS", k>>
      BY <1>2, <1>3, <2>1, <2>2, <2>3 DEF Link, Written
    <3> QED BY <3>1 DEF Contained
  <2>5. CASE s.owner = File(f)
    BY <2>4, <2>5 DEF get_file_symbols
  <2>6. CASE s.owner[1] = "Class" /\ k[1] = "Function"
    <3>1. u.owner = File(f) /\ u.owner # NoNode
      BY <1>1, <2>3, <2>6, PlanShape DEF Shape
    <3>2. s.owner \in Contained(File(f))
      <4>1. Link(u) \in edges /\ Link(u) = <<File(f), "CONTAINS", s.owner>>
        <5>1. Written(u)
          BY <1>2, <1>3, <2>1, <2>3 DEF IInv, OwnerInv
        <5> QED BY <5>1, <2>3, <2>6, <3>1 DEF Link, Written
      <4> QED BY <4>1 DEF Contained
    <3> QED BY <2>4, <2>6, <3>2 DEF get_file_symbols
  <2> QED BY <2>3, <2>5, <2>6
<1>4. ASSUME NEW i \in parsed[r][f].text.imports
      PROVE  \/ Import(i.qualified_name) \in Lost(r, f)
             \/ <<File(f), "IMPORTS", Import(i.qualified_name)>> \in edges
  <2>1. PICK s \in Plan(r) :
          s.node = Import(i.qualified_name) /\ s.owner = File(f) /\ s.file = f
    BY <1>1, <1>4, PlanCovers
  <2> QED BY <2>1, <1>2, NodeLabels DEF Link, Written
<1> QED BY <1>3, <1>4

\* A run that was alone has left the symbols as it read them, and read what is there.
LEMMA CurrentFollows == IInv => AloneIsCurrent
PROOF
<1> SUFFICES ASSUME IInv, NEW r \in Runs, pc[r] = "done", alone[r],
                    NEW f \in DOMAIN parsed[r],
                    NEW k \in Symbols(target[r], f, source[f]) \ Lost(r, f)
             PROVE  \E g \in DOMAIN parsed[r] :
                      /\ k \in Symbols(target[r], g, source[g])
                      /\ nodes[k] = [file |-> g, edition |-> edition[g]]
  BY DEF AloneIsCurrent
<1>1. TypeOK
  BY DEF IInv
<1>2. \A g \in DOMAIN parsed[r] :
        parsed[r][g].text = source[g] /\ parsed[r][g].edition = edition[g]
  BY DEF IInv, AloneInv
<1>3. PICK s \in Plan(r) : s.node = k /\ s.file = f
  <2>1. k \in Symbols(target[r], f, parsed[r][f].text)
    BY <1>2
  <2> QED BY <1>1, <2>1, PlanCovers
<1>4. k[1] \in {"Class", "Function"}
  BY NodeLabels DEF Symbols
<1>5. s \in Executed(r)
  BY <1>3 DEF IInv, DoneInv, Executed, Lost
<1>6. PICK u \in Plan(r) : u.node = k /\ nodes[k] = u.attr
  BY <1>3, <1>4, <1>5 DEF IInv, AloneInv
<1>7. /\ u.file \in DOMAIN parsed[r]
      /\ u.attr = [file |-> u.file, edition |-> parsed[r][u.file].edition]
      /\ k \in Symbols(target[r], u.file, parsed[r][u.file].text)
  BY <1>1, <1>4, <1>6, PlanShape
<1> QED BY <1>2, <1>6, <1>7

\* The invariant is inductive: no step of a run and no edit breaks it.
THEOREM Inductive == Spec => []IInv
PROOF
<1>1. IInv /\ [Next]_vars => IInv'
  <2> SUFFICES ASSUME IInv, [Next]_vars PROVE IInv'
    OBVIOUS
  <2>1. ASSUME NEW r \in Runs, NEW t \in Targets, start(r, t) PROVE IInv'
    BY <2>1, StartStep
  <2>2. ASSUME NEW r \in Runs, index_to_memgraph(r) PROVE IInv'
    BY <2>2, ExecuteStep
  <2>3. ASSUME NEW r \in Runs, fail(r) \/ last_fails(r) \/ print_cypher(r) PROVE IInv'
    BY <2>3, EndStep
  <2>4. ASSUME NEW f \in Files, NEW x \in Texts, edit(f, x) PROVE IInv'
    BY <2>4, EditStep
  <2>5. CASE UNCHANGED vars
    <3>1. TypeOK'
      BY <2>5 DEF IInv, TypeOK, Reads, Plan, vars
    <3>3. ExecutedInv' /\ OwnerInv' /\ DoneInv' /\ AloneInv'
      BY <2>5 DEF IInv, ExecutedInv, OwnerInv, Executed, Written, DoneInv, AloneInv, Link, Plan, vars
    <3>2. Anchored'
      BY <2>5 DEF IInv, Anchored, get_file_symbols, Contained, vars
    <3> QED BY <3>1, <3>2, <3>3 DEF IInv
  <2> QED BY <2>1, <2>2, <2>3, <2>4, <2>5 DEF Next
<1> QED BY InitIInv, <1>1, PTL DEF Spec

\* The graph holds what it should, and names the place that each symbol was read at.
THEOREM TypeCorrect == Spec => []TypeOK
PROOF BY Inductive, PTL DEF IInv

\* No symbol is ever without a file, however runs of the indexer overlap or die.
THEOREM SymbolsAreAnchored == Spec => []Anchored
PROOF BY Inductive, PTL DEF IInv

\* What a completed run has parsed can be found, but for what a lost last statement
\* was to write.
THEOREM IndexedStays == Spec => []IndexedIsPresent
PROOF BY Inductive, IndexedFollows, PTL

\* A completed run that was alone has brought the graph up to date, but for what a
\* lost last statement was to write.
THEOREM AloneUpdates == Spec => []AloneIsCurrent
PROOF BY Inductive, CurrentFollows, PTL

\* What a completed run has found a file to import is among its dependencies, under
\* the module that was last merged for that name, unless it was in a lost statement.
DependenciesArePresent ==
  \A r \in Runs : pc[r] = "done" =>
    \A f \in DOMAIN parsed[r] : \A i \in parsed[r][f].text.imports :
      \/ Import(i.qualified_name) \in Lost(r, f)
      \/ nodes[Import(i.qualified_name)] \in get_dependencies(f)

\* It follows from IndexedIsPresent.
THEOREM DependenciesStay == Spec => []DependenciesArePresent
PROOF
<1>1. ASSUME IndexedIsPresent, NEW r \in Runs, pc[r] = "done",
             NEW f \in DOMAIN parsed[r], NEW i \in parsed[r][f].text.imports,
             Import(i.qualified_name) \notin Lost(r, f)
      PROVE  nodes[Import(i.qualified_name)] \in get_dependencies(f)
  <2> DEFINE e == <<File(f), "IMPORTS", Import(i.qualified_name)>>
  <2>1. e \in edges /\ e[1] = File(f) /\ e[2] = "IMPORTS" /\ e[3] = Import(i.qualified_name)
    BY <1>1 DEF IndexedIsPresent
  <2> QED BY <2>1 DEF get_dependencies
<1>2. IndexedIsPresent => DependenciesArePresent
  BY <1>1 DEF DependenciesArePresent
<1> QED BY IndexedStays, <1>2, PTL
-----------------------------------------------------------------------------
\* A link is one that some run had to make, in whatever state that run is now.
LinksInv == \A e \in edges : \E r \in Runs : \E s \in Plan(r) : e = Link(s)

\* What a run has parsed lay under its target, and was in the file once.
ParsedInv ==
  \A r \in Runs :
    /\ pc[r] = "new" => DOMAIN parsed[r] = {}
    /\ \A f \in DOMAIN parsed[r] :
         target[r] \in Targets /\ Under(f, target[r]) /\ parsed[r][f].text \in had[f]

\* What a file had includes what is in it.
HadInv == \A f \in Files : source[f] \in had[f]

OwnInv == LinksInv /\ ParsedInv /\ HadInv
\* The place of a statement in its file: what the file contains is a symbol of it, and
\* a class is named by the module's prefix, as owner and as node.
LEMMA StatementPlace ==
  ASSUME NEW t, NEW f, NEW x, IsText(x), NEW e, NEW s \in Statements(t, f, x, e)
  PROVE  /\ s.file = f
         /\ s.owner = NoNode \/ s.owner = File(f)
            \/ \E c \in STRING : s.owner = Class(Prefix(t, f) \o <<c>>)
         /\ s.node[1] = "Class" => \E c \in STRING : s.node = Class(Prefix(t, f) \o <<c>>)
         /\ s.owner[1] = "Class" => \E m \in x.methods : s.node = Function(Prefix(t, f) \o m)
PROOF
<1> DEFINE class(c) == Class(Prefix(t, f) \o <<c>>)
           stmt(node, attr, owner) == [file |-> f, node |-> node, attr |-> attr, owner |-> owner]
           read == [file |-> f, edition |-> e]
<1>1. CASE s = stmt(File(f), read, NoNode)
  BY <1>1, NodesDiffer DEF File
<1>2. CASE \E i \in x.imports : s = stmt(Import(i.qualified_name), i.module, File(f))
  BY <1>2, NodeLabels DEF Import
<1>3. CASE \E c \in x.classes : s = stmt(class(c), read, File(f))
  <2>1. PICK c \in x.classes : s = stmt(class(c), read, File(f))
    BY <1>3
  <2>2. c \in STRING /\ s.file = f /\ s.owner = File(f) /\ s.node = class(c)
    BY <2>1 DEF IsText
  <2> QED BY <2>2, NodeLabels
<1>4. CASE \E m \in x.methods : s = stmt(Function(Prefix(t, f) \o m), read, class(m[1]))
  <2>1. PICK m \in x.methods : s = stmt(Function(Prefix(t, f) \o m), read, class(m[1]))
    BY <1>4
  <2>2. m[1] \in STRING
    BY <2>1 DEF IsText
  <2>3. /\ s.node[1] = "Function" /\ s.file = f /\ s.owner = class(m[1])
        /\ s.node = Function(Prefix(t, f) \o m)
    BY <2>1 DEF Function
  <2> QED BY <2>2, <2>3
<1>5. CASE \E g \in x.functions : s = stmt(Function(Prefix(t, f) \o <<g>>), read, File(f))
  BY <1>5, NodeLabels DEF Function
<1> QED BY <1>1, <1>2, <1>3, <1>4, <1>5 DEF Statements

\* The same of a plan.
LEMMA PlanPlace ==
  ASSUME TypeOK, NEW r \in Runs, NEW s \in Plan(r)
  PROVE  /\ s.owner = NoNode \/ s.owner = File(s.file)
            \/ \E c \in STRING : s.owner = Class(Prefix(target[r], s.file) \o <<c>>)
         /\ s.node[1] = "Class" =>
              \E c \in STRING : s.node = Class(Prefix(target[r], s.file) \o <<c>>)
         /\ s.owner[1] = "Class" =>
              \E m \in parsed[r][s.file].text.methods :
                s.node = Function(Prefix(target[r], s.file) \o m)
PROOF
<1>1. PICK f \in DOMAIN parsed[r] :
        s \in Statements(target[r], f, parsed[r][f].text, parsed[r][f].edition)
  BY DEF Plan, PlanOf
<1>2. IsText(parsed[r][f].text)
  BY <1>1, TextsAssumption DEF TypeOK
<1>3. /\ s.file = f
      /\ s.owner = NoNode \/ s.owner = File(f)
         \/ \E c \in STRING : s.owner = Class(Prefix(target[r], f) \o <<c>>)
      /\ s.node[1] = "Class" => \E c \in STRING : s.node = Class(Prefix(target[r], f) \o <<c>>)
      /\ s.owner[1] = "Class" =>
           \E m \in parsed[r][f].text.methods : s.node = Function(Prefix(target[r], f) \o m)
  <2>1. PICK t, x, e : t = target[r] /\ x = parsed[r][f].text /\ e = parsed[r][f].edition
    OBVIOUS
  <2>2. s \in Statements(t, f, x, e) /\ IsText(x)
    BY <1>1, <1>2, <2>1
  <2>3. /\ s.file = f
        /\ s.owner = NoNode \/ s.owner = File(f)
           \/ \E c \in STRING : s.owner = Class(Prefix(t, f) \o <<c>>)
        /\ s.node[1] = "Class" => \E c \in STRING : s.node = Class(Prefix(t, f) \o <<c>>)
        /\ s.owner[1] = "Class" => \E m \in x.methods : s.node = Function(Prefix(t, f) \o m)
    BY <2>2, StatementPlace
  <2> QED BY <2>1, <2>3
<1> QED BY <1>3

\* Two modules of which a class has the same qualified name are called the same.
LEMMA SamePrefix ==
  ASSUME NEW t \in Targets, NEW u \in Targets, NEW f \in Files, NEW g \in Files,
         Under(f, t), Under(g, u), NEW c \in STRING, NEW d \in STRING,
         Class(Prefix(t, f) \o <<c>>) = Class(Prefix(u, g) \o <<d>>)
  PROVE  Prefix(t, f) = Prefix(u, g)
PROOF
<1>1. t \in Seq(STRING) /\ u \in Seq(STRING) /\ f \in Seq(STRING) /\ g \in Seq(STRING)
      /\ t # <<>> /\ u # <<>>
  BY FilesAssumption
<1>2. Len(t) \in 1..Len(f) /\ Len(u) \in 1..Len(g)
  BY <1>1, EmptySeq, LenProperties DEF Under
<1>3. Prefix(t, f) \in Seq(STRING) /\ Prefix(u, g) \in Seq(STRING)
  <2>1. /\ Len(t) \in Int /\ Len(f) \in Int /\ \A i \in Len(t)..Len(f) : f[i] \in STRING
        /\ Len(u) \in Int /\ Len(g) \in Int /\ \A i \in Len(u)..Len(g) : g[i] \in STRING
    BY <1>1, <1>2, ElementOfSeq, LenProperties
  <2> QED BY <2>1, SubSeqProperties DEF Prefix
<1> DEFINE p == Prefix(t, f)
           q == Prefix(u, g)
<1>4. p \o <<c>> = q \o <<d>>
  BY DEF Class
<1>5. p \in Seq(STRING) /\ q \in Seq(STRING)
  BY <1>3
<1> HIDE DEF p, q
<1>6. Append(p, c) = Append(q, d)
  BY <1>4, <1>5, AppendIsConcat
<1>7. /\ Len(p) \in Nat /\ Len(Append(p, c)) = Len(p) + 1
      /\ Len(q) \in Nat /\ Len(Append(q, d)) = Len(q) + 1
      /\ \A i \in 1..Len(p) : Append(p, c)[i] = p[i]
      /\ \A i \in 1..Len(q) : Append(q, d)[i] = q[i]
  BY <1>5, AppendProperties, LenProperties
<1>8. Len(p) = Len(q)
  <2>1. Len(p) + 1 = Len(q) + 1
    BY <1>6, <1>7, Zenon
  <2> QED BY <1>7, <2>1
<1>9. \A i \in 1..Len(p) : p[i] = q[i]
  BY <1>6, <1>7, <1>8, Zenon
<1>10. p = q
  BY <1>5, <1>8, <1>9, SeqEqual
<1> QED BY <1>10 DEF p, q

\* Under one target, two files are not called the same.
LEMMA PrefixInjective ==
  ASSUME NEW t \in Targets, NEW f \in Files, NEW g \in Files, Under(f, t), Under(g, t),
         Prefix(t, f) = Prefix(t, g)
  PROVE  f = g
PROOF
<1>1. t \in Seq(STRING) /\ f \in Seq(STRING) /\ g \in Seq(STRING) /\ t # <<>>
  BY FilesAssumption
<1> DEFINE n == Len(t)
<1>2. n \in Nat /\ Len(f) \in Nat /\ Len(g) \in Nat /\ 1 <= n /\ n <= Len(f) /\ n <= Len(g)
  BY <1>1, EmptySeq, LenProperties DEF Under
<1> HIDE DEF n
<1>3. SubSeq(f, n, Len(f)) = SubSeq(g, n, Len(g)) /\ SubSeq(f, 1, n) = SubSeq(g, 1, n)
  BY DEF Prefix, Under, n
<1>4. Len(f) = Len(g)
  BY <1>1, <1>2, <1>3, SubSeqProperties
<1>5. ASSUME NEW i \in 1..Len(f) PROVE f[i] = g[i]
  <2>1. CASE i <= n
    BY <2>1, <1>1, <1>2, <1>3
  <2>2. CASE n < i
    <3>1. SubSeq(f, n, Len(f))[i - n + 1] = f[i] /\ SubSeq(g, n, Len(g))[i - n + 1] = g[i]
      BY <2>2, <1>1, <1>2, <1>4
    <3> QED BY <3>1, <1>3
  <2> QED BY <2>1, <2>2, <1>2
<1> QED BY <1>1, <1>4, <1>5, SeqEqual

\* Whatever is in the graph, a file was given by a run that read it there.
LEMMA OwnFollows == TypeOK /\ OwnInv => OwnSymbols
PROOF
<1> SUFFICES ASSUME TypeOK, LinksInv, ParsedInv, NEW f \in Files, NEW k \in get_file_symbols(f)
             PROVE  \/ \E t \in Targets, x \in had[f] : Under(f, t) /\ k \in Symbols(t, f, x)
                    \/ Mistaken(f, k)
  BY DEF OwnSymbols, OwnInv
<1>1. ASSUME NEW n, n[1] \in {"File", "Class"}, NEW q \in Contained(n)
      PROVE  \E r \in Runs : \E s \in Plan(r) :
               s.owner = n /\ s.node = q /\ s.node[1] \in {"Class", "Function"}
  <2>1. PICK e \in edges : e[1] = n /\ e[2] = "CONTAINS" /\ e[3] = q
    BY <1>1 DEF Contained
  <2>2a. PICK r \in Runs : \E s \in Plan(r) : e = Link(s)
    BY <2>1 DEF LinksInv
  <2>2. PICK s \in Plan(r) : e = Link(s)
    BY <2>2a
  <2>3. s.owner = n /\ s.node = q /\ s.node[1] # "Import"
    BY <2>1, <2>2 DEF Link
  <2>4. s.node[1] \in Labels /\ (s.node[1] = "File" => s.owner = NoNode)
    BY <2>2, PlanShape DEF Shape
  <2> QED BY <2>2, <2>3, <2>4, <1>1, NodesDiffer DEF Labels
<1>2. ASSUME NEW r \in Runs, NEW s \in Plan(r)
      PROVE  /\ s.file \in DOMAIN parsed[r] /\ s.file \in Files
             /\ s.node[1] \in {"Class", "Function"} =>
                  s.node \in Symbols(target[r], s.file, parsed[r][s.file].text)
             /\ s.owner = NoNode \/ s.owner = File(s.file)
                \/ \E c \in STRING : s.owner = Class(Prefix(target[r], s.file) \o <<c>>)
             /\ s.node[1] = "Class" =>
                  \E c \in STRING : s.node = Class(Prefix(target[r], s.file) \o <<c>>)
             /\ s.owner[1] = "Class" =>
                  \E m \in parsed[r][s.file].text.methods :
                    s.node = Function(Prefix(target[r], s.file) \o m)
             /\ target[r] \in Targets /\ Under(s.file, target[r])
             /\ parsed[r][s.file].text \in had[s.file]
  BY PlanShape, PlanPlace DEF ParsedInv
<1>3. CASE k \in Contained(File(f))
  <2>1a. PICK r \in Runs : \E s \in Plan(r) :
           s.owner = File(f) /\ s.node = k /\ s.node[1] \in {"Class", "Function"}
    BY <1>1, <1>3, NodeLabels
  <2>1. PICK s \in Plan(r) : s.owner = File(f) /\ s.node = k /\ s.node[1] \in {"Class", "Function"}
    BY <2>1a
  <2>2. s.file = f
    BY <1>2, <2>1, NodeLabels, NodesDiffer
  <2> QED BY <1>2, <2>1, <2>2
<1>4. CASE \E n \in Contained(File(f)) : n[1] = "Class" /\ k \in Contained(n)
  <2>1. PICK n \in Contained(File(f)) : n[1] = "Class" /\ k \in Contained(n)
    BY <1>4
  <2>2a. PICK r \in Runs : \E u \in Plan(r) :
           u.owner = File(f) /\ u.node = n /\ u.node[1] \in {"Class", "Function"}
    BY <1>1, <2>1, NodeLabels
  <2>2. PICK u \in Plan(r) : u.owner = File(f) /\ u.node = n /\ u.node[1] \in {"Class", "Function"}
    BY <2>2a
  <2>3. u.file = f
    BY <1>2, <2>2, NodeLabels, NodesDiffer
  <2>4. PICK c \in STRING : n = Class(Prefix(target[r], f) \o <<c>>)
    BY <1>2, <2>1, <2>2, <2>3
  <2>5a. PICK y \in Runs : \E s \in Plan(y) :
           s.owner = n /\ s.node = k /\ s.node[1] \in {"Class", "Function"}
    BY <1>1, <2>1, NodeLabels
  <2>5. PICK s \in Plan(y) : s.owner = n /\ s.node = k /\ s.node[1] \in {"Class", "Function"}
    BY <2>5a
  <2> DEFINE g == s.file
  <2>6. PICK d \in STRING : n = Class(Prefix(target[y], g) \o <<d>>)
    BY <1>2, <2>1, <2>5, NodeLabels, NodesDiffer
  <2>7. /\ target[r] \in Targets /\ Under(f, target[r]) /\ f \in DOMAIN parsed[r]
        /\ target[y] \in Targets /\ Under(g, target[y]) /\ g \in DOMAIN parsed[y] /\ g \in Files
        /\ parsed[y][g].text \in had[g] /\ k \in Symbols(target[y], g, parsed[y][g].text)
        /\ \E m \in parsed[y][g].text.methods : k = Function(Prefix(target[y], g) \o m)
    BY <1>2, <2>1, <2>2, <2>3, <2>5
  <2>8. Prefix(target[r], f) = Prefix(target[y], g)
    BY <2>4, <2>6, <2>7, SamePrefix
  <2>9. CASE g = f
    BY <2>7, <2>9
  <2>10. CASE g # f
    <3>1. target[r] # target[y]
      BY <2>7, <2>8, <2>10, PrefixInjective
    <3> QED BY <3>1, <2>7, <2>8, <2>10 DEF Mistaken
  <2> QED BY <2>9, <2>10
<1> QED BY <1>3, <1>4 DEF get_file_symbols

\* The invariant of the links is inductive on top of the other.
LEMMA OwnStep == IInv /\ OwnInv /\ [Next]_vars => OwnInv'
PROOF
<1> SUFFICES ASSUME IInv, TypeOK, LinksInv, ParsedInv, HadInv, [Next]_vars PROVE OwnInv'
  BY DEF OwnInv, IInv
<1>1. ASSUME NEW r \in Runs, NEW t \in Targets, start(r, t) PROVE OwnInv'
  <2> DEFINE files == [f \in {g \in Files : Under(g, t) /\ source[g].valid} |->
                         [text |-> source[f], edition |-> edition[f]]]
  <2>1. /\ pc[r] = "new"
        /\ target' = [target EXCEPT ![r] = t]
        /\ parsed' = [parsed EXCEPT ![r] = files]
        /\ pc' = [pc EXCEPT ![r] = IF PlanOf(t, files) = {} THEN "done" ELSE "running"]
        /\ UNCHANGED <<source, edges, had>>
    BY <1>1 DEF start
  <2>2. \A f \in DOMAIN files : f \in Files /\ Under(f, t) /\ files[f].text = source[f]
    OBVIOUS
  <2> HIDE DEF files
  <2>3. /\ target'[r] = t /\ parsed'[r] = files /\ pc'[r] # "new"
        /\ \A y \in Runs : y # r => target'[y] = target[y] /\ parsed'[y] = parsed[y] /\ pc'[y] = pc[y]
    BY <2>1 DEF TypeOK
  <2>4. Plan(r) = {} /\ \A y \in Runs : y # r => Plan(y)' = Plan(y)
    BY <2>1, <2>3 DEF ParsedInv, Plan, PlanOf
  <2>5. LinksInv'
    <3> SUFFICES ASSUME NEW e \in edges PROVE \E y \in Runs : \E s \in Plan(y)' : e = Link(s)
      BY <2>1 DEF LinksInv, Link
    <3>1a. PICK y \in Runs : \E s \in Plan(y) : e = Link(s)
      BY DEF LinksInv
    <3>1. PICK s \in Plan(y) : e = Link(s)
      BY <3>1a
    <3> QED BY <3>1, <2>4
  <2>6. ParsedInv'
    BY <2>1, <2>2, <2>3 DEF ParsedInv, HadInv
  <2> QED BY <2>1, <2>5, <2>6 DEF OwnInv, HadInv
<1>2. ASSUME NEW r \in Runs, index_to_memgraph(r) PROVE OwnInv'
  <2>1. PICK s \in todo[r] : edges' = edges \cup Links(s)
    BY <1>2 DEF index_to_memgraph
  <2>2. /\ pc[r] = "running" /\ UNCHANGED <<source, target, parsed, had>>
        /\ pc' = [pc EXCEPT ![r] = pc'[r]] /\ pc'[r] # "new"
    BY <1>2 DEF index_to_memgraph, TypeOK
  <2>3. s \in Plan(r) /\ \A y \in Runs : Plan(y)' = Plan(y)
    BY <2>2 DEF TypeOK, Plan
  <2>4. \A e \in edges' : e \in edges \/ e = Link(s)
    BY <2>1 DEF Links, Link
  <2>5. LinksInv'
    <3> SUFFICES ASSUME NEW e \in edges' PROVE \E y \in Runs : \E u \in Plan(y) : e = Link(u)
      BY <2>3 DEF LinksInv, Link
    <3> QED BY <2>3, <2>4 DEF LinksInv
  <2>6. ParsedInv'
    <3>1. \A y \in Runs : pc'[y] = "new" => pc[y] = "new"
      BY <2>2 DEF TypeOK
    <3> QED BY <3>1, <2>2 DEF ParsedInv
  <2> QED BY <2>2, <2>5, <2>6 DEF OwnInv, HadInv
<1>3. ASSUME NEW r \in Runs, fail(r) \/ last_fails(r) \/ print_cypher(r) PROVE OwnInv'
  <2>1. UNCHANGED <<source, edges, target, parsed, had>>
    BY <1>3 DEF fail, last_fails, print_cypher
  <2>2. \A y \in Runs : pc'[y] = "new" => pc[y] = "new"
    BY <1>3 DEF fail, last_fails, print_cypher, TypeOK
  <2> QED BY <2>1, <2>2 DEF OwnInv, LinksInv, Link, Plan, ParsedInv, HadInv
<1>4. ASSUME NEW f \in Files, NEW x \in Texts, edit(f, x) PROVE OwnInv'
  <2>1. /\ source' = [source EXCEPT ![f] = x] /\ had' = [had EXCEPT ![f] = @ \cup {x}]
        /\ UNCHANGED <<edges, pc, target, parsed>>
    BY <1>4 DEF edit
  <2>2. (\A g \in Files : had[g] \subseteq had'[g]) /\ HadInv'
    BY <2>1 DEF TypeOK, HadInv
  <2>3. ParsedInv'
    BY <2>1, <2>2 DEF ParsedInv, TypeOK
  <2> QED BY <2>1, <2>2, <2>3 DEF OwnInv, LinksInv, Link, Plan
<1>5. CASE UNCHANGED vars
  BY <1>5 DEF vars, OwnInv, LinksInv, Link, Plan, ParsedInv, HadInv
<1> QED BY <1>1, <1>2, <1>3, <1>4, <1>5 DEF Next

\* A file is never credited with a symbol that it never had, but for a class that two
\* targets give the same name.
THEOREM OwnSymbolsOnly == Spec => []OwnSymbols
PROOF
<1>1. Init => OwnInv
  BY DEF Init, OwnInv, LinksInv, ParsedInv, HadInv
<1>2. []IInv /\ Spec => []OwnInv
  BY <1>1, OwnStep, PTL DEF Spec
<1>3. IInv /\ OwnInv => OwnSymbols
  BY OwnFollows DEF IInv
<1> QED BY Inductive, <1>2, <1>3, PTL

\* Every row of find_symbol and of get_code_context names a file that some run has read,
\* under whose name the symbol was found, in that file or, by mistake, in another one;
\* the answer "in no file", which the client has a case for, is never given.  Whether
\* the file is still there nobody can say: nothing is taken from the graph.
RowsNameReadFiles ==
  \A names : \A answer \in get_code_context(names) : \A row \in answer :
    \E r \in Runs : \E f \in DOMAIN parsed[r] :
      /\ row[2] = f
      /\ \/ \E t \in Targets, x \in had[f] : Under(f, t) /\ row[1] \in Symbols(t, f, x)
         \/ Mistaken(f, row[1])

\* It follows from Anchored and OwnSymbols, whatever is searched for: what a file
\* contains was linked to it by a run that had read it.
THEOREM RowsOfSearch == Spec => []RowsNameReadFiles
PROOF
<1>1. ASSUME Anchored, OwnSymbols, TypeOK, OwnInv, NEW names,
             NEW answer \in get_code_context(names), NEW row \in answer
      PROVE  \E r \in Runs : \E f \in DOMAIN parsed[r] :
               /\ row[2] = f
               /\ \/ \E t \in Targets, x \in had[f] : Under(f, t) /\ row[1] \in Symbols(t, f, x)
                  \/ Mistaken(f, row[1])
  <2> DEFINE paths(k) == {f \in Files : k \in get_file_symbols(f)}
             rows(k) == {<<k, p>> : p \in IF paths(k) = {} THEN {<<>>} ELSE paths(k)}
  <2>1. PICK k \in DOMAIN nodes : k[1] \in {"Class", "Function"} /\ row \in rows(k)
    BY <1>1 DEF get_code_context, find_symbol
  <2>2. paths(k) # {}
    BY <1>1, <2>1 DEF Anchored
  <2>3. PICK p \in paths(k) : row = <<k, p>>
    BY <2>1, <2>2
  <2>4. \E e \in edges : e[1] = File(p)
    BY <2>3 DEF get_file_symbols, Contained
  <2>5. PICK r \in Runs : \E s \in Plan(r) : s.owner = File(p)
    BY <1>1, <2>4 DEF OwnInv, LinksInv, Link
  <2>6. PICK s \in Plan(r) : s.owner = File(p)
    BY <2>5
  <2>7. s.file \in DOMAIN parsed[r] /\ s.owner = File(s.file)
    <3>1. s.owner = NoNode \/ s.owner = File(s.file)
          \/ \E c \in STRING : s.owner = Class(Prefix(target[r], s.file) \o <<c>>)
      BY <1>1, PlanPlace
    <3> QED BY <1>1, <2>6, <3>1, PlanShape, NodesDiffer, NodeLabels
  <2>8. s.file = p
    BY <2>6, <2>7, NodesDiffer
  <2> QED BY <1>1, <2>3, <2>7, <2>8 DEF OwnSymbols
<1>2. Anchored /\ OwnSymbols /\ TypeOK /\ OwnInv => RowsNameReadFiles
  BY <1>1 DEF RowsNameReadFiles
<1>3. Init => OwnInv
  BY DEF Init, OwnInv, LinksInv, ParsedInv, HadInv
<1>4. []IInv /\ Spec => []OwnInv
  BY <1>3, OwnStep, PTL DEF Spec
<1> QED BY Inductive, SymbolsAreAnchored, OwnSymbolsOnly, TypeCorrect, <1>2, <1>4, PTL
=============================================================================
