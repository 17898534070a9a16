-------------------------- MODULE JsonEditProperties --------------------------
(***************************************************************************)
(* What the editing functions of utils/cJSON.c should guarantee.           *)
(***************************************************************************)
EXTENDS JsonEdit, JsonProperties

Edited == at \in {"parsed", "edited"}

\* Every item is a root or in the list of one parent, once; the lists can be followed
\* both ways and the first item knows the last, which the next addition relies on;
\* a root has no neighbours.
WellLinked ==
  /\ \A n \in held : nodes[n].next = Null /\ nodes[n].prev = Null
  /\ \A p \in Parents :
       LET list == Children(nodes, p)
       IN \A k \in 1 .. Len(list) :
            /\ nodes[list[k]].prev = list[IF k = 1 THEN Len(list) ELSE k - 1]
            /\ list[k] \notin held
            /\ \A j \in 1 .. Len(list) : list[j] = list[k] => j = k
            /\ \A q \in Parents \ {p} : list[k] \notin Childs(q)

\* Nothing is freed twice, and what is not freed is in a tree the caller has: the one the
\* parser returns, none if it failed, or those that edits leave, whichever allocation
\* fails.  Only a reference that could not be named is lost (cJSON.c:2072).
NothingLeaked ==
  /\ ~corrupt /\ ParserLosesNothing
  /\ Edited => live = UNION {Blocks(nodes, n) : n \in held \cup lost}
  /\ lost # {} => starved

Lists ==
  [n \in Reachable |->
     [type |-> IF nodes[n].reference THEN "reference" ELSE nodes[n].type, name |-> nodes[n].name,
      children |-> Children(nodes, n)]]

Promise == INSTANCE JsonTree WITH tree <- Lists, roots <- held

\* Parsing and editing pointers implement the trees of JsonTree: a call puts one item in,
\* takes one out or exchanges one, and every other list stays as it was.
ImplementsTree == Promise!Spec

\* A call that reports failure has changed no list, and no name but that of the item
\* it was to put in place of another.
FailureChangesNoList ==
  [][calls' # calls /\ result' = 0 =>
       /\ held' = held /\ Reachable' = Reachable
       /\ \A n \in Reachable : /\ Lists'[n].children = Lists[n].children
                               /\ n \notin held => Lists'[n] = Lists[n]]_editVars

\* Members that a search by name can tell apart.
Tidy(n) ==
  \A p \in Tree(n) : nodes[p].type = "object" =>
    \A m \in Childs(p) : /\ nodes[m].name # Unnamed
                         /\ \A k \in Childs(p) \ {m} : Fold(nodes[k].name) # Fold(nodes[m].name)

\* A copy is equal to its original, and lives on its own: cJSON_Compare says so of every
\* tree without nameless members and members of one name, and no block is shared.
CopyIsEqual ==
  Edited => \A n \in Reachable :
    LET copy == Duplicated(Heap, n, TRUE, Cardinality(Blocks(nodes, n)))
    IN (\A i \in Tree(n) : ~nodes[i].reference) =>
         /\ Blocks(copy.heap.nodes, copy.item) = copy.heap.live \ live
         /\ Tidy(n) => \A sensitive \in BOOLEAN : Compare(copy.heap.nodes, n, copy.item, sensitive)

=============================================================================
