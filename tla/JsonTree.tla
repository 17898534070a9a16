------------------------------- MODULE JsonTree -------------------------------
(***************************************************************************)
(* What the editing functions of utils/cJSON.c promise, without pointers   *)
(* or memory: each item has a sequence of children, an item is a root or   *)
(* in one sequence, and a call changes one sequence, at one place.         *)
(***************************************************************************)
EXTENDS Naturals, Sequences, SequencesExt

VARIABLES
  tree,  \* tree[n]: the type of item n, its name, and the sequence of its children
  roots  \* the items that are in no sequence

tvars == <<tree, roots>>

\* Some items and no others.
Only(S) == [n \in S |-> tree[n]]

\* An item and the items below it.
RECURSIVE Family(_)
Family(n) == {n} \cup UNION {Family(tree[n].children[k]) : k \in 1 .. Len(tree[n].children)}

\* The other items stay as they are.
Keep(S) == \A n \in S : tree'[n] = tree[n]

Init == tree = <<>> /\ roots = {}

\* A text is parsed.
Load == roots = {} /\ tree = <<>> /\ Cardinality(roots') = 1

New == DOMAIN tree' \ DOMAIN tree

\* A tree of new items, with root n.
Make(n) ==
  /\ roots' = roots \cup {n}
  /\ DOMAIN tree' = DOMAIN tree \cup Family(n)' /\ Keep(DOMAIN tree)

\* A new item is put into the children of p.
Grow(p, n) ==
  /\ UNCHANGED roots
  /\ DOMAIN tree' = DOMAIN tree \cup {n} /\ Keep(DOMAIN tree \ {p}) /\ tree'[n].children = <<>>
  /\ \E k \in 1 .. Len(tree[p].children) + 1 :
       tree'[p] = [tree[p] EXCEPT !.children = InsertAt(@, k, n)]

\* A root is put into the children of p, and may be given a name.
Adopt(p, n) ==
  /\ roots' = roots \ {n}
  /\ DOMAIN tree' = DOMAIN tree /\ Keep(DOMAIN tree \ {p, n}) /\ tree'[n] = [tree[n] EXCEPT !.name = tree'[n].name]
  /\ \E k \in 1 .. Len(tree[p].children) + 1 :
       tree'[p] = [tree[p] EXCEPT !.children = InsertAt(@, k, n)]

\* The child n of p at place k becomes a root.
Release(p, k, n) ==
  /\ roots' = roots \cup {n} /\ n = tree[p].children[k]
  /\ tree' = [tree EXCEPT ![p].children = RemoveAt(@, k)]

\* It is deleted, with what is below it.
Prune(p, k) ==
  LET rest == DOMAIN tree \ Family(tree[p].children[k])
  IN /\ UNCHANGED roots
     /\ tree' = [Only(rest) EXCEPT ![p].children = RemoveAt(@, k)]

\* It is deleted, and a root n takes its place and may be given a name.
Exchange(p, k, n) ==
  LET rest == DOMAIN tree \ Family(tree[p].children[k])
  IN /\ roots' = roots \ {n} /\ DOMAIN tree' = rest
     /\ Keep(rest \ {p, n})
     /\ tree'[n] = [tree[n] EXCEPT !.name = tree'[n].name]
     /\ tree'[p] = [tree[p] EXCEPT !.children = ReplaceAt(@, k, n)]

\* A root is given a name.
Rename(n) ==
  /\ UNCHANGED roots /\ DOMAIN tree' = DOMAIN tree
  /\ Keep(DOMAIN tree \ {n}) /\ tree'[n] = [tree[n] EXCEPT !.name = tree'[n].name]

Drop(n) == roots' = roots \ {n} /\ tree' = Only(DOMAIN tree \ Family(n))

Places(p) == 1 .. Len(tree[p].children)

Next ==
  \/ Load
  \/ \E n \in roots' \ roots : Make(n) \/ \E p \in DOMAIN tree : \E k \in Places(p) : Release(p, k, n)
  \/ \E n \in roots : \/ Rename(n) \/ Drop(n)
                      \/ \E p \in DOMAIN tree : Adopt(p, n) \/ \E k \in Places(p) : Exchange(p, k, n)
  \/ \E p \in DOMAIN tree : (\E n \in New : Grow(p, n)) \/ (\E k \in Places(p) : Prune(p, k))

Spec == Init /\ [][Next]_tvars

=============================================================================
