---------------------------- MODULE JsonProperties ----------------------------
(***************************************************************************)
(* What cJSON_Parse() promises: it accepts the texts that start with a     *)
(* value, builds the tree the text spells, and leaks nothing.              *)
(***************************************************************************)
EXTENDS JsonBounds

-----------------------------------------------------------------------------
(* The grammar of cJSON, over the offsets between the cells of a text *)

\* The cells of t from offset i to offset j are c, after any blanks.
Token(t, c, i, j) == i < j /\ t[j] = c /\ \A k \in i + 1 .. j - 1 : t[k] = "blank"

\* The value of an element that starts at i starts at v, behind the name in an object.
ValueAt(t, kind, i, v) ==
  \/ kind = "array" /\ v = i
  \/ kind = "object" /\ \E n \in i .. v : Token(t, "string", i, n) /\ Token(t, ":", n, v)

\* An array or object goes on so behind an element: with its closer, or a comma and the rest.
Rest(t, Is, kind, d, i, j) ==
  \/ Token(t, Closer[kind], i, j)
  \/ \E k \in i .. j : Token(t, ",", i, k) /\ Is[<<kind, d, k, j>>]

\* From i to j there is a value with at most d levels of nesting, or what is left of an
\* array or object at one of its elements, if Is tells what shorter stretches are.
Phrase(t, Is, what, d, i, j) ==
  \/ what = "value" /\ (Token(t, "scalar", i, j) \/ Token(t, "string", i, j))
  \/ what = "value" /\ d > 0 /\ \E kind \in {"array", "object"}, k \in i .. j :
       /\ Token(t, Opener[kind], i, k)
       /\ Token(t, Closer[kind], k, j) \/ Is[<<kind, d - 1, k, j>>]
  \/ what # "value" /\ \E v \in i .. j :
       /\ ValueAt(t, what, i, v)
       /\ \E e \in v .. j : Is[<<"value", d, v, e>>] /\ Rest(t, Is, what, d, e, j)

Stretches(t) ==
  {"value", "array", "object"} \X (0 .. NestingLimit) \X (0 .. Len(t)) \X (0 .. Len(t))

Grammar(t) ==
  LET Is[p \in Stretches(t)] == Phrase(t, Is, p[1], p[2], p[3], p[4])
  IN Is

StartsWithValue ==
  LET first == IF Cell(0) = "bom" THEN 1 ELSE 0
  IN \E j \in 0 .. Len(text) : Grammar(text)[<<"value", NestingLimit, first, j>>]

\* A text is accepted exactly if it starts with a value that is not nested too
\* deeply, unless memory ran out; what follows the value is not looked at.
AcceptsTheGrammar ==
  /\ at = "parsed" => StartsWithValue
  /\ at = "failed" /\ ~starved => ~StartsWithValue

-----------------------------------------------------------------------------
(* The tree *)

\* The first n cells of a text without its blanks and byte order mark, for every n.
Tokens(t) ==
  LET T[n \in 0 .. Len(t)] ==
        IF n = 0 THEN <<>>
        ELSE IF t[n] = "blank" \/ (n = 1 /\ t[n] = "bom") THEN T[n - 1] ELSE Append(T[n - 1], t[n])
  IN T

\* The tokens of item n and of its later siblings.
Spelling ==
  LET S[n \in 1 .. Len(nodes)] ==
        (IF nodes[n].name # Unnamed THEN <<"string", ":">> ELSE <<>>)
          \o (IF nodes[n].type \notin {"array", "object"} THEN <<nodes[n].type>>
              ELSE <<Opener[nodes[n].type]>>
                     \o (IF nodes[n].child = Null THEN <<>> ELSE S[nodes[n].child])
                     \o <<Closer[nodes[n].type]>>)
          \o (IF nodes[n].next = Null THEN <<>> ELSE <<",">> \o S[nodes[n].next])
  IN S[Root]

\* The tree that is returned spells the part of the text that was read, and its
\* lists are linked both ways, the first element's prev pointing to the last.
TreeIsTheText ==
  at = "parsed" =>
    /\ Spelling = Tokens(text)[offset]
    /\ \A n \in 1 .. Len(nodes) : nodes[n].next # Null => nodes[nodes[n].next].prev = n
    /\ \A n \in 1 .. Len(nodes) :
         nodes[n].child # Null =>
           \E last \in Listed(nodes, nodes[n].child) :
             nodes[last].next = Null /\ nodes[nodes[n].child].prev = last

=============================================================================
