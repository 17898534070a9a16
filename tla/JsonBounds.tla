------------------------------ MODULE JsonBounds ------------------------------
(***************************************************************************)
(* What keeps cJSON_Parse() inside its buffer and its arrays, and what it  *)
(* leaves in memory.                                                       *)
(***************************************************************************)
EXTENDS Json

\* Labels, frames and items are in the range the code gives them, and the depth
\* counts the calls in progress within the limit.
TypeOK ==
  /\ text \in Seq(Cells)
  /\ depth \in 0 .. NestingLimit
  /\ at # "fail" /\ at # "failed" => depth = Len(frames)
  /\ \A i \in 1 .. Len(frames) :
       /\ frames[i].kind \in {"array", "object"} /\ frames[i].item \in 1 .. Len(nodes)
       /\ frames[i].head \in 0 .. Len(nodes) /\ frames[i].last \in 0 .. Len(nodes)
  /\ at \in {"start", "value", "element", "name", "after", "close", "fail", "parsed", "failed", "edited", "printed"}
  /\ \A i \in 1 .. Len(nodes) :
       /\ nodes[i].type \in {"none", "scalar", "string", "array", "object"}
       /\ {nodes[i].next, nodes[i].prev, nodes[i].child} \subseteq 0 .. Len(nodes)
  /\ live \subseteq {"item", "name", "value"} \X (1 .. Len(nodes))

\* The reading position never leaves the buffer, although parse_object reads the
\* first byte of a name without a check: the terminator counts as a blank, and
\* skipping blanks steps back onto it.
InBuffer == offset \in 0 .. Length - 1

\* cJSON_Parse frees no block twice, frees everything when it gives up, at any depth or
\* for lack of memory, and returns everything it has allocated when it does not.
ParserLosesNothing ==
  /\ ~corrupt
  /\ at = "failed" => live = {}
  /\ at = "parsed" => live = Blocks(nodes, Root)

=============================================================================
