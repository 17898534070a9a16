------------------------- MODULE JsonPrintProperties --------------------------
(***************************************************************************)
(* What the printing functions of utils/cJSON.c should guarantee.          *)
(***************************************************************************)
EXTENDS JsonPrint, JsonEditProperties

\* The tokens of the item just printed, without those of its siblings: an element has no
\* name, a member has one although its item may not.
PrintedTokens ==
  LET T[n \in 1 .. Len(nodes), among \in {"none", "array", "object"}] ==
        (IF among = "object" THEN <<"string", ":">> ELSE <<>>)
          \o (IF nodes[n].type \notin {"array", "object"} THEN <<nodes[n].type>>
              ELSE <<Opener[nodes[n].type]>>
                     \o (IF nodes[n].child = Null THEN <<>> ELSE T[nodes[n].child, nodes[n].type])
                     \o <<Closer[nodes[n].type]>>)
          \o (IF among = "none" \/ nodes[n].next = Null THEN <<>> ELSE <<",">> \o T[nodes[n].next, among])
  IN T[result, "none"]

\* Every piece fits the room that was asked for it, with its terminator, at every depth
\* and in every buffer, and update_offset always finds a terminator.  A printer that
\* fails has freed its buffer, once, although ensure may have done so already; one that
\* succeeds has the one block it returns; and a caller's buffer is left to the caller.
PrintBufferIsKept ==
  /\ ~printed.overrun
  /\ at = "printed" => printed.owned = IF printed.ok /\ ~printed.noalloc THEN 1 ELSE 0

\* A printed text has the tokens of the tree, and ends in a terminator.  Printing only
\* fails for want of memory, of room up to INT_MAX, or in a buffer that has not even
\* one byte more than the text and its terminator, of the five that cJSON.h:162 asks for.
PrintsTheTree ==
  at = "printed" =>
    LET full == print_value(Printbuffer(IntMax, printed.format, TRUE, 0), result)
    IN IF printed.ok THEN Tokens(printed.text)[Len(printed.text)] = PrintedTokens /\ printed.ended
       ELSE full.ok => IF printed.noalloc THEN printed.length < Width(full.text) + 2 ELSE printed.left = 0

=============================================================================
