------------------------------ MODULE JsonPrint -------------------------------
(***************************************************************************)
(* The functions of utils/cJSON.c that render a tree as text, in a buffer  *)
(* that grows, in one of a guessed size that grows, or in one the caller   *)
(* has.  Every piece of text is preceded by a call of ensure, which has to *)
(* ask for all the bytes the piece takes.  Strings are empty, two bytes    *)
(* with their quotes; every other cell is a byte.  What a number and a     *)
(* string with escapes look like is in JsonScalar.                         *)
(***************************************************************************)
EXTENDS JsonEdit

CONSTANTS
  DefaultSize,  \* default_buffer_size
  IntMax,       \* INT_MAX
  Sizes,        \* the sizes of the buffers that callers give or guess
  PrintLimit    \* bound: calls before a tree is printed

VARIABLES printed  \* the last printbuffer; ok says that printing did not fail

printVars == <<editVars, printed>>

\* A printbuffer of length bytes.  owned is the number of blocks the printer has to free
\* or to return, buffer says that the pointer to it is not NULL, left the number of allocations that succeed, ended says that the last
\* write ended in a terminator, and overrun that one went beyond the buffer.
Printbuffer(length, format, noalloc, left) ==
  [text |-> <<>>, offset |-> 0, length |-> length, depth |-> 0, format |-> format,
   noalloc |-> noalloc, buffer |-> TRUE, left |-> left, owned |-> IF noalloc THEN 0 ELSE 1,
   ok |-> TRUE, ended |-> FALSE, overrun |-> FALSE]

PrintInit == EditInit /\ printed = Printbuffer(0, FALSE, TRUE, 0)

Width(cells) == Len(cells) + Cardinality({i \in 1 .. Len(cells) : cells[i] = "string"})
Tabs(n) == [i \in 1 .. n |-> "blank"]

Failed(p) == [p EXCEPT !.ok = FALSE]

\* Mutant: the last byte is never used.
FitsStrictly(p, size) == size < p.length

Fits(p, size) == size <= p.length

\* Mutant: the pointer to the freed buffer stays.
OutgrownDangling(p) == [Failed(p) EXCEPT !.owned = @ - 1, !.length = 0]

\* The buffer cannot be made longer, and is freed.
Outgrown(p) == [Failed(p) EXCEPT !.owned = @ - 1, !.length = 0, !.buffer = FALSE]

\* ensure; a printer that has failed once returns, and asks no more.
Ensured(p, needed) ==
  LET size == needed + p.offset + 1
  IN IF ~p.ok \/ (p.length > 0 /\ p.offset >= p.length) \/ needed > IntMax THEN Failed(p)
     ELSE IF Fits(p, size) THEN p
     ELSE IF p.noalloc \/ size > IntMax THEN Failed(p)
     ELSE IF p.left = 0 THEN Outgrown(p)
     ELSE [p EXCEPT !.length = IF size > IntMax \div 2 THEN IntMax ELSE 2 * size, !.left = @ - 1]

\* Cells are written, with a terminator or without, once there is room for needed bytes.
Written(p, needed, cells, terminator) ==
  LET q   == Ensured(p, needed)
      end == q.offset + Width(cells) + (IF terminator THEN 1 ELSE 0)
  IN IF ~q.ok THEN q
     ELSE [q EXCEPT !.text = @ \o cells, !.offset = @ + Width(cells), !.ended = terminator,
                    !.overrun = @ \/ end > q.length]

\* print_string_ptr of an empty string, or of none.
String(p) == Written(p, 3, <<"string">>, TRUE)

\* The end of print_object.
Closed(p) ==
  [Written(p, IF p.format THEN p.depth + 1 ELSE 2,
           (IF p.format THEN Tabs(p.depth - 1) ELSE <<>>) \o <<"}">>, TRUE) EXCEPT !.depth = @ - 1]

Opened(p, needed, cells) == [Written(p, needed, cells, FALSE) EXCEPT !.depth = @ + 1]

\* update_offset looks for the terminator of what has just been written.
Updated(p) == [p EXCEPT !.overrun = @ \/ (p.ok /\ ~p.ended)]

\* What follows the first of the members that are left.
Separator(p, list) == (IF Len(list) > 1 THEN <<",">> ELSE <<>>) \o (IF p.format THEN <<"blank">> ELSE <<>>)

RECURSIVE print_value(_, _), Elements(_, _), Members(_, _)

\* print_value, print_array and print_object of item n; a literal of w bytes asks for w + 1.
print_value(p, n) ==
  LET list == Chain(nodes, nodes[n].child, Len(nodes))
  IN CASE nodes[n].type = "scalar" -> Written(p, 2, <<"scalar">>, TRUE)
       [] nodes[n].type = "string" -> String(p)
       [] nodes[n].type = "array" ->
            [Written(Elements(Opened(p, 1, <<"[">>), list), 2, <<"]">>, TRUE) EXCEPT !.depth = @ - 1]
       [] nodes[n].type = "object" ->
            Closed(Members(IF p.format THEN Opened(p, 3, <<"{", "blank">>) ELSE Opened(p, 2, <<"{">>), list))
       [] OTHER -> Failed(p)

Elements(p, list) ==
  LET value == Updated(print_value(p, Head(list)))
  IN IF list = <<>> \/ ~p.ok THEN p
     ELSE IF Len(list) = 1 THEN value
     ELSE Elements(IF p.format THEN Written(value, 3, <<",", "blank">>, TRUE) ELSE Written(value, 2, <<",">>, TRUE),
                   Tail(list))

Members(p, list) ==
  LET tabs  == IF p.format THEN Written(p, p.depth, Tabs(p.depth), FALSE) ELSE p
      key   == Updated(String(tabs))
      colon == IF p.format THEN Written(key, 2, <<":", "blank">>, FALSE) ELSE Written(key, 1, <<":">>, FALSE)
      value == Updated(print_value(colon, Head(list)))
      end   == Separator(p, list)
  IN IF list = <<>> \/ ~p.ok THEN p
     ELSE Members(Written(value, Len(end) + 1, end, TRUE), Tail(list))

\* The label fail of print, and the end of cJSON_PrintBuffered.
Freeing(p) == IF p.ok THEN p ELSE [p EXCEPT !.owned = IF p.buffer THEN @ - 1 ELSE @]

-----------------------------------------------------------------------------

Prints(p, n) ==
  /\ printed' = p /\ at' = "printed" /\ result' = n
  /\ UNCHANGED <<parser, nodes, live, corrupt, starved, held, lost, calls>>

\* print, for cJSON_Print and cJSON_PrintUnformatted: a buffer, which may grow, and a last
\* allocation of the text's own length.
PrintText(n, format, left) ==
  LET p == Updated(print_value(Printbuffer(DefaultSize, format, FALSE, left - 1), n))
  IN IF left = 0 THEN Prints([Failed(Printbuffer(0, format, FALSE, 0)) EXCEPT !.owned = 0], n)
     ELSE IF p.ok /\ p.left = 0 THEN Prints(Freeing(Failed(p)), n)
     ELSE Prints(Freeing(p), n)

PrintBuffered(n, prebuffer, format, left) ==
  IF left = 0 THEN Prints([Failed(Printbuffer(0, format, FALSE, 0)) EXCEPT !.owned = 0], n)
  ELSE Prints(Freeing(print_value(Printbuffer(prebuffer, format, FALSE, left - 1), n)), n)

PrintPreallocated(n, length, format) == Prints(print_value(Printbuffer(length, format, TRUE, 0), n), n)

PrintNext ==
  \/ EditNext /\ UNCHANGED printed
  \/ /\ at \in {"parsed", "edited"} /\ text \in EditedTexts /\ calls <= PrintLimit
     /\ \E n \in held, format \in BOOLEAN :
          /\ \A i \in Tree(n) : ~nodes[i].reference
          /\ \/ \E left \in Lefts(4) : PrintText(n, format, left)
             \/ \E size \in Sizes :
                  (\E left \in Lefts(4) : PrintBuffered(n, size, format, left)) \/ PrintPreallocated(n, size, format)

PrintSpec == PrintInit /\ [][PrintNext]_printVars

=============================================================================
