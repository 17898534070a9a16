--------------------------------- MODULE Json ---------------------------------
(***************************************************************************)
(* The parser of utils/cJSON.c that reads the configuration file: a        *)
(* recursive descent over a buffer, which builds items linked to their     *)
(* siblings and children, and deletes them when a text is no JSON, nested  *)
(* too deeply, or memory runs out.  A string literal is one cell of the    *)
(* text, and so is a number or a literal such as true.                     *)
(***************************************************************************)
EXTENDS Naturals, Sequences, FiniteSets

CONSTANTS
  Texts,         \* the contents of files, as sequences of cells
  NestingLimit,  \* CJSON_NESTING_LIMIT
  Faults         \* subset of {"malloc"}

ASSUME LimitAssumption == NestingLimit \in Nat

\* A scalar that is not a string, a string literal, and what no value starts with.
Cells == {"[", "]", "{", "}", ",", ":", "scalar", "string", "blank", "bom", "other"}
ASSUME TextsAssumption == \A t \in Texts : t \in Seq(Cells)

NUL   == "NUL"
Null  == 0
Unnamed == ""
Root  == 1

VARIABLES
  text,     \* the bytes before the terminator
  offset,   \* buffer.offset
  depth,    \* buffer.depth
  frames,   \* the calls of parse_array and parse_object in progress
  at,       \* what is parsed next
  nodes,    \* the items made so far, in order of allocation
  live,     \* the blocks not yet freed: <<"item", n>>, <<"name", n>>, <<"value", n>>
  corrupt,  \* a block that was not live has been freed
  starved   \* an allocation has failed

vars == <<text, offset, depth, frames, at, nodes, live, corrupt, starved>>

\* buffer.length counts the terminator.
Length == Len(text) + 1

Cell(o) == IF o < Len(text) THEN text[o + 1] ELSE NUL

Blank == {"blank", NUL}

\* Mutant: the step back from the end of the buffer is left out.
SkipSpacesToEnd(o) ==
  CHOOSE e \in o .. Length :
    /\ \A i \in o .. e - 1 : Cell(i) \in Blank
    /\ e = Length \/ Cell(e) \notin Blank

\* buffer_skip_whitespace: every byte up to 32, and so the terminator, is a blank.
SkipSpaces(o) ==
  IF o >= Length THEN o
  ELSE LET end == CHOOSE e \in o .. Length :
                    /\ \A i \in o .. e - 1 : Cell(i) \in Blank
                    /\ e = Length \/ Cell(e) \notin Blank
       IN IF end = Length THEN end - 1 ELSE end

Top == frames[Len(frames)]
Pop == SubSeq(frames, 1, Len(frames) - 1)
Opener == [array |-> "[", object |-> "{"]
Closer == [array |-> "]", object |-> "}"]

\* The item that parse_value fills in.
Current == IF frames = <<>> THEN Root ELSE Top.last

\* What cJSON_New_Item gives.  constant is the flag cJSON_StringIsConst, reference is
\* cJSON_IsReference.
Item == [type |-> "none", name |-> Unnamed, value |-> FALSE, constant |-> FALSE, reference |-> FALSE,
         next |-> Null, prev |-> Null, child |-> Null]

\* The items of items that cJSON_Delete(n) visits.
Listed(items, n) ==
  LET L[i \in 0 .. Len(items)] ==
        IF i = Null THEN {}
        ELSE {i} \cup L[items[i].next] \cup (IF items[i].reference THEN {} ELSE L[items[i].child])
  IN L[n]

\* The blocks of item i alone.
Own(item, i) ==
  {<<"item", i>>}
    \cup (IF item.name # Unnamed /\ ~item.constant THEN {<<"name", i>>} ELSE {})
    \cup (IF item.value /\ ~item.reference THEN {<<"value", i>>} ELSE {})

\* The blocks cJSON_Delete(n) frees.
Blocks(items, n) == UNION {Own(items[i], i) : i \in Listed(items, n)}

cJSON_Delete(n) ==
  /\ live' = live \ Blocks(nodes, n)
  /\ corrupt' = (corrupt \/ ~(Blocks(nodes, n) \subseteq live))

Init ==
  /\ text \in Texts
  /\ offset = 0 /\ depth = 0 /\ frames = <<>>
  /\ at = "start"
  /\ nodes = <<>> /\ live = {} /\ corrupt = FALSE /\ starved = FALSE

-----------------------------------------------------------------------------

\* cJSON_ParseWithLengthOpts allocates the root and skips a byte order mark, if
\* there is something behind it.
Start ==
  /\ at = "start"
  /\ nodes' = <<Item>> /\ live' = {<<"item", Root>>}
  /\ offset' = SkipSpaces(IF Cell(0) = "bom" /\ Cell(1) # NUL THEN 1 ELSE 0)
  /\ at' = "value"
  /\ UNCHANGED <<text, depth, frames, corrupt, starved>>

OutOfMemory ==
  /\ "malloc" \in Faults
  /\ \/ at \in {"start", "element"}
     \/ at \in {"value", "name"} /\ Cell(offset) = "string"
  /\ starved' = TRUE
  /\ at' = IF at = "start" THEN "failed" ELSE "fail"
  /\ UNCHANGED <<text, offset, depth, frames, nodes, live, corrupt>>

ParseScalar ==
  /\ at = "value" /\ Cell(offset) = "scalar"
  /\ nodes' = [nodes EXCEPT ![Current].type = "scalar"]
  /\ offset' = offset + 1 /\ at' = "after"
  /\ UNCHANGED <<text, depth, frames, live, corrupt, starved>>

ParseString ==
  /\ at = "value" /\ Cell(offset) = "string"
  /\ nodes' = [nodes EXCEPT ![Current].type = "string", ![Current].value = TRUE]
  /\ live' = live \cup {<<"value", Current>>}
  /\ offset' = offset + 1 /\ at' = "after"
  /\ UNCHANGED <<text, depth, frames, corrupt, starved>>

NoValue ==
  /\ at = "value" /\ Cell(offset) \notin {"scalar", "string", "[", "{"}
  /\ at' = "fail"
  /\ UNCHANGED <<text, offset, depth, frames, nodes, live, corrupt, starved>>

\* Mutant: one level too many.
OpenDeeper(kind) ==
  LET o == SkipSpaces(offset + 1)
  IN /\ at = "value" /\ Cell(offset) = Opener[kind]
     /\ IF depth > NestingLimit
        THEN at' = "fail" /\ UNCHANGED <<offset, depth, frames>>
        ELSE /\ depth' = depth + 1
             /\ frames' = Append(frames, [kind |-> kind, item |-> Current, head |-> Null, last |-> Null])
             /\ IF Cell(o) = Closer[kind]
                THEN at' = "close" /\ offset' = o
                ELSE at' = "element" /\ offset' = o - 1
     /\ UNCHANGED <<text, nodes, live, corrupt, starved>>

\* The start of parse_array or parse_object, up to the first element.
Open(kind) ==
  LET o == SkipSpaces(offset + 1)
  IN /\ at = "value" /\ Cell(offset) = Opener[kind]
     /\ IF depth >= NestingLimit
        THEN at' = "fail" /\ UNCHANGED <<offset, depth, frames>>
        ELSE /\ depth' = depth + 1
             /\ frames' = Append(frames, [kind |-> kind, item |-> Current, head |-> Null, last |-> Null])
             /\ IF Cell(o) = Closer[kind]
                THEN at' = "close" /\ offset' = o
                ELSE at' = "element" /\ offset' = o - 1
     /\ UNCHANGED <<text, nodes, live, corrupt, starved>>

\* Mutant: every item is linked behind the first.
ElementBehindHead ==
  LET n == Len(nodes) + 1
  IN /\ at = "element"
     /\ live' = live \cup {<<"item", n>>}
     /\ frames' = [frames EXCEPT ![Len(frames)].head = IF @ = Null THEN n ELSE @,
                                 ![Len(frames)].last = n]
     /\ nodes' = Append(IF Top.head = Null THEN nodes ELSE [nodes EXCEPT ![Top.head].next = n],
                        [Item EXCEPT !.prev = Top.last])
     /\ offset' = SkipSpaces(offset + 1)
     /\ at' = IF Top.kind = "object" THEN "name" ELSE "value"
     /\ UNCHANGED <<text, depth, corrupt, starved>>

\* A new item is put behind the last one; offset is at the opener or a comma.
Element ==
  LET n == Len(nodes) + 1
  IN /\ at = "element"
     /\ live' = live \cup {<<"item", n>>}
     /\ frames' = [frames EXCEPT ![Len(frames)].head = IF @ = Null THEN n ELSE @,
                                 ![Len(frames)].last = n]
     /\ nodes' = Append(IF Top.last = Null THEN nodes ELSE [nodes EXCEPT ![Top.last].next = n],
                        [Item EXCEPT !.prev = Top.last])
     /\ offset' = SkipSpaces(offset + 1)
     /\ at' = IF Top.kind = "object" THEN "name" ELSE "value"
     /\ UNCHANGED <<text, depth, corrupt, starved>>

\* Mutant: the colon is taken for granted.
NameWithoutColon ==
  LET o == SkipSpaces(offset + 1)
  IN /\ at = "name" /\ Cell(offset) = "string"
     /\ nodes' = [nodes EXCEPT ![Current].name = Cell(offset)]
     /\ live' = live \cup {<<"name", Current>>}
     /\ offset' = SkipSpaces(IF Cell(o) = ":" THEN o + 1 ELSE o) /\ at' = "value"
     /\ UNCHANGED <<text, depth, frames, corrupt, starved>>

Name ==
  LET o == SkipSpaces(offset + 1)
  IN /\ at = "name" /\ Cell(offset) = "string"
     /\ nodes' = [nodes EXCEPT ![Current].name = Cell(offset)]
     /\ live' = live \cup {<<"name", Current>>}
     /\ IF Cell(o) = ":" THEN offset' = SkipSpaces(o + 1) /\ at' = "value"
                         ELSE offset' = o /\ at' = "fail"
     /\ UNCHANGED <<text, depth, frames, corrupt, starved>>

NoName ==
  /\ at = "name" /\ Cell(offset) # "string"
  /\ at' = "fail"
  /\ UNCHANGED <<text, offset, depth, frames, nodes, live, corrupt, starved>>

\* parse_value has returned true.
After ==
  LET o == SkipSpaces(offset)
  IN /\ at = "after"
     /\ IF frames = <<>> THEN at' = "parsed" /\ UNCHANGED offset
        ELSE /\ offset' = o
             /\ at' = IF Cell(o) = "," THEN "element"
                      ELSE IF Cell(o) = Closer[Top.kind] THEN "close" ELSE "fail"
     /\ UNCHANGED <<text, depth, frames, nodes, live, corrupt, starved>>

\* The label success: the list becomes the children of the item.
Close ==
  LET linked == IF Top.head = Null THEN nodes ELSE [nodes EXCEPT ![Top.head].prev = Top.last]
  IN /\ at = "close"
     /\ nodes' = [linked EXCEPT ![Top.item].type = Top.kind, ![Top.item].child = Top.head]
     /\ frames' = Pop /\ depth' = depth - 1
     /\ offset' = offset + 1 /\ at' = "after"
     /\ UNCHANGED <<text, live, corrupt, starved>>

\* Mutant: the elements of the array or object are not deleted.
FailOnlyRoot ==
  /\ at = "fail"
  /\ IF frames = <<>>
     THEN cJSON_Delete(Root) /\ at' = "failed" /\ UNCHANGED frames
     ELSE frames' = Pop /\ UNCHANGED <<at, live, corrupt>>
  /\ UNCHANGED <<text, offset, depth, nodes, starved>>

\* The label fail of one call; its caller fails in turn, and the last one deletes
\* the root.
Fail ==
  /\ at = "fail"
  /\ IF frames = <<>>
     THEN cJSON_Delete(Root) /\ at' = "failed" /\ UNCHANGED frames
     ELSE cJSON_Delete(Top.head) /\ frames' = Pop /\ UNCHANGED at
  /\ UNCHANGED <<text, offset, depth, nodes, starved>>

Next ==
  \/ Start \/ OutOfMemory
  \/ ParseScalar \/ ParseString \/ NoValue
  \/ \E kind \in {"array", "object"} : Open(kind)
  \/ Element \/ Name \/ NoName \/ After \/ Close
  \/ Fail

Spec == Init /\ [][Next]_vars

=============================================================================
