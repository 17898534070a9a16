--------------------------- MODULE JsonParserProofs ---------------------------
(***************************************************************************)
(* What keeps cJSON_Parse() inside its buffer, what it leaves in memory,   *)
(* which texts it accepts and which tree it builds, for every text, every  *)
(* limit on nesting and every fault.                                       *)
(***************************************************************************)
EXTENDS JsonProperties, Numbers, SequenceTheorems

\* TypeOK with the items and frames as sequences of records.
Kinds  == {"array", "object"}
Items  == [type : {"none", "scalar", "string"} \cup Kinds, name : Cells \cup {Unnamed}, value : BOOLEAN,
           constant : BOOLEAN, reference : BOOLEAN, next : Nat, prev : Nat, child : Nat]
Frames == [kind : Kinds, item : Nat, head : Nat, last : Nat]

SequencesOK == text \in Seq(Cells) /\ nodes \in Seq(Items) /\ frames \in Seq(Frames)

\* The links of the items lead to the first count items, or nowhere.
Linked(items, count) ==
  \A i \in 1 .. Len(items) :
    /\ items[i].next \in 0 .. count
    /\ items[i].prev \in 0 .. count
    /\ items[i].child \in 0 .. count

\* Every link and every item of a frame is an item that has been made.
LinksOK ==
  /\ Linked(nodes, Len(nodes))
  /\ \A i \in 1 .. Len(frames) :
       /\ frames[i].item \in 1 .. Len(nodes)
       /\ frames[i].head \in 0 .. Len(nodes) /\ frames[i].last \in 0 .. Len(nodes)
  /\ live \subseteq {"item", "name", "value"} \X (1 .. Len(nodes))

\* Where the parser is says what it has: the root, an array or object it is inside
\* of, an item there to be filled in; and calls below the last one are at an item.
LabelsOK ==
  /\ at \in {"start", "value", "element", "name", "after", "close", "fail", "parsed", "failed"}
  /\ at \notin {"start", "failed"} => nodes # <<>>
  /\ at = "start" => frames = <<>> /\ nodes = <<>>
  /\ at \in {"element", "name", "close"} => frames # <<>>
  /\ at \in {"value", "name", "after"} => \A i \in 1 .. Len(frames) : frames[i].last # Null
  /\ at \in {"element", "close"} => \A i \in 1 .. Len(frames) - 1 : frames[i].last # Null

\* Each call in progress is one level of nesting.
DepthOK ==
  /\ depth \in 0 .. NestingLimit
  /\ at \notin {"fail", "failed"} => depth = Len(frames)

\* Where one more byte is passed without a check there is one before the terminator.
OffsetOK ==
  /\ offset \in 0 .. Len(text)
  /\ at \in {"element", "close"} => offset < Len(text)

IInv == SequencesOK /\ LinksOK /\ LabelsOK /\ DepthOK /\ OffsetOK

-----------------------------------------------------------------------------
(* The reading position *)

\* Every cell before the terminator is a cell of the text, and none is the terminator.
LEMMA CellOfText ==
  ASSUME text \in Seq(Cells), NEW o \in Nat, Cell(o) # NUL
  PROVE  o < Len(text) /\ Cell(o) \in Cells
BY DEF Cell

\* No opener or closer is another, a blank or the terminator.
LEMMA Brackets ==
  /\ Opener["array"] = "[" /\ Opener["object"] = "{"
  /\ Closer["array"] = "]" /\ Closer["object"] = "}"
BY DEF Opener, Closer

LEMMA BracketsAreTokens ==
  ASSUME NEW kind \in Kinds
  PROVE  /\ Opener[kind] \in {"[", "{"} /\ Closer[kind] \in {"]", "}"}
         /\ Opener[kind] \in Cells \ {"blank"} /\ Closer[kind] \in Cells \ {"blank"}
<1>1. Opener[kind] \in {"[", "{"} /\ Closer[kind] \in {"]", "}"}
  BY Brackets DEF Kinds
<1>2. {"[", "{", "]", "}"} \subseteq Cells \ {"blank"}
  BY DEF Cells
<1>3. QED BY <1>1, <1>2

LEMMA BracketsAreCells == \A kind \in Kinds : Opener[kind] # NUL /\ Closer[kind] # NUL
BY BracketsAreTokens DEF NUL

\* Skipping blanks goes forward over blanks alone, up to the first cell that is none; from
\* inside the buffer not beyond the terminator.
LEMMA SkipsBlanks ==
  ASSUME text \in Seq(Cells), NEW o \in 0 .. Len(text)
  PROVE  /\ SkipSpaces(o) \in o .. Len(text)
         /\ \A i \in o .. SkipSpaces(o) - 1 : Cell(i) = "blank"
         /\ Cell(SkipSpaces(o)) # "blank"
<1> DEFINE Stops(e) == e = Length \/ Cell(e) \notin Blank
           Ends(e)  == (\A i \in o .. e - 1 : Cell(i) \in Blank) /\ Stops(e)
           stops    == {e \in o .. Length : Stops(e)}
           r == SkipSpaces(o)
<1>1. Len(text) \in Nat /\ Length = Len(text) + 1 /\ Length \in Nat
  BY DEF Length
<1>2. \E e \in o .. Length : Ends(e)
  <2>1. stops \in SUBSET Nat /\ Length \in stops
    BY <1>1
  <2>2. PICK e \in stops : \A n \in stops : e <= n
    BY <2>1, LeastNumber
  <2>3. \A i \in o .. e - 1 : Cell(i) \in Blank
    BY <1>1, <2>2
  <2>4. QED BY <2>2, <2>3
<1> DEFINE end == CHOOSE e \in o .. Length : Ends(e)
<1>3. end \in o .. Length /\ Ends(end)
  BY <1>2
<1>4. SkipSpaces(o) = IF end = Length THEN end - 1 ELSE end
  BY <1>1 DEF SkipSpaces
<1> HIDE DEF end
<1>5. SkipSpaces(o) \in o .. Len(text)
  BY <1>1, <1>3, <1>4
<1>6. \A i \in o .. Len(text) - 1 : Cell(i) \in Blank => Cell(i) = "blank"
  <2>1. ASSUME NEW i \in o .. Len(text) - 1 PROVE Cell(i) \in Cells
    BY <1>1 DEF Cell
  <2>2. NUL \notin Cells
    BY DEF NUL, Cells
  <2>3. QED BY <2>1, <2>2 DEF Blank
<1>7. \A i \in o .. SkipSpaces(o) - 1 : Cell(i) = "blank"
  BY <1>1, <1>3, <1>4, <1>6
<1>8. Cell(SkipSpaces(o)) # "blank"
  <2>1. CASE end = Length
    <3>1. SkipSpaces(o) = Len(text)
      BY <1>1, <1>4, <2>1
    <3>2. QED BY <1>1, <3>1 DEF Cell, NUL
  <2>2. CASE end # Length
    BY <1>3, <1>4, <2>2 DEF Blank
  <2>3. QED BY <2>1, <2>2
<1>9. QED BY <1>5, <1>7, <1>8

LEMMA SkipSpacesStays ==
  ASSUME text \in Seq(Cells), NEW o \in 0 .. Len(text)
  PROVE  SkipSpaces(o) \in o .. Len(text)
BY SkipsBlanks

LEMMA OffsetStep ==
  ASSUME IInv, Next
  PROVE  OffsetOK' /\ text' = text
<1>0. /\ text \in Seq(Cells) /\ offset \in 0 .. Len(text)
      /\ at \in {"element", "close"} => offset < Len(text)
      /\ Len(text) \in Nat
  BY DEF IInv, SequencesOK, OffsetOK
<1> USE DEF OffsetOK
<1>1. CASE Start
  <2> DEFINE o == IF Cell(0) = "bom" /\ Cell(1) # NUL THEN 1 ELSE 0
  <2>1. o \in 0 .. Len(text)
    BY <1>0, CellOfText
  <2> HIDE DEF o
  <2>2. SkipSpaces(o) \in 0 .. Len(text)
    BY <1>0, <2>1, SkipSpacesStays
  <2>3. offset' = SkipSpaces(o) /\ text' = text /\ at' = "value"
    BY <1>1 DEF Start, o
  <2>4. QED BY <2>2, <2>3
<1>2. CASE OutOfMemory \/ NoValue \/ NoName
  BY <1>0, <1>2 DEF OutOfMemory, NoValue, NoName
<1>3. CASE ParseScalar \/ ParseString
  <2>1. offset < Len(text)
    BY <1>0, <1>3, CellOfText DEF ParseScalar, ParseString, NUL
  <2>2. QED BY <1>0, <1>3, <2>1 DEF ParseScalar, ParseString
<1>4. ASSUME NEW kind \in Kinds, Open(kind) PROVE OffsetOK' /\ text' = text
  <2> DEFINE o == SkipSpaces(offset + 1)
  <2>1. offset < Len(text)
    BY <1>0, <1>4, CellOfText, BracketsAreCells DEF Open
  <2>2. o \in offset + 1 .. Len(text)
    BY <1>0, <2>1, SkipSpacesStays
  <2>3. Cell(o) = Closer[kind] => o < Len(text)
    <3>1. o \in Nat
      BY <1>0, <2>2
    <3> HIDE DEF o
    <3>2. QED BY <1>0, <3>1, CellOfText, BracketsAreCells
  <2>4. /\ text' = text
        /\ \/ at' = "fail" /\ offset' = offset
           \/ at' = "close" /\ offset' = o /\ Cell(o) = Closer[kind]
           \/ at' = "element" /\ offset' = o - 1
    BY <1>4 DEF Open
  <2> HIDE DEF o
  <2>5. QED BY <1>0, <2>2, <2>3, <2>4
<1>5. CASE Element
  <2>1. SkipSpaces(offset + 1) \in 0 .. Len(text)
    <3>1. offset + 1 \in 0 .. Len(text)
      BY <1>0, <1>5 DEF Element
    <3>2. SkipSpaces(offset + 1) \in offset + 1 .. Len(text)
      BY <1>0, <3>1, SkipSpacesStays
    <3>3. QED BY <1>0, <3>2
  <2>2. QED BY <1>5, <2>1 DEF Element
<1>6. CASE Name
  <2> DEFINE o == SkipSpaces(offset + 1)
  <2>1. offset < Len(text)
    BY <1>0, <1>6, CellOfText DEF Name, NUL
  <2>2. o \in 0 .. Len(text)
    BY <1>0, <2>1, SkipSpacesStays
  <2>3. Cell(o) = ":" => o < Len(text)
    BY <1>0, <2>2, CellOfText DEF NUL
  <2>4. Cell(o) = ":" => SkipSpaces(o + 1) \in 0 .. Len(text)
    <3> HIDE DEF o
    <3>1. ASSUME Cell(o) = ":" PROVE o + 1 \in 0 .. Len(text)
      BY <1>0, <2>2, <2>3, <3>1
    <3>2. ASSUME Cell(o) = ":" PROVE SkipSpaces(o + 1) \in o + 1 .. Len(text)
      BY <1>0, <3>1, <3>2, SkipSpacesStays
    <3>3. o + 1 .. Len(text) \subseteq 0 .. Len(text)
      BY <1>0, <2>2
    <3>4. QED BY <3>2, <3>3
  <2>5. /\ text' = text
        /\ \/ Cell(o) = ":" /\ offset' = SkipSpaces(o + 1) /\ at' = "value"
           \/ offset' = o /\ at' = "fail"
    BY <1>6 DEF Name
  <2> HIDE DEF o
  <2>6. QED BY <2>2, <2>4, <2>5
<1>7. CASE After
  <2> DEFINE o == SkipSpaces(offset)
  <2>1. o \in 0 .. Len(text)
    BY <1>0, SkipSpacesStays
  <2>2. CASE frames = <<>>
    BY <1>0, <1>7, <2>2 DEF After
  <2>3. CASE frames # <<>>
    <3>1. Top.kind \in Kinds
      <4>1. frames \in Seq(Frames) /\ Len(frames) \in 1 .. Len(frames)
        BY <2>3 DEF IInv, SequencesOK
      <4>2. Top \in Frames
        BY <4>1 DEF Top
      <4>3. QED BY <4>2 DEF Frames
    <3>2. Cell(o) = "," \/ Cell(o) = Closer[Top.kind] => o < Len(text)
      <4>1. o \in Nat
        BY <1>0, <2>1
      <4> HIDE DEF o
      <4>2. QED BY <1>0, <3>1, <4>1, CellOfText, BracketsAreCells DEF NUL
    <3>3. /\ text' = text /\ offset' = o
          /\ at' \in {"element", "close"} => Cell(o) = "," \/ Cell(o) = Closer[Top.kind]
      BY <1>7, <2>3 DEF After
    <3> HIDE DEF o
    <3>4. QED BY <2>1, <3>2, <3>3
  <2>4. QED BY <2>2, <2>3
<1>8. CASE Close
  BY <1>0, <1>8 DEF Close
<1>9. CASE Fail
  BY <1>0, <1>9 DEF Fail
<1>10. QED BY <1>1, <1>2, <1>3, <1>4, <1>5, <1>6, <1>7, <1>8, <1>9 DEF Next, Kinds

-----------------------------------------------------------------------------
(* Labels and nesting *)

SetNext(items, i, n)  == [items EXCEPT ![i].next = n]
SetPrev(items, i, n)  == [items EXCEPT ![i].prev = n]
SetChild(items, i, n) == [items EXCEPT ![i].child = n]

\* A link that is set leaves a sequence of items, as long as before, whose links stay
\* in their range if the new one does.
LEMMA LinkSet ==
  ASSUME NEW items \in Seq(Items), NEW i \in 1 .. Len(items), NEW n \in Nat,
         NEW new \in {SetNext(items, i, n), SetPrev(items, i, n), SetChild(items, i, n)}
  PROVE  /\ new \in Seq(Items) /\ Len(new) = Len(items)
         /\ \A count \in Nat : n <= count /\ Linked(items, count) => Linked(new, count)
<1>1. items[i] \in Items
  OBVIOUS
<1>2. /\ [items[i] EXCEPT !.next = n] \in Items
      /\ [items[i] EXCEPT !.prev = n] \in Items
      /\ [items[i] EXCEPT !.child = n] \in Items
  BY <1>1 DEF Items
<1>3. \A item \in Items : [items EXCEPT ![i] = item] \in Seq(Items)
  OBVIOUS
<1>4. new \in Seq(Items) /\ Len(new) = Len(items)
  BY <1>2, <1>3 DEF SetNext, SetPrev, SetChild
<1>5. /\ \A j \in 1 .. Len(items) : j # i => new[j] = items[j]
      /\ new[i].next \in {items[i].next, n} /\ new[i].prev \in {items[i].prev, n}
      /\ new[i].child \in {items[i].child, n}
  <2>1. /\ \A j \in 1 .. Len(items) : j # i => new[j] = items[j]
        /\ new[i] \in {[items[i] EXCEPT !.next = n], [items[i] EXCEPT !.prev = n],
                       [items[i] EXCEPT !.child = n]}
    BY DEF SetNext, SetPrev, SetChild
  <2> DEFINE old == items[i]
             r   == new[i]
  <2>2. old \in Items
    BY <1>1
  <2>3. r \in {[old EXCEPT !.next = n], [old EXCEPT !.prev = n], [old EXCEPT !.child = n]}
    BY <2>1
  <2> HIDE DEF old, r
  <2>4. r.next \in {old.next, n} /\ r.prev \in {old.prev, n} /\ r.child \in {old.child, n}
    BY <2>2, <2>3 DEF Items
  <2>5. QED BY <2>1, <2>4 DEF old, r
<1>6. ASSUME NEW count \in Nat, n <= count, Linked(items, count) PROVE Linked(new, count)
  <2>1. n \in 0 .. count
    BY <1>6
  <2>2. ASSUME NEW j \in 1 .. Len(items)
        PROVE  new[j].next \in 0 .. count /\ new[j].prev \in 0 .. count /\ new[j].child \in 0 .. count
    <3>1. /\ items[j].next \in 0 .. count /\ items[j].prev \in 0 .. count
          /\ items[j].child \in 0 .. count
      BY <1>6 DEF Linked
    <3>2. CASE j # i
      BY <1>5, <3>1, <3>2
    <3>3. CASE j = i
      BY <1>5, <2>1, <3>1, <3>3
    <3>4. QED BY <3>2, <3>3
  <2>3. QED BY <1>4, <2>2 DEF Linked
<1>7. QED BY <1>4, <1>6

\* So does a new type, name or value, which is no link.
LEMMA FieldSet ==
  ASSUME NEW items \in Seq(Items), NEW i \in 1 .. Len(items), NEW item \in Items,
         item.next = items[i].next, item.prev = items[i].prev, item.child = items[i].child
  PROVE  LET new == [items EXCEPT ![i] = item]
         IN /\ new \in Seq(Items) /\ Len(new) = Len(items)
            /\ \A count \in Nat : Linked(items, count) => Linked(new, count)
<1> DEFINE new == [items EXCEPT ![i] = item]
<1>1. new \in Seq(Items) /\ Len(new) = Len(items)
      /\ \A j \in 1 .. Len(items) : new[j] = IF j = i THEN item ELSE items[j]
  OBVIOUS
<1> HIDE DEF new
<1>2. ASSUME NEW count \in Nat, Linked(items, count) PROVE Linked(new, count)
  BY <1>1, <1>2 DEF Linked
<1>3. QED BY <1>1, <1>2 DEF new

LEMMA LabelsStep ==
  ASSUME IInv, Next
  PROVE  LabelsOK' /\ DepthOK'
<1>0. /\ nodes \in Seq(Items) /\ frames \in Seq(Frames) /\ Len(frames) \in Nat
      /\ LabelsOK /\ DepthOK /\ NestingLimit \in Nat
  BY LimitAssumption DEF IInv, SequencesOK
<1> USE DEF LabelsOK, DepthOK

<1>1. CASE Start
  <2>1. nodes' = <<Item>> /\ at = "start" /\ at' = "value" /\ UNCHANGED <<frames, depth>>
    BY <1>1 DEF Start
  <2>2. QED BY <1>0, <2>1
<1>2. CASE OutOfMemory \/ NoValue \/ NoName
  BY <1>0, <1>2 DEF OutOfMemory, NoValue, NoName
<1>3. CASE ParseScalar \/ ParseString \/ Name
  <2>1. /\ UNCHANGED <<frames, depth>> /\ at \in {"value", "name"}
        /\ at' \in {"value", "after", "fail"}
    BY <1>3 DEF ParseScalar, ParseString, Name
  <2>2. nodes' # <<>>
    <3>1. Len(nodes') = Len(nodes)
      BY <1>0, <1>3 DEF ParseScalar, ParseString, Name
    <3>2. nodes # <<>> /\ Len(nodes) # 0
      BY <1>0, <2>1
    <3>3. QED BY <3>1, <3>2
  <2>3. QED BY <1>0, <2>1, <2>2
<1>4. ASSUME NEW kind \in Kinds, Open(kind) PROVE LabelsOK' /\ DepthOK'
  <2> DEFINE frame == [kind |-> kind, item |-> Current, head |-> Null, last |-> Null]
  <2>1. at = "value" /\ nodes' = nodes /\ at' \in {"fail", "close", "element"}
    BY <1>4 DEF Open
  <2>2. CASE at' = "fail"
    BY <1>0, <1>4, <2>1, <2>2 DEF Open
  <2>3. CASE at' # "fail"
    <3>1. frames' = Append(frames, frame) /\ depth' = depth + 1 /\ depth < NestingLimit
      BY <1>0, <1>4, <2>3 DEF Open
    <3> HIDE DEF frame
    <3>2. Len(frames') = Len(frames) + 1 /\ \A i \in 1 .. Len(frames) : frames'[i] = frames[i]
      BY <1>0, <3>1
    <3>3. depth' \in 0 .. NestingLimit /\ depth' = Len(frames')
      BY <1>0, <2>1, <3>1, <3>2
    <3>4. \A i \in 1 .. Len(frames') - 1 : frames'[i].last # Null
      BY <1>0, <2>1, <3>2
    <3>5. QED BY <1>0, <2>1, <2>3, <3>2, <3>3, <3>4
  <2>4. QED BY <2>2, <2>3
<1>5. CASE Element
  <2> DEFINE n == Len(nodes) + 1
  <2>1. /\ at = "element" /\ at' \in {"name", "value"} /\ depth' = depth
        /\ frames' = [frames EXCEPT ![Len(frames)].head = IF @ = Null THEN n ELSE @,
                                    ![Len(frames)].last = n]
        /\ \E items, item : nodes' = Append(items, item) /\ items \in Seq(Items)
    <3>1. Top.last # Null => Top.last \in 1 .. Len(nodes)
      BY <1>0, <1>5 DEF Element, Top, IInv, LinksOK, Null
    <3>2. ASSUME Top.last # Null PROVE [nodes EXCEPT ![Top.last].next = n] \in Seq(Items)
      <4>1. n \in Nat /\ nodes \in Seq(Items) /\ Top.last \in 1 .. Len(nodes)
        BY <1>0, <3>1, <3>2
      <4> HIDE DEF n
      <4>2. QED BY <4>1, LinkSet DEF SetNext
    <3>3. QED BY <1>0, <1>5, <3>2 DEF Element
  <2>2. nodes' # <<>>
    <3>1. PICK items, item : nodes' = Append(items, item) /\ items \in Seq(Items)
      BY <2>1, Zenon
    <3>2. QED BY <3>1
  <2>3. n # Null
    BY <1>0 DEF Null
  <2> HIDE DEF n
  <2>4. Len(frames') = Len(frames) /\ frames'[Len(frames)].last = n
        /\ \A i \in 1 .. Len(frames) - 1 : frames'[i] = frames[i]
    BY <1>0, <2>1 DEF Frames
  <2>5. \A i \in 1 .. Len(frames') : frames'[i].last # Null
    BY <1>0, <2>1, <2>3, <2>4
  <2>6. QED BY <1>0, <2>1, <2>2, <2>4, <2>5
<1>6. CASE After
  <2>1. at = "after" /\ UNCHANGED <<nodes, frames, depth>>
        /\ at' \in {"parsed", "element", "close", "fail"} /\ (at' # "parsed" => frames # <<>>)
    BY <1>6 DEF After
  <2>2. QED BY <1>0, <2>1
<1>7. CASE Close
  <2>1. at = "close" /\ at' = "after" /\ frames' = Pop /\ depth' = depth - 1
    BY <1>7 DEF Close
  <2>2. Len(nodes') = Len(nodes) /\ nodes' # <<>>
    <3>1. nodes # <<>> /\ Len(nodes) # 0
      BY <1>0, <2>1
    <3>2. Len(nodes') = Len(nodes)
      BY <1>0, <1>7 DEF Close
    <3>3. QED BY <3>1, <3>2
  <2>3. Len(frames) > 0 /\ Len(frames') = Len(frames) - 1
        /\ \A i \in 1 .. Len(frames') : frames'[i] = frames[i]
    BY <1>0, <2>1 DEF Pop
  <2>4. QED BY <1>0, <2>1, <2>2, <2>3
<1>8. CASE Fail
  <2>1. at = "fail" /\ at' \in {"fail", "failed"} /\ UNCHANGED <<nodes, depth>>
    BY <1>8 DEF Fail
  <2>2. QED BY <1>0, <2>1
<1>9. QED BY <1>1, <1>2, <1>3, <1>4, <1>5, <1>6, <1>7, <1>8 DEF Next, Kinds

-----------------------------------------------------------------------------
(* Items and frames *)

\* There is an item to be filled in.
LEMMA CurrentIsMade ==
  ASSUME IInv, at \in {"value", "name", "after"}
  PROVE  Current \in 1 .. Len(nodes)
<1>1. nodes \in Seq(Items) /\ frames \in Seq(Frames) /\ nodes # <<>> /\ Len(nodes) # 0 /\ Len(nodes) \in Nat
  BY DEF IInv, SequencesOK, LabelsOK
<1>2. CASE frames = <<>>
  BY <1>1, <1>2 DEF Current, Root
<1>3. CASE frames # <<>>
  <2>1. Len(frames) \in 1 .. Len(frames)
    BY <1>1, <1>3
  <2>2. Top.last \in 0 .. Len(nodes) /\ Top.last # Null
    BY <2>1 DEF IInv, LinksOK, LabelsOK, Top
  <2>3. QED BY <1>1, <1>3, <2>2 DEF Current, Null
<1>4. QED BY <1>2, <1>3

\* What the steps of the parser do to the items: fill one in, make one behind the last
\* one of its list, or hang a list below the item of a call.
LEMMA ItemsStep ==
  ASSUME IInv, Next
  PROVE  /\ nodes' \in Seq(Items) /\ Len(nodes') \in {Len(nodes), Len(nodes) + 1}
         /\ Linked(nodes', Len(nodes'))
<1>0. /\ nodes \in Seq(Items) /\ frames \in Seq(Frames) /\ Len(nodes) \in Nat
      /\ Linked(nodes, Len(nodes))
  BY DEF IInv, SequencesOK, LinksOK
<1> DEFINE Goal == /\ nodes' \in Seq(Items) /\ Len(nodes') \in {Len(nodes), Len(nodes) + 1}
                   /\ Linked(nodes', Len(nodes'))
<1>1. CASE Start
  <2>1. nodes' = <<Item>> /\ Item \in Items
    BY <1>1 DEF Start, Item, Items, Cells, Null, Unnamed
  <2>2. at = "start"
    BY <1>1 DEF Start
  <2>3. Item.next = 0 /\ Item.prev = 0 /\ Item.child = 0
    BY DEF Item, Null
  <2>4. nodes = <<>>
    BY <2>2 DEF IInv, LabelsOK
  <2>5. QED BY <2>1, <2>3, <2>4 DEF Linked
<1>2. CASE OutOfMemory \/ NoValue \/ NoName \/ After \/ Fail \/ \E kind \in Kinds : Open(kind)
  BY <1>0, <1>2 DEF OutOfMemory, NoValue, NoName, After, Fail, Open
<1>3. CASE ParseScalar \/ ParseString \/ Name
  <2>1. Current \in 1 .. Len(nodes)
    BY <1>3, CurrentIsMade DEF ParseScalar, ParseString, Name
  <2> DEFINE old == nodes[Current]
  <2>2. old \in Items
    BY <1>0, <2>1
  <2>3. PICK item \in {[old EXCEPT !.type = "scalar"], [old EXCEPT !.type = "string", !.value = TRUE],
                       [old EXCEPT !.name = "string"]} : nodes' = [nodes EXCEPT ![Current] = item]
    <3>1. CASE ParseScalar
      BY <3>1 DEF ParseScalar
    <3>2. CASE ParseString
      BY <1>0, <2>1, <3>2 DEF ParseString
    <3>3. CASE Name
      BY <3>3 DEF Name
    <3>4. QED BY <1>3, <3>1, <3>2, <3>3
  <2>4. item \in Items /\ item.next = old.next /\ item.prev = old.prev /\ item.child = old.child
    <3> HIDE DEF old
    <3>1. QED BY <2>2, <2>3 DEF Items, Cells
  <2>5. QED BY <1>0, <2>1, <2>3, <2>4, FieldSet
<1>4. CASE Element
  <2> DEFINE n == Len(nodes) + 1
             items == IF Top.last = Null THEN nodes ELSE [nodes EXCEPT ![Top.last].next = n]
             new == [Item EXCEPT !.prev = Top.last]
  <2>1. frames # <<>> /\ Len(frames) \in 1 .. Len(frames)
    BY <1>0, <1>4 DEF Element, IInv, LabelsOK
  <2>2. Top.last \in 0 .. Len(nodes)
    BY <2>1 DEF IInv, LinksOK, Top
  <2>3. n \in Nat /\ n > Len(nodes)
    BY <1>0
  <2>4. items \in Seq(Items) /\ Len(items) = Len(nodes) /\ Linked(items, n)
    <3>1. Linked(nodes, n)
      BY <1>0, <2>3 DEF Linked
    <3>2. ASSUME Top.last # Null PROVE items \in Seq(Items) /\ Len(items) = Len(nodes) /\ Linked(items, n)
      <4>1. Top.last \in 1 .. Len(nodes) /\ items = SetNext(nodes, Top.last, n)
        BY <1>0, <2>2, <3>2 DEF Null, SetNext
      <4> HIDE DEF n, items
      <4>2. QED BY <1>0, <2>3, <3>1, <4>1, LinkSet
    <3>3. QED BY <1>0, <3>1, <3>2
  <2>5. new \in Items /\ new.next = 0 /\ new.prev = Top.last /\ new.child = 0
    <3> DEFINE last == Top.last
    <3>1. last \in Nat /\ Item \in Items /\ Item.next = 0 /\ Item.child = 0
      <4>1. Top.last \in Nat
        BY <1>0, <2>2
      <4>2. Item \in Items
        BY DEF Item, Items, Null, Cells, Unnamed
      <4>3. Item.next = 0 /\ Item.child = 0
        BY DEF Item, Null
      <4>4. QED BY <4>1, <4>2, <4>3
    <3>2. new = [Item EXCEPT !.prev = last]
      OBVIOUS
    <3> HIDE DEF n, items, last, new
    <3>3. new \in Items /\ new.next = 0 /\ new.prev = last /\ new.child = 0
      BY <3>1, <3>2 DEF Items
    <3>4. QED BY <3>3 DEF last
  <2>6. nodes' = Append(items, new)
    BY <1>4 DEF Element
  <2> HIDE DEF items, new
  <2>7. nodes' \in Seq(Items) /\ Len(nodes') = n
        /\ \A i \in 1 .. n : nodes'[i] = IF i = n THEN new ELSE items[i]
    BY <1>0, <2>4, <2>5, <2>6
  <2>8. Linked(nodes', n)
    <3>1. new.next \in 0 .. n /\ new.prev \in 0 .. n /\ new.child \in 0 .. n
      BY <1>0, <2>2, <2>3, <2>5
    <3>2. \A i \in 1 .. n : i # n => i \in 1 .. Len(items)
      BY <1>0, <2>4 DEF n
    <3> HIDE DEF n
    <3>3. ASSUME NEW i \in 1 .. n
          PROVE  /\ nodes'[i].next \in 0 .. n /\ nodes'[i].prev \in 0 .. n
                 /\ nodes'[i].child \in 0 .. n
      <4>1. CASE i = n
        BY <2>7, <3>1, <4>1
      <4>2. CASE i # n
        BY <2>4, <2>7, <3>2, <4>2 DEF Linked
      <4>3. QED BY <4>1, <4>2
    <3>4. QED BY <2>7, <3>3 DEF Linked
  <2>9. QED BY <2>7, <2>8
<1>5. CASE Close
  <2> DEFINE linked == IF Top.head = Null THEN nodes ELSE [nodes EXCEPT ![Top.head].prev = Top.last]
             old    == linked[Top.item]
             typed  == [linked EXCEPT ![Top.item] = [old EXCEPT !.type = Top.kind]]
  <2>1. Len(frames) \in 1 .. Len(frames)
    BY <1>0, <1>5 DEF Close, IInv, LabelsOK
  <2>2. /\ Top \in Frames /\ Top.item \in 1 .. Len(nodes)
        /\ Top.head \in 0 .. Len(nodes) /\ Top.last \in 0 .. Len(nodes)
    BY <1>0, <2>1 DEF IInv, LinksOK, Top
  <2>3. linked \in Seq(Items) /\ Len(linked) = Len(nodes) /\ Linked(linked, Len(nodes))
    <3>1. ASSUME Top.head # Null
          PROVE  linked \in Seq(Items) /\ Len(linked) = Len(nodes) /\ Linked(linked, Len(nodes))
      <4>1. /\ Top.head \in 1 .. Len(nodes) /\ linked = SetPrev(nodes, Top.head, Top.last)
            /\ Top.last \in Nat /\ Top.last <= Len(nodes)
        BY <1>0, <2>2, <3>1 DEF Null, SetPrev
      <4> HIDE DEF linked
      <4>2. QED BY <1>0, <4>1, LinkSet
    <3>2. QED BY <1>0, <3>1
  <2> HIDE DEF linked
  <2>4. typed \in Seq(Items) /\ Len(typed) = Len(nodes) /\ Linked(typed, Len(nodes))
    <3>1. old \in Items
      BY <2>2, <2>3
    <3> DEFINE item == [old EXCEPT !.type = Top.kind]
    <3>2. item \in Items /\ item.next = old.next /\ item.prev = old.prev /\ item.child = old.child
      <4> HIDE DEF old, typed
      <4>1. Top.kind \in Kinds
        BY <2>2 DEF Frames
      <4>2. QED BY <3>1, <4>1 DEF Items
    <3>3. QED BY <1>0, <2>2, <2>3, <3>2, FieldSet
  <2>5. nodes' = SetChild(typed, Top.item, Top.head)
    BY <1>5, <2>2, <2>3 DEF Close, linked, SetChild
  <2> HIDE DEF typed
  <2>6. Top.head \in Nat /\ Top.head <= Len(nodes)
    BY <1>0, <2>2
  <2>7. QED BY <1>0, <2>2, <2>4, <2>5, <2>6, LinkSet
<1>6. QED BY <1>1, <1>2, <1>3, <1>4, <1>5 DEF Next, Kinds

\* The frames but the last.
LEMMA PopFacts ==
  ASSUME frames \in Seq(Frames), frames # <<>>
  PROVE  /\ Pop \in Seq(Frames) /\ Len(Pop) = Len(frames) - 1
         /\ \A i \in 1 .. Len(frames) - 1 : Pop[i] = frames[i]
<1>1. Len(frames) \in Nat /\ Len(frames) > 0
  OBVIOUS
<1>2. Pop \in Seq(Frames)
  BY <1>1 DEF Pop
<1>3. Len(Pop) = Len(frames) - 1
  <2> DEFINE k == Len(frames) - 1
  <2>1. k \in Nat /\ Pop = SubSeq(frames, 1, k)
    BY <1>1 DEF Pop
  <2> HIDE DEF k
  <2>2. Len(Pop) = k
    BY <2>1
  <2>3. QED BY <2>2 DEF k
<1>4. \A i \in 1 .. Len(frames) - 1 : Pop[i] = frames[i]
  BY <1>1 DEF Pop
<1>5. QED BY <1>2, <1>3, <1>4

LEMMA FramesStep ==
  ASSUME IInv, Next
  PROVE  SequencesOK' /\ LinksOK'
<1>0. /\ nodes \in Seq(Items) /\ frames \in Seq(Frames)
      /\ Len(nodes) \in Nat /\ Len(frames) \in Nat /\ LinksOK
  BY DEF IInv, SequencesOK
<1>1. /\ text' \in Seq(Cells) /\ nodes' \in Seq(Items) /\ Linked(nodes', Len(nodes'))
      /\ Len(nodes') \in {Len(nodes), Len(nodes) + 1}
  BY OffsetStep, ItemsStep DEF IInv, SequencesOK
<1> DEFINE InRange(f, count) == f.item \in 1 .. count /\ f.head \in 0 .. count /\ f.last \in 0 .. count
           FramesOK(fs, count) == fs \in Seq(Frames) /\ \A i \in 1 .. Len(fs) : InRange(fs[i], count)
           Made(count) == {"item", "name", "value"} \X (1 .. count)
<1>2. FramesOK(frames, Len(nodes)) /\ FramesOK(frames, Len(nodes'))
  BY <1>0, <1>1 DEF LinksOK
<1>3. live \subseteq Made(Len(nodes)) /\ Made(Len(nodes)) \subseteq Made(Len(nodes'))
  BY <1>0, <1>1 DEF LinksOK
<1> SUFFICES FramesOK(frames', Len(nodes')) /\ live' \subseteq Made(Len(nodes'))
  BY <1>1 DEF SequencesOK, LinksOK
<1>4. CASE UNCHANGED <<frames, live>>
  BY <1>2, <1>3, <1>4
<1>5. CASE Start
  <2>1. frames' = frames /\ live' = {<<"item", 1>>} /\ Len(nodes') = 1
    BY <1>5 DEF Start, Root
  <2>2. QED BY <1>2, <2>1
<1>6. CASE ParseString \/ Name
  <2>1. Current \in 1 .. Len(nodes)
    BY <1>6, CurrentIsMade DEF ParseString, Name
  <2>2. frames' = frames /\ live' \subseteq live \cup {<<"value", Current>>, <<"name", Current>>}
    BY <1>6 DEF ParseString, Name
  <2>3. <<"value", Current>> \in Made(Len(nodes)) /\ <<"name", Current>> \in Made(Len(nodes))
    BY <2>1
  <2> HIDE DEF Made, FramesOK
  <2>4. QED BY <1>2, <1>3, <2>2, <2>3
<1>7. ASSUME NEW kind \in Kinds, Open(kind), frames' # frames
      PROVE  FramesOK(frames', Len(nodes')) /\ live' \subseteq Made(Len(nodes'))
  <2> DEFINE frame == [kind |-> kind, item |-> Current, head |-> Null, last |-> Null]
  <2>1. frames' = Append(frames, frame) /\ nodes' = nodes /\ live' = live
    BY <1>7 DEF Open
  <2>2. Current \in 1 .. Len(nodes)
    BY <1>7, CurrentIsMade DEF Open
  <2>3. frame \in Frames /\ InRange(frame, Len(nodes))
    BY <1>0, <2>2 DEF Frames, Null
  <2> HIDE DEF frame, InRange
  <2>4. FramesOK(frames', Len(nodes))
    BY <1>2, <2>1, <2>3
  <2>5. QED BY <1>3, <2>1, <2>4
<1>8. CASE Element
  <2> DEFINE n == Len(nodes) + 1
             old == Top
             new == [old EXCEPT !.head = IF @ = Null THEN n ELSE @, !.last = n]
  <2>1. Len(frames) \in 1 .. Len(frames)
    BY <1>0, <1>8 DEF Element, IInv, LabelsOK
  <2>2. Len(nodes') = n
    <3>1. Len(IF Top.last = Null THEN nodes ELSE [nodes EXCEPT ![Top.last].next = n]) = Len(nodes)
      BY <1>0
    <3>2. QED BY <1>0, <1>1, <1>8, <3>1 DEF Element
  <2>3. old \in Frames /\ InRange(old, n) /\ n \in Nat \ {0}
    BY <1>0, <1>2, <2>1, <2>2 DEF Top
  <2>4. new \in Frames /\ InRange(new, n)
    <3> DEFINE head == IF old.head = Null THEN n ELSE old.head
    <3>1. new = [old EXCEPT !.head = head, !.last = n]
      OBVIOUS
    <3>2. head \in 0 .. n
      BY <2>3 DEF Frames
    <3> HIDE DEF old, n, head, new
    <3>3. new \in Frames
      <4>1. old \in Frames /\ n \in Nat /\ head \in Nat
        BY <2>3, <3>2
      <4> HIDE DEF InRange
      <4>2. QED BY <3>1, <4>1 DEF Frames
    <3>4. new.item = old.item /\ new.head = head /\ new.last = n
      BY <2>3, <3>1 DEF Frames
    <3>5. QED BY <2>3, <3>2, <3>3, <3>4
  <2>5. frames' = [frames EXCEPT ![Len(frames)] = new] /\ live' = live \cup {<<"item", n>>}
    BY <1>0, <1>8, <2>1 DEF Element, Top
  <2>6. FramesOK(frames', n)
    <3> HIDE DEF new, InRange, old
    <3>1. frames' \in Seq(Frames) /\ Len(frames') = Len(frames)
          /\ \A i \in 1 .. Len(frames) : frames'[i] = IF i = Len(frames) THEN new ELSE frames[i]
      <4> HIDE DEF n, FramesOK
      <4>1. new \in Frames
        BY <2>4
      <4>2. QED BY <1>0, <2>1, <2>5, <4>1
    <3>2. QED BY <1>2, <2>2, <2>4, <3>1
  <2>7. live' \subseteq Made(n)
    BY <1>3, <2>2, <2>3, <2>5
  <2>8. QED BY <2>2, <2>6, <2>7
<1>9. CASE Close \/ Fail
  <2>1. live' \subseteq live
    BY <1>9 DEF Close, Fail, cJSON_Delete
  <2>2. frames' = frames \/ (frames # <<>> /\ frames' = Pop)
    <3>1. Close => frames # <<>> /\ frames' = Pop
      BY DEF Close, IInv, LabelsOK
    <3>2. Fail => frames' = frames \/ (frames # <<>> /\ frames' = Pop)
      BY DEF Fail
    <3>3. QED BY <1>9, <3>1, <3>2
  <2>3. frames # <<>> => FramesOK(Pop, Len(nodes'))
    <3> HIDE DEF InRange
    <3> SUFFICES ASSUME frames # <<>> PROVE FramesOK(Pop, Len(nodes'))
      OBVIOUS
    <3>1. Pop \in Seq(Frames) /\ Len(Pop) = Len(frames) - 1
          /\ \A i \in 1 .. Len(Pop) : Pop[i] = frames[i]
      BY <1>0, PopFacts
    <3>2. QED BY <1>0, <1>2, <3>1
  <2> HIDE DEF Made, FramesOK
  <2>4. QED BY <1>2, <1>3, <2>1, <2>2, <2>3
<1>10. OutOfMemory \/ ParseScalar \/ NoValue \/ NoName \/ After => UNCHANGED <<frames, live>>
  BY DEF OutOfMemory, ParseScalar, NoValue, NoName, After
<1>11. \A kind \in Kinds : Open(kind) => frames' # frames \/ UNCHANGED <<frames, live>>
  BY DEF Open
<1>12. QED
  <2> HIDE DEF Made, FramesOK
  <2>1. QED BY <1>4, <1>5, <1>6, <1>7, <1>8, <1>9, <1>10, <1>11 DEF Next, Kinds

-----------------------------------------------------------------------------
(* What cJSON_Delete() finds *)

\* No item refers to the list of another, and links lead to younger items.
Plain(items) ==
  \A i \in 1 .. Len(items) :
    /\ ~items[i].constant /\ ~items[i].reference
    /\ items[i].next # Null => items[i].next > i
    /\ items[i].child # Null => items[i].child > i

\* Items as the parser makes them.
Sound(items) == items \in Seq(Items) /\ Linked(items, Len(items)) /\ Plain(items)

\* Where the links of a sound item lead.
LEMMA LinksUp ==
  ASSUME NEW items, Sound(items), NEW i \in 1 .. Len(items),
         NEW link \in {items[i].next, items[i].child}
  PROVE  link = Null \/ link \in i + 1 .. Len(items)
<1>1. Len(items) \in Nat /\ link \in 0 .. Len(items)
  BY DEF Sound, Linked
<1>2. link # Null => link > i
  BY DEF Sound, Plain
<1>3. QED BY <1>1, <1>2 DEF Null

\* What is found below an item, and behind it, is the item with what is found behind
\* it and below it.
LEMMA ListedUnfolds ==
  ASSUME NEW items, Sound(items)
  PROVE  /\ Listed(items, Null) = {}
         /\ \A i \in 1 .. Len(items) :
              Listed(items, i) = {i} \cup Listed(items, items[i].next) \cup Listed(items, items[i].child)
<1> DEFINE N == Len(items)
           Step(i, M) == IF i = Null THEN {}
                         ELSE {i} \cup M[items[i].next]
                                \cup (IF items[i].reference THEN {} ELSE M[items[i].child])
           Solves(M) == M = [i \in 0 .. N |-> Step(i, M)]
           From(M, d) == M[0] = {} /\ \A i \in 1 .. N : i > N - d => M[i] = Step(i, M)
           solved == {d \in Nat : \E M : From(M, d)}
<1>1. N \in Nat
  BY DEF Sound
<1>2. ASSUME NEW i \in 1 .. N, NEW F, NEW G, F[0] = G[0], \A j \in i + 1 .. N : F[j] = G[j]
      PROVE  Step(i, F) = Step(i, G)
  <2>1. F[items[i].next] = G[items[i].next] /\ F[items[i].child] = G[items[i].child]
    BY <1>2, LinksUp DEF Null
  <2>2. QED BY <2>1
<1>3. \A M : Step(0, M) = {}
  BY DEF Null
<1>4. 0 \in solved
  <2>1. From([i \in {0} |-> {}], 0)
    <3>1. \A i \in 1 .. N : ~(i > N - 0)
      BY <1>1
    <3> HIDE DEF Step
    <3>2. QED BY <3>1
  <2>2. QED BY <2>1
<1> HIDE DEF Step
<1>5. ASSUME NEW d \in Nat, d \in solved PROVE d + 1 \in solved
  <2>1. PICK M : From(M, d)
    BY <1>5
  <2> DEFINE k == N - d
             G == [j \in 0 .. N |-> IF j = 0 THEN {} ELSE IF j = k THEN Step(k, M) ELSE M[j]]
  <2>2. G[0] = {} /\ \A j \in 1 .. N : (j > k => G[j] = M[j]) /\ (j = k => G[j] = Step(k, M))
    BY <1>1
  <2>3. k \in Int
    BY <1>1
  <2> HIDE DEF G
  <2>4. ASSUME NEW i \in 1 .. N, i > N - (d + 1) PROVE G[i] = Step(i, G)
    <3>1. i >= k
      BY <1>1, <2>4
    <3>2. M[0] = G[0] /\ \A j \in i + 1 .. N : M[j] = G[j]
      BY <1>1, <2>1, <2>2, <2>3, <3>1
    <3>3. Step(i, M) = Step(i, G)
      BY <3>2, <1>2
    <3>4. G[i] = Step(i, M)
      BY <1>1, <2>1, <2>2, <2>3, <3>1
    <3>5. QED BY <3>3, <3>4
  <2>5. QED BY <2>2, <2>4
<1>6. \A d \in Nat : d \in solved
  <2> HIDE DEF solved
  <2>1. QED BY <1>4, <1>5, InductiveSet
<1>7. PICK M : From(M, N)
  BY <1>1, <1>6
<1> DEFINE F == [i \in 0 .. N |-> M[i]]
<1>8. Solves(F)
  <2>1. \A i \in 0 .. N : F[i] = M[i]
    OBVIOUS
  <2> HIDE DEF F
  <2>2. ASSUME NEW i \in 0 .. N PROVE M[i] = Step(i, F)
    <3>1. CASE i = 0
      BY <1>3, <1>7, <3>1
    <3>2. CASE i # 0
      <4>1. i \in 1 .. N /\ i > N - N
        BY <1>1, <3>2
      <4>2. M[i] = Step(i, M)
        BY <1>7, <4>1
      <4>3. M[0] = F[0] /\ \A j \in i + 1 .. N : M[j] = F[j]
        BY <1>1, <2>1, <4>1
      <4>4. Step(i, M) = Step(i, F)
        BY <1>2, <4>1, <4>3
      <4>5. QED BY <4>2, <4>4
    <3>3. QED BY <3>1, <3>2
  <2>3. [i \in 0 .. N |-> M[i]] = [i \in 0 .. N |-> Step(i, F)]
    BY <2>2
  <2>4. QED BY <2>3 DEF F
<1> HIDE DEF F
<1> DEFINE L == CHOOSE W : Solves(W)
<1>9. Solves(L)
  <2> HIDE DEF Solves
  <2>1. QED BY <1>8, Zenon
<1>10. \A n : Listed(items, n) = L[n]
  BY Zenon DEF Listed, Step
<1> HIDE DEF L
<1>11. \A i \in 0 .. N : L[i] = Step(i, L)
  BY <1>9, Zenon
<1>12. Listed(items, Null) = {}
  BY <1>1, <1>3, <1>10, <1>11 DEF Null
<1>13. ASSUME NEW i \in 1 .. N
       PROVE  Listed(items, i) = {i} \cup Listed(items, items[i].next) \cup Listed(items, items[i].child)
  <2>1. i \in 0 .. N /\ i # Null /\ ~items[i].reference
    BY <1>1 DEF Sound, Plain, Null
  <2>2. L[i] = {i} \cup L[items[i].next] \cup L[items[i].child]
    BY <1>11, <2>1 DEF Step
  <2>3. QED BY <1>10, <2>2, Zenon
<1>14. QED BY <1>12, <1>13

\* All of it is younger.
LEMMA ListedAbove ==
  ASSUME NEW items, Sound(items)
  PROVE  \A i \in 1 .. Len(items) : Listed(items, i) \subseteq i .. Len(items)
<1> DEFINE N == Len(items)
           S == {i \in 1 .. N : Listed(items, i) \subseteq i .. N}
<1>1. N \in Nat
  BY DEF Sound
<1>2. ASSUME NEW i \in 1 .. N, \A j \in i + 1 .. N : j \in S PROVE i \in S
  <2>1. ASSUME NEW link \in {items[i].next, items[i].child} PROVE Listed(items, link) \subseteq i .. N
    <3>1. CASE link = Null
      BY <3>1, ListedUnfolds
    <3>2. CASE link \in i + 1 .. N
      <4>1. Listed(items, link) \subseteq link .. N
        BY <1>2, <3>2
      <4>2. link .. N \subseteq i .. N
        BY <1>1, <3>2
      <4>3. QED BY <4>1, <4>2
    <3>3. QED BY <3>1, <3>2, LinksUp
  <2>2. Listed(items, i) = {i} \cup Listed(items, items[i].next) \cup Listed(items, items[i].child)
    BY ListedUnfolds
  <2>3. i \in i .. N
    BY <1>1
  <2>4. QED BY <2>1, <2>2, <2>3
<1>3. \A i \in 1 .. N : i \in S
  <2> HIDE DEF S
  <2>1. QED BY <1>1, <1>2, Descends
<1>4. QED BY <1>3

\* The links of an item.
SameLinks(a, b) == a.next = b.next /\ a.child = b.child

\* The list of h is hung onto item j, behind it or below it, where nothing was.
Attached(items, new, j, h) ==
  /\ j \in 1 .. Len(items) /\ h \in 0 .. Len(items) /\ (h = Null \/ h > j)
  /\ Len(new) = Len(items)
  /\ \A i \in 1 .. Len(items) : i # j => SameLinks(new[i], items[i])
  /\ \/ items[j].next = Null /\ new[j].next = h /\ new[j].child = items[j].child
     \/ items[j].child = Null /\ new[j].child = h /\ new[j].next = items[j].next

\* The list is then found wherever the item is.
LEMMA ListedAttached ==
  ASSUME NEW items, Sound(items), NEW new, Sound(new), NEW j, NEW h, Attached(items, new, j, h)
  PROVE  \A i \in 0 .. Len(items) :
           Listed(new, i) = Listed(items, i) \cup (IF j \in Listed(items, i) THEN Listed(items, h) ELSE {})
<1> DEFINE N == Len(items)
           Grown(i) == Listed(items, i) \cup (IF j \in Listed(items, i) THEN Listed(items, h) ELSE {})
           S == {i \in 1 .. N : Listed(new, i) = Grown(i)}
<1>1. /\ N \in Nat /\ Len(new) = N /\ j \in 1 .. N /\ h \in 0 .. N /\ (h = Null \/ h > j)
      /\ \A i \in 1 .. N : i # j => SameLinks(new[i], items[i])
      /\ \/ items[j].next = Null /\ new[j].next = h /\ new[j].child = items[j].child
         \/ items[j].child = Null /\ new[j].child = h /\ new[j].next = items[j].next
  BY DEF Sound, Attached
<1>2. Listed(items, 0) = {} /\ Listed(new, 0) = {}
  BY ListedUnfolds DEF Null
<1>3. ASSUME NEW i \in 1 .. N, \A k \in i + 1 .. N : k \in S PROVE i \in S
  <2>1. /\ Listed(items, i) = {i} \cup Listed(items, items[i].next) \cup Listed(items, items[i].child)
        /\ Listed(new, i) = {i} \cup Listed(new, new[i].next) \cup Listed(new, new[i].child)
    BY <1>1, ListedUnfolds
  <2>2. \A k : k = Null \/ k \in i + 1 .. N => Listed(new, k) = Grown(k)
    <3>1. Listed(new, 0) = Grown(0)
      BY <1>2
    <3>2. \A k \in i + 1 .. N : Listed(new, k) = Grown(k)
      BY <1>3
    <3> HIDE DEF Grown
    <3>3. QED BY <3>1, <3>2 DEF Null
  <2>3. \A k : k = Null \/ k \in i + 1 .. N => i \notin Listed(items, k)
    <3>1. ASSUME NEW k \in i + 1 .. N PROVE i \notin Listed(items, k)
      <4>1. Listed(items, k) \subseteq k .. N /\ k > i
        BY <1>1, ListedAbove
      <4>2. QED BY <1>1, <4>1
    <3>2. QED BY <1>2, <3>1 DEF Null
  <2>4. CASE i # j
    <3>1. new[i].next = items[i].next /\ new[i].child = items[i].child
      BY <1>1, <2>4 DEF SameLinks
    <3>2. /\ Listed(new, items[i].next) = Grown(items[i].next)
          /\ Listed(new, items[i].child) = Grown(items[i].child)
      BY <2>2, LinksUp
    <3>3. QED BY <2>1, <2>4, <3>1, <3>2, Zenon
  <2>5. CASE i = j
    <3>1. h = Null \/ h \in i + 1 .. N
      BY <1>1, <2>5
    <3>2. \A k \in {items[i].next, items[i].child, h} : Listed(new, k) = Listed(items, k)
      <4>1. \A k \in {items[i].next, items[i].child, h} : k = Null \/ k \in i + 1 .. N
        BY <3>1, LinksUp
      <4>2. \A k \in {items[i].next, items[i].child, h} :
              Listed(new, k) = Grown(k) /\ i \notin Listed(items, k)
        BY <2>2, <2>3, <4>1, Zenon
      <4>3. QED BY <2>5, <4>2, Zenon
    <3>3. Listed(items, Null) = {}
      BY <1>2 DEF Null
    <3>4. CASE items[i].next = Null /\ new[i].next = h /\ new[i].child = items[i].child
      BY <2>1, <2>5, <3>2, <3>3, <3>4
    <3>5. CASE items[i].child = Null /\ new[i].child = h /\ new[i].next = items[i].next
      BY <2>1, <2>5, <3>2, <3>3, <3>5
    <3>6. QED BY <1>1, <2>5, <3>4, <3>5
  <2>6. QED BY <2>4, <2>5
<1>4. \A i \in 1 .. N : i \in S
  <2> HIDE DEF S
  <2>1. QED BY <1>1, <1>3, Descends
<1>5. ASSUME NEW i \in 0 .. N PROVE Listed(new, i) = Grown(i)
  <2>1. CASE i = 0
    BY <1>2, <2>1
  <2>2. CASE i # 0
    <3>1. i \in 1 .. N
      BY <1>1, <2>2
    <3>2. QED BY <1>4, <3>1
  <2>3. QED BY <2>1, <2>2
<1>6. QED BY <1>5

\* What leaves the links alone changes nothing of it.
LEMMA ListedKept ==
  ASSUME NEW items, Sound(items), NEW new, Sound(new), Len(new) = Len(items),
         \A i \in 1 .. Len(items) : SameLinks(new[i], items[i])
  PROVE  \A i \in 0 .. Len(items) : Listed(new, i) = Listed(items, i)
<1>1. Len(items) \in Nat
  BY DEF Sound
<1>2. Listed(items, 0) = {} /\ Listed(new, 0) = {}
  BY ListedUnfolds DEF Null
<1>3. CASE Len(items) = 0
  BY <1>2, <1>3
<1>4. CASE Len(items) # 0
  <2> DEFINE j == Len(items)
  <2>1. j \in 1 .. Len(items) /\ Null \in 0 .. Len(items)
    BY <1>1, <1>4 DEF Null
  <2>2. items[j].child = Null
    <3>1. items[j].child = Null \/ items[j].child \in j + 1 .. Len(items)
      BY <2>1, LinksUp
    <3>2. QED BY <1>1, <3>1
  <2>3. new[j].child = Null /\ new[j].next = items[j].next
    BY <2>1, <2>2 DEF SameLinks
  <2> HIDE DEF j
  <2>4. \A i \in 0 .. Len(items) :
          Listed(new, i) = Listed(items, i) \cup (IF j \in Listed(items, i) THEN Listed(items, Null) ELSE {})
    <3>1. Attached(items, new, j, Null)
      BY <2>1, <2>2, <2>3 DEF Attached
    <3>2. QED BY <3>1, ListedAttached
  <2>5. QED BY <1>2, <2>4 DEF Null
<1>5. QED BY <1>3, <1>4

\* A new item is found by itself only.
LEMMA ListedAppended ==
  ASSUME NEW items, Sound(items), NEW new, Sound(new), Len(new) = Len(items) + 1,
         \A i \in 1 .. Len(items) : SameLinks(new[i], items[i]),
         new[Len(new)].next = Null, new[Len(new)].child = Null
  PROVE  /\ \A i \in 0 .. Len(items) : Listed(new, i) = Listed(items, i)
         /\ Listed(new, Len(new)) = {Len(new)}
<1> DEFINE N == Len(items)
           S == {i \in 1 .. N : Listed(new, i) = Listed(items, i)}
<1>1. N \in Nat /\ Len(new) = N + 1
  BY DEF Sound
<1>2. Listed(items, 0) = {} /\ Listed(new, 0) = {}
  BY ListedUnfolds DEF Null
<1>3. ASSUME NEW i \in 1 .. N, \A k \in i + 1 .. N : k \in S PROVE i \in S
  <2>1. /\ Listed(items, i) = {i} \cup Listed(items, items[i].next) \cup Listed(items, items[i].child)
        /\ Listed(new, i) = {i} \cup Listed(new, new[i].next) \cup Listed(new, new[i].child)
    <3>1. i \in 1 .. Len(new)
      BY <1>1
    <3>2. QED BY <3>1, ListedUnfolds
  <2>2. new[i].next = items[i].next /\ new[i].child = items[i].child
    BY DEF SameLinks
  <2>3. \A k \in {items[i].next, items[i].child} : Listed(new, k) = Listed(items, k)
    <3>1. \A k \in {items[i].next, items[i].child} : k = Null \/ k \in i + 1 .. N
      BY LinksUp
    <3>2. QED BY <1>2, <1>3, <3>1 DEF Null
  <2>4. QED BY <2>1, <2>2, <2>3
<1>4. \A i \in 1 .. N : i \in S
  <2> HIDE DEF S
  <2>1. QED BY <1>1, <1>3, Descends
<1>5. \A i \in 0 .. N : Listed(new, i) = Listed(items, i)
  <2>1. \A i \in 0 .. N : i = 0 \/ i \in 1 .. N
    BY <1>1
  <2>2. QED BY <1>2, <1>4, <2>1
<1>6. Listed(new, Len(new)) = {Len(new)}
  <2>1. Len(new) \in 1 .. Len(new)
    BY <1>1
  <2>2. QED BY <1>2, <2>1, ListedUnfolds DEF Null
<1>7. QED BY <1>5, <1>6

-----------------------------------------------------------------------------
(* What is freed *)

\* The blocks of the first m items.
Made(items, m) == UNION {Own(items[i], i) : i \in 1 .. m}

\* The last item of the list of frame i and below, where the items up to m are still to be
\* freed; frame 0 is the root alone.
End(fs, m, i) == IF i = Len(fs) THEN m ELSE fs[i + 1].item

Ascending(fs, m) ==
  \A i \in 0 .. Len(fs) :
    /\ End(fs, m, i) \in 1 .. m
    /\ \A j \in i + 1 .. Len(fs) : End(fs, m, i) <= fs[j].item

\* The list of a frame has all the items made since its item up to the item of the next,
\* which is its last one, and nothing hangs below its item or behind its last one.
Span(items, f, end) ==
  /\ Listed(items, f.head) = f.item + 1 .. end
  /\ items[f.item].child = Null
  /\ f.head # Null => f.head > f.item
  /\ f.last # Null => f.last \in f.item + 1 .. end /\ items[f.last].next = Null
  /\ (f.last = Null <=> f.head = Null)

Spans(items, fs, m) ==
  /\ Ascending(fs, m)
  /\ Listed(items, Root) = 1 .. End(fs, m, 0)
  /\ \A i \in 1 .. Len(fs) : Span(items, fs[i], End(fs, m, i))

\* What lives are the blocks of the items that the root and the lists of the calls in
\* progress have; a call that fails deletes the youngest.
MemoryOK ==
  /\ ~corrupt /\ Plain(nodes)
  /\ at \in {"start", "failed"} => live = {}
  /\ at \notin {"start", "failed"} =>
       \E m \in 1 .. Len(nodes) :
         /\ Spans(nodes, frames, m) /\ live = Made(nodes, m)
         /\ at # "fail" => m = Len(nodes)
  /\ at \in {"value", "name"} => Current = Len(nodes) /\ nodes[Current].child = Null
  /\ at = "parsed" => frames = <<>>

\* Items that own the same blocks.
SameBlocks(a, b) ==
  a.name = b.name /\ a.value = b.value /\ a.constant = b.constant /\ a.reference = b.reference

LEMMA MadeKept ==
  ASSUME NEW items, NEW new, NEW m, \A i \in 1 .. m : SameBlocks(new[i], items[i])
  PROVE  Made(new, m) = Made(items, m)
<1>1. \A i \in 1 .. m : Own(new[i], i) = Own(items[i], i)
  BY DEF SameBlocks, Own
<1>2. QED BY <1>1 DEF Made

\* Blocks of different items are different.
LEMMA MadeSplits ==
  ASSUME NEW items, NEW m \in Nat, NEW k \in 0 .. m
  PROVE  LET rest == UNION {Own(items[i], i) : i \in k + 1 .. m}
         IN rest \subseteq Made(items, m) /\ Made(items, m) \ rest = Made(items, k)
<1> DEFINE rest == UNION {Own(items[i], i) : i \in k + 1 .. m}
<1>1. \A i, b : b \in Own(items[i], i) => b[2] = i
  BY DEF Own
<1>2. \A i \in 1 .. m : i \in 1 .. k <=> ~(i \in k + 1 .. m)
  OBVIOUS
<1>3. 1 .. k \subseteq 1 .. m /\ k + 1 .. m \subseteq 1 .. m
  OBVIOUS
<1>4. \A b : b \in rest <=> \E i \in k + 1 .. m : b \in Own(items[i], i)
  BY Zenon
<1>5. \A n, b : b \in Made(items, n) <=> \E i \in 1 .. n : b \in Own(items[i], i)
  BY Zenon DEF Made
<1> HIDE DEF rest
<1>6. rest \subseteq Made(items, m)
  BY <1>3, <1>4, <1>5, Zenon
<1>7. ASSUME NEW b PROVE b \in Made(items, m) \ rest <=> b \in Made(items, k)
  <2>1. ASSUME b \in Made(items, m) \ rest PROVE b \in Made(items, k)
    <3>1. PICK i \in 1 .. m : b \in Own(items[i], i)
      BY <1>5, <2>1, Zenon
    <3>2. i \in 1 .. k
      BY <1>2, <1>4, <2>1, <3>1, Zenon
    <3>3. QED BY <1>5, <3>1, <3>2, Zenon
  <2>2. ASSUME b \in Made(items, k) PROVE b \in Made(items, m) \ rest
    <3>1. PICK i \in 1 .. k : b \in Own(items[i], i)
      BY <1>5, <2>2, Zenon
    <3>2. b \in Made(items, m)
      BY <1>3, <1>5, <3>1, Zenon
    <3>3. ASSUME NEW j \in k + 1 .. m, b \in Own(items[j], j) PROVE FALSE
      <4>1. i = b[2] /\ j = b[2]
        BY <1>1, <3>1, <3>3, Zenon
      <4>2. i # j
        BY <1>2, <1>3, <4>1
      <4>3. QED BY <4>1, <4>2
    <3>4. QED BY <1>4, <3>2, <3>3, Zenon
  <2>3. QED BY <2>1, <2>2
<1>8. QED
  <2>1. Made(items, m) \ rest = Made(items, k)
    BY <1>7, Zenon
  <2>2. QED BY <1>6, <2>1 DEF rest

\* What every step finds.
LEMMA MemoryFacts ==
  ASSUME IInv, MemoryOK
  PROVE  /\ nodes \in Seq(Items) /\ frames \in Seq(Frames) /\ Len(nodes) \in Nat /\ Len(frames) \in Nat
         /\ Sound(nodes)
         /\ \A i \in 1 .. Len(frames) : /\ frames[i].item \in 1 .. Len(nodes)
                                        /\ frames[i].head \in 0 .. Len(nodes)
                                        /\ frames[i].last \in 0 .. Len(nodes)
         /\ at \notin {"start", "fail", "failed"} =>
              /\ Spans(nodes, frames, Len(nodes)) /\ live = Made(nodes, Len(nodes)) /\ Len(nodes) >= 1
BY DEF IInv, SequencesOK, LinksOK, MemoryOK, Sound

\* Lists are where they were if no link has changed.
LEMMA SpansKept ==
  ASSUME IInv, MemoryOK, NEW new, Sound(new), Len(new) = Len(nodes),
         \A i \in 1 .. Len(nodes) : SameLinks(new[i], nodes[i]),
         NEW m, Spans(nodes, frames, m), Root \in 1 .. Len(nodes)
  PROVE  Spans(new, frames, m)
<1>1. \A i \in 0 .. Len(nodes) : Listed(new, i) = Listed(nodes, i)
  BY MemoryFacts, ListedKept
<1>2. ASSUME NEW i \in 1 .. Len(frames) PROVE Span(new, frames[i], End(frames, m, i))
  <2>1. /\ frames[i].item \in 1 .. Len(nodes) /\ frames[i].head \in 0 .. Len(nodes)
        /\ frames[i].last = Null \/ frames[i].last \in 1 .. Len(nodes)
    BY MemoryFacts DEF Null
  <2>2. Span(nodes, frames[i], End(frames, m, i))
    BY DEF Spans
  <2>3. QED BY <1>1, <2>1, <2>2 DEF Span, SameLinks
<1>3. Root \in 0 .. Len(nodes)
  OBVIOUS
<1>4. QED BY <1>1, <1>2, <1>3 DEF Spans

LEMMA StartMemory ==
  ASSUME IInv, IInv', MemoryOK, Start
  PROVE  MemoryOK'
<1>1. /\ nodes' = <<Item>> /\ live' = {<<"item", 1>>} /\ at' = "value" /\ corrupt' = corrupt
      /\ frames' = <<>>
  BY DEF Start, Root, IInv, LabelsOK
<1>2. /\ Item.next = Null /\ Item.child = Null /\ ~Item.constant /\ ~Item.reference
      /\ ~Item.value /\ Item.name = Unnamed
  BY DEF Item
<1>3. Plain(nodes') /\ Sound(nodes')
  <2>1. Plain(nodes')
    BY <1>1, <1>2 DEF Plain
  <2>2. QED BY <2>1 DEF Sound, IInv, SequencesOK, LinksOK
<1>4. Listed(nodes', Root) = 1 .. 1
  <2>1. Listed(nodes', 1) = {1} \cup Listed(nodes', Null) \cup Listed(nodes', Null)
    BY <1>1, <1>2, <1>3, ListedUnfolds
  <2>2. QED BY <1>3, <2>1, ListedUnfolds DEF Root
<1>5. Len(frames') = 0 /\ Len(nodes') = 1
  BY <1>1
<1>6. Spans(nodes', frames', 1)
  BY <1>4, <1>5 DEF Spans, Ascending, End
<1>7. Made(nodes', 1) = live'
  <2>1. Own(nodes'[1], 1) = {<<"item", 1>>}
    BY <1>1, <1>2 DEF Own
  <2>2. QED BY <1>1, <2>1 DEF Made
<1>8. Current' = 1 /\ nodes'[1].child = Null
  BY <1>1, <1>2 DEF Current, Root
<1>9. QED BY <1>1, <1>3, <1>5, <1>6, <1>7, <1>8 DEF MemoryOK

\* The steps that only move.
LEMMA MoveMemory ==
  ASSUME IInv, MemoryOK, OutOfMemory \/ NoValue \/ NoName \/ After
  PROVE  MemoryOK'
<1>1. UNCHANGED <<nodes, frames, live, corrupt>>
  BY DEF OutOfMemory, NoValue, NoName, After
<1>2. CASE OutOfMemory /\ at = "start"
  BY <1>1, <1>2 DEF OutOfMemory, MemoryOK
<1>3. CASE ~(OutOfMemory /\ at = "start")
  <2>1. /\ at \in {"element", "value", "name", "after"}
        /\ at' \in {"fail", "parsed", "element", "close"} /\ (at' = "parsed" => frames = <<>>)
    BY <1>3 DEF OutOfMemory, NoValue, NoName, After
  <2>2. QED BY <1>1, <2>1 DEF MemoryOK
<1>4. QED BY <1>2, <1>3

\* A value or a name is filled in.
LEMMA FillMemory ==
  ASSUME IInv, IInv', MemoryOK, ParseScalar \/ ParseString \/ Name
  PROVE  MemoryOK'
<1> DEFINE N == Len(nodes)
           c == Current
           old == nodes[c]
<1>1. /\ nodes \in Seq(Items) /\ N \in Nat /\ c \in 1 .. N /\ old \in Items
      /\ Spans(nodes, frames, N) /\ live = Made(nodes, N) /\ Sound(nodes)
      /\ nodes[c].child = Null /\ c = N
  <2>1. at \in {"value", "name"}
    BY DEF ParseScalar, ParseString, Name
  <2>2. c \in 1 .. N
    BY <2>1, CurrentIsMade
  <2>3. QED BY <2>1, <2>2, MemoryFacts DEF MemoryOK
<1>2. /\ UNCHANGED <<frames, corrupt>> /\ at' \in {"value", "after", "fail"}
  BY DEF ParseScalar, ParseString, Name
<1>3. \E item \in Items, block \in {{}, {<<"value", c>>}, {<<"name", c>>}} :
        /\ nodes' = [nodes EXCEPT ![c] = item] /\ live' = live \cup block
        /\ SameLinks(item, old) /\ item.constant = old.constant /\ item.reference = old.reference
        /\ Own(item, c) = Own(old, c) \cup block
  <2>1. old.reference = FALSE /\ old.constant = FALSE
    BY <1>1 DEF Sound, Plain, Items
  <2>2. CASE ParseScalar
    <3> DEFINE item == [old EXCEPT !.type = "scalar"]
    <3>1. nodes' = [nodes EXCEPT ![c] = item] /\ live' = live \cup {}
      BY <2>2 DEF ParseScalar
    <3>2. /\ item \in Items /\ SameLinks(item, old) /\ SameBlocks(item, old)
      <4> HIDE DEF old
      <4>1. QED BY <1>1 DEF Items, SameLinks, SameBlocks
    <3> HIDE DEF item
    <3>3. QED BY <3>1, <3>2 DEF SameBlocks, Own
  <2>3. CASE ParseString
    <3> DEFINE item == [old EXCEPT !.type = "string", !.value = TRUE]
    <3>1. nodes' = [nodes EXCEPT ![c] = item] /\ live' = live \cup {<<"value", c>>}
      BY <1>1, <2>3 DEF ParseString
    <3>2. /\ item \in Items /\ SameLinks(item, old) /\ item.value
          /\ item.name = old.name /\ item.constant = old.constant /\ item.reference = old.reference
      <4> HIDE DEF old
      <4>1. QED BY <1>1 DEF Items, SameLinks
    <3> HIDE DEF item
    <3>3. Own(item, c) = Own(old, c) \cup {<<"value", c>>}
      BY <2>1, <3>2 DEF Own
    <3>4. QED BY <3>1, <3>2, <3>3
  <2>4. CASE Name
    <3> DEFINE item == [old EXCEPT !.name = "string"]
    <3>1. nodes' = [nodes EXCEPT ![c] = item] /\ live' = live \cup {<<"name", c>>}
      BY <1>1, <2>4 DEF Name
    <3>2. /\ item \in Items /\ SameLinks(item, old) /\ item.name = "string"
          /\ item.value = old.value /\ item.constant = old.constant /\ item.reference = old.reference
      <4> HIDE DEF old
      <4>1. QED BY <1>1 DEF Items, SameLinks, Cells
    <3> HIDE DEF item
    <3>3. Own(item, c) = Own(old, c) \cup {<<"name", c>>}
      BY <2>1, <3>2 DEF Own, Unnamed
    <3>4. QED BY <3>1, <3>2, <3>3
  <2>5. QED BY <2>2, <2>3, <2>4
<1>4. PICK item \in Items, block \in {{}, {<<"value", c>>}, {<<"name", c>>}} :
        /\ nodes' = [nodes EXCEPT ![c] = item] /\ live' = live \cup block
        /\ SameLinks(item, old) /\ item.constant = old.constant /\ item.reference = old.reference
        /\ Own(item, c) = Own(old, c) \cup block
  BY <1>3, Zenon
<1>5. /\ Len(nodes') = N /\ nodes'[c] = item
      /\ \A i \in 1 .. N : i # c => nodes'[i] = nodes[i]
  BY <1>1, <1>4
<1>6. \A i \in 1 .. N : /\ SameLinks(nodes'[i], nodes[i]) /\ nodes'[i].constant = nodes[i].constant
                        /\ nodes'[i].reference = nodes[i].reference
  BY <1>4, <1>5 DEF SameLinks
<1>7. Plain(nodes') /\ Sound(nodes')
  <2>1. Plain(nodes')
    BY <1>1, <1>5, <1>6 DEF Sound, Plain, SameLinks
  <2>2. QED BY <2>1 DEF Sound, IInv, SequencesOK, LinksOK
<1>8. Spans(nodes', frames', N)
  <2>1. Root \in 1 .. N
    BY <1>1 DEF Root
  <2>2. QED BY <1>1, <1>2, <1>5, <1>6, <1>7, <2>1, SpansKept
<1>9. live' = Made(nodes', N)
  <2>1. \A i \in 1 .. N : Own(nodes'[i], i) = Own(nodes[i], i) \cup (IF i = c THEN block ELSE {})
    BY <1>4, <1>5
  <2>2. Made(nodes', N) = Made(nodes, N) \cup block
    <3>1. c \in 1 .. N
      BY <1>1
    <3>2. /\ \A i \in 1 .. N : i # c => Own(nodes'[i], i) = Own(nodes[i], i)
          /\ Own(nodes'[c], c) = Own(nodes[c], c) \cup block
      BY <2>1, <3>1
    <3> HIDE DEF c, old, N
    <3>3. ASSUME NEW b PROVE b \in Made(nodes', N) <=> b \in Made(nodes, N) \cup block
      <4>1. b \in Made(nodes', N) <=> \E i \in 1 .. N : b \in Own(nodes'[i], i)
        BY Zenon DEF Made
      <4>2. b \in Made(nodes, N) <=> \E i \in 1 .. N : b \in Own(nodes[i], i)
        BY Zenon DEF Made
      <4>3. b \in Own(nodes'[c], c) <=> b \in Own(nodes[c], c) \/ b \in block
        BY <3>2, Zenon
      <4>4. QED BY <3>1, <3>2, <4>1, <4>2, <4>3, Zenon
    <3>4. QED BY <3>3, Zenon
  <2>3. QED BY <1>1, <1>4, <2>2
<1>10. Current' = N /\ nodes'[N].child = Null
  <2>1. Current' = Current
    BY <1>2 DEF Current, Top
  <2>2. QED BY <1>1, <1>6, <2>1 DEF SameLinks
<1>11. N \in 1 .. N
  BY <1>1
<1>12. QED BY <1>2, <1>5, <1>7, <1>8, <1>9, <1>10, <1>11 DEF MemoryOK

\* A call begins: its item is the youngest.
LEMMA OpenMemory ==
  ASSUME IInv, MemoryOK, NEW kind \in Kinds, Open(kind)
  PROVE  MemoryOK'
<1> DEFINE N == Len(nodes)
           k == Len(frames)
           frame == [kind |-> kind, item |-> Current, head |-> Null, last |-> Null]
<1>1. UNCHANGED <<nodes, live, corrupt>> /\ at = "value"
  BY DEF Open
<1>2. /\ N \in Nat /\ N >= 1 /\ k \in Nat /\ frames \in Seq(Frames) /\ Sound(nodes)
      /\ Spans(nodes, frames, N) /\ live = Made(nodes, N)
      /\ Current = N /\ nodes[N].child = Null
  BY <1>1, MemoryFacts DEF MemoryOK
<1>3. CASE at' = "fail"
  BY <1>1, <1>3 DEF Open, MemoryOK
<1>4. CASE at' # "fail"
  <2>1. frames' = Append(frames, frame) /\ at' \in {"close", "element"}
    BY <1>4 DEF Open
  <2>2. frame.item = N /\ frame.head = Null /\ frame.last = Null
    BY <1>2
  <2> HIDE DEF frame
  <2>3. /\ Len(frames') = k + 1 /\ frames'[k + 1] = frame
        /\ \A i \in 1 .. k : frames'[i] = frames[i]
    BY <1>2, <2>1
  <2>4. /\ \A i \in 0 .. k : End(frames', N, i) = End(frames, N, i)
        /\ End(frames', N, k + 1) = N
    <3>1. End(frames', N, k + 1) = N
      BY <2>3 DEF End
    <3>2. ASSUME NEW i \in 0 .. k PROVE End(frames', N, i) = End(frames, N, i)
      <4>1. CASE i = k
        BY <1>2, <2>2, <2>3, <4>1 DEF End
      <4>2. CASE i # k
        <5>1. i + 1 \in 1 .. k /\ i # k + 1
          BY <1>2, <4>2
        <5>2. QED BY <2>3, <4>2, <5>1 DEF End
      <4>3. QED BY <4>1, <4>2
    <3>3. QED BY <3>1, <3>2
  <2>5. Ascending(frames', N)
    <3>1. ASSUME NEW i \in 0 .. k + 1
          PROVE  /\ End(frames', N, i) \in 1 .. N
                 /\ \A j \in i + 1 .. k + 1 : End(frames', N, i) <= frames'[j].item
      <4>1. CASE i = k + 1
        BY <1>2, <2>4, <4>1
      <4>2. CASE i # k + 1
        <5>1. i \in 0 .. k
          BY <1>2, <4>2
        <5>2. End(frames, N, i) \in 1 .. N /\ \A j \in i + 1 .. k : End(frames, N, i) <= frames[j].item
          BY <1>2, <5>1 DEF Spans, Ascending
        <5>3. ASSUME NEW j \in i + 1 .. k + 1 PROVE End(frames, N, i) <= frames'[j].item
          <6>1. CASE j = k + 1
            BY <2>2, <2>3, <5>2, <6>1
          <6>2. CASE j # k + 1
            <7>1. j \in i + 1 .. k /\ j \in 1 .. k
              BY <1>2, <5>1, <6>2
            <7>2. QED BY <2>3, <5>2, <7>1
          <6>3. QED BY <6>1, <6>2
        <5>4. QED BY <2>4, <5>1, <5>2, <5>3
      <4>3. QED BY <4>1, <4>2
    <3>2. QED BY <2>3, <3>1 DEF Ascending
  <2>6. ASSUME NEW i \in 1 .. k + 1 PROVE Span(nodes, frames'[i], End(frames', N, i))
    <3>1. CASE i = k + 1
      <4>1. Listed(nodes, Null) = {} /\ N + 1 .. N = {}
        BY <1>2, ListedUnfolds
      <4>2. QED BY <1>2, <2>2, <2>3, <2>4, <3>1, <4>1 DEF Span
    <3>2. CASE i # k + 1
      <4>1. i \in 1 .. k /\ i \in 0 .. k
        BY <1>2, <3>2
      <4>2. Span(nodes, frames[i], End(frames, N, i))
        BY <1>2, <4>1 DEF Spans
      <4>3. QED BY <2>3, <2>4, <4>1, <4>2
    <3>3. QED BY <3>1, <3>2
  <2>7. Spans(nodes, frames', N)
    <3>1. Listed(nodes, Root) = 1 .. End(frames', N, 0)
      <4>1. 0 \in 0 .. k
        BY <1>2
      <4>2. QED BY <1>2, <2>4, <4>1 DEF Spans
    <3>2. QED BY <2>3, <2>5, <2>6, <3>1 DEF Spans
  <2>8. N \in 1 .. N
    BY <1>2
  <2>9. QED BY <1>1, <1>2, <2>1, <2>7, <2>8 DEF MemoryOK
<1>5. QED BY <1>3, <1>4

\* A call ends without success: what it has is deleted, and it was the youngest.
LEMMA FailMemory ==
  ASSUME IInv, MemoryOK, Fail
  PROVE  MemoryOK'
<1> DEFINE k == Len(frames)
<1>1. UNCHANGED nodes /\ at = "fail"
  BY DEF Fail
<1>2. PICK m \in 1 .. Len(nodes) : Spans(nodes, frames, m) /\ live = Made(nodes, m)
  BY <1>1 DEF MemoryOK
<1>3. m \in Nat /\ k \in Nat /\ frames \in Seq(Frames) /\ m >= 1
  BY <1>2, MemoryFacts
<1>4. ~corrupt /\ Plain(nodes)
  BY DEF MemoryOK
<1>5. ASSUME NEW n, NEW j \in 0 .. m, Listed(nodes, n) = j + 1 .. m, cJSON_Delete(n)
      PROVE  ~corrupt' /\ live' = Made(nodes, j)
  <2>1. Blocks(nodes, n) \subseteq live /\ live \ Blocks(nodes, n) = Made(nodes, j)
    BY <1>2, <1>3, <1>5, MadeSplits DEF Blocks
  <2>2. QED BY <1>4, <1>5, <2>1 DEF cJSON_Delete
<1>6. CASE frames = <<>>
  <2>1. cJSON_Delete(Root) /\ at' = "failed" /\ frames' = frames
    BY <1>6 DEF Fail
  <2>2. Listed(nodes, Root) = 0 + 1 .. m
    BY <1>2, <1>6 DEF Spans, End
  <2>3. ~corrupt' /\ live' = Made(nodes, 0)
    BY <1>3, <1>5, <2>1, <2>2
  <2>4. Made(nodes, 0) = {}
    BY DEF Made
  <2>5. QED BY <1>1, <1>4, <2>1, <2>3, <2>4 DEF MemoryOK
<1>7. CASE frames # <<>>
  <2> DEFINE j == frames[k].item
  <2>1. cJSON_Delete(frames[k].head) /\ at' = "fail" /\ frames' = Pop
    BY <1>1, <1>7 DEF Fail, Top
  <2>2. k >= 1 /\ k \in 1 .. k /\ k - 1 \in 0 .. k /\ k \in (k - 1) + 1 .. k
    BY <1>3, <1>7
  <2>3. /\ Len(frames') = k - 1
        /\ \A i \in 1 .. k - 1 : frames'[i] = frames[i]
    BY <1>3, <1>7, <2>1, PopFacts
  <2>4. End(frames, m, k - 1) = j /\ End(frames, m, k) = m /\ j \in 1 .. m
    <3>1. k - 1 # k /\ (k - 1) + 1 = k
      BY <1>3
    <3>2. End(frames, m, k - 1) = j /\ End(frames, m, k) = m
      BY <3>1 DEF End
    <3>3. End(frames, m, k - 1) \in 1 .. m
      BY <1>2, <2>2 DEF Spans, Ascending
    <3>4. QED BY <3>2, <3>3
  <2> HIDE DEF j
  <2>5. ~corrupt' /\ live' = Made(nodes, j)
    <3>1. Listed(nodes, frames[k].head) = j + 1 .. m
      BY <1>2, <2>2, <2>4 DEF Spans, Span, j
    <3>2. j \in 0 .. m
      BY <2>4
    <3>3. QED BY <1>5, <2>1, <3>1, <3>2
  <2>6. \A i \in 0 .. k - 1 : End(frames', j, i) = End(frames, m, i)
    <3>1. ASSUME NEW i \in 0 .. k - 1 PROVE End(frames', j, i) = End(frames, m, i)
      <4>1. CASE i = k - 1
        BY <2>3, <2>4, <4>1 DEF End
      <4>2. CASE i # k - 1
        <5>1. i + 1 \in 1 .. k - 1 /\ i # k
          BY <1>3, <4>2
        <5>2. QED BY <2>3, <4>2, <5>1 DEF End
      <4>3. QED BY <4>1, <4>2
    <3>2. QED BY <3>1
  <2>7. Ascending(frames', j)
    <3>1. ASSUME NEW i \in 0 .. k - 1
          PROVE  /\ End(frames', j, i) \in 1 .. j
                 /\ \A l \in i + 1 .. k - 1 : End(frames', j, i) <= frames'[l].item
      <4>1. i \in 0 .. k /\ k \in i + 1 .. k
        BY <1>3
      <4>2. End(frames, m, i) \in 1 .. m /\ \A l \in i + 1 .. k : End(frames, m, i) <= frames[l].item
        BY <1>2, <4>1 DEF Spans, Ascending
      <4>3. End(frames, m, i) <= j
        BY <4>1, <4>2 DEF j
      <4>4. End(frames, m, i) \in 1 .. j
        BY <2>4, <4>2, <4>3
      <4>5. \A l \in i + 1 .. k - 1 : l \in i + 1 .. k /\ l \in 1 .. k - 1
        BY <1>3
      <4>6. QED BY <2>3, <2>6, <4>2, <4>4, <4>5
    <3>2. QED BY <2>3, <3>1 DEF Ascending
  <2>8. ASSUME NEW i \in 1 .. k - 1 PROVE Span(nodes, frames'[i], End(frames', j, i))
    <3>1. i \in 1 .. k /\ i \in 0 .. k - 1
      BY <1>3
    <3>2. Span(nodes, frames[i], End(frames, m, i))
      BY <1>2, <3>1 DEF Spans
    <3>3. QED BY <2>3, <2>6, <3>1, <3>2
  <2>9. Spans(nodes, frames', j)
    <3>1. 0 \in 0 .. k - 1
      BY <1>3, <2>2
    <3>2. Listed(nodes, Root) = 1 .. End(frames', j, 0)
      BY <1>2, <2>6, <3>1 DEF Spans
    <3>3. QED BY <2>3, <2>7, <2>8, <3>2 DEF Spans
  <2>10. j \in 1 .. Len(nodes)
    BY <1>2, <2>4, MemoryFacts
  <2>11. QED BY <1>1, <1>4, <2>1, <2>5, <2>9, <2>10 DEF MemoryOK
<1>8. QED BY <1>6, <1>7

\* The list of a call becomes the children of its item, and so part of the list before.
LEMMA CloseMemory ==
  ASSUME IInv, IInv', MemoryOK, Close
  PROVE  MemoryOK'
<1> DEFINE N == Len(nodes)
           k == Len(frames)
           j == frames[k].item
           h == frames[k].head
<1>1. UNCHANGED <<live, corrupt>> /\ at = "close" /\ at' = "after" /\ frames' = Pop
  BY DEF Close
<1>2. /\ N \in Nat /\ N >= 1 /\ k \in Nat /\ frames \in Seq(Frames) /\ nodes \in Seq(Items)
      /\ Sound(nodes) /\ Spans(nodes, frames, N) /\ live = Made(nodes, N)
  BY <1>1, MemoryFacts
<1>3. frames # <<>> /\ k >= 1 /\ k \in 1 .. k /\ ~corrupt
  BY <1>1, <1>2 DEF IInv, LabelsOK, MemoryOK
<1>4. /\ Len(frames') = k - 1
      /\ \A i \in 1 .. k - 1 : frames'[i] = frames[i]
  BY <1>1, <1>2, <1>3, PopFacts
<1>5. /\ Listed(nodes, h) = j + 1 .. N /\ nodes[j].child = Null /\ (h # Null => h > j)
      /\ j \in 1 .. N /\ h \in 0 .. N
  <2>1. Span(nodes, frames[k], End(frames, N, k)) /\ End(frames, N, k) = N
    BY <1>2, <1>3 DEF Spans, End
  <2>2. QED BY <1>3, <2>1, MemoryFacts DEF Span
<1>6. /\ Len(nodes') = N
      /\ nodes'[j].child = h /\ nodes'[j].next = nodes[j].next
      /\ \A i \in 1 .. N : i # j => SameLinks(nodes'[i], nodes[i])
      /\ \A i \in 1 .. N : SameBlocks(nodes'[i], nodes[i])
  <2> DEFINE last == frames[k].last
             linked == IF h = Null THEN nodes ELSE [nodes EXCEPT ![h].prev = last]
             kind == frames[k].kind
  <2>1. nodes' = [linked EXCEPT ![j].type = kind, ![j].child = h]
    BY <1>3 DEF Close, Top
  <2>2. last \in Nat /\ kind \in Kinds /\ h \in Nat /\ h \in 0 .. N /\ j \in 1 .. N
    <3>1. frames[k] \in Frames
      BY <1>2, <1>3
    <3>2. QED BY <1>5, <3>1 DEF Frames
  <2> HIDE DEF last, kind, h, j
  <2>3. /\ linked \in Seq(Items) /\ Len(linked) = N
        /\ \A i \in 1 .. N : SameLinks(linked[i], nodes[i]) /\ SameBlocks(linked[i], nodes[i])
    <3>1. CASE h = Null
      BY <1>2, <3>1 DEF SameLinks, SameBlocks
    <3>2. CASE h # Null
      <4>1. h \in 1 .. N /\ linked = SetPrev(nodes, h, last)
        BY <1>2, <2>2, <3>2 DEF Null, SetPrev
      <4>2. linked \in Seq(Items) /\ Len(linked) = N
        <5> HIDE DEF linked
        <5>1. QED BY <1>2, <2>2, <4>1, LinkSet
      <4>3. ASSUME NEW i \in 1 .. N PROVE SameLinks(linked[i], nodes[i]) /\ SameBlocks(linked[i], nodes[i])
        <5>1. linked[i] = nodes[i] \/ linked[i] = [nodes[i] EXCEPT !.prev = last]
          BY <1>2, <4>1 DEF SetPrev
        <5> DEFINE old == nodes[i]
                   new == linked[i]
        <5>2. old \in Items /\ (new = old \/ new = [old EXCEPT !.prev = last])
          BY <1>2, <5>1
        <5> HIDE DEF old, new
        <5>3. SameLinks(new, old) /\ SameBlocks(new, old)
          BY <5>2 DEF Items, SameLinks, SameBlocks
        <5>4. QED BY <5>3 DEF old, new
      <4>4. QED BY <4>2, <4>3
    <3>3. QED BY <3>1, <3>2
  <2> HIDE DEF linked
  <2>4. /\ Len(nodes') = N
        /\ \A i \in 1 .. N : i # j => nodes'[i] = linked[i]
        /\ nodes'[j] = [linked[j] EXCEPT !.type = kind, !.child = h]
    <3> DEFINE item == [linked[j] EXCEPT !.type = kind, !.child = h]
    <3>1. nodes' = [linked EXCEPT ![j] = item]
      BY <2>1, <2>2, <2>3
    <3> HIDE DEF item
    <3>2. /\ Len(nodes') = N /\ nodes'[j] = item
          /\ \A i \in 1 .. N : i # j => nodes'[i] = linked[i]
      BY <2>2, <2>3, <3>1
    <3>3. QED BY <3>2 DEF item
  <2>5. nodes'[j].child = h /\ nodes'[j].next = linked[j].next /\ SameBlocks(nodes'[j], linked[j])
    <3> DEFINE old == linked[j]
               new == nodes'[j]
    <3>1. old \in Items /\ new = [old EXCEPT !.type = kind, !.child = h]
      BY <2>2, <2>3, <2>4
    <3> HIDE DEF old, new
    <3>2. new.child = h /\ new.next = old.next /\ SameBlocks(new, old)
      BY <2>2, <3>1 DEF Items, SameBlocks
    <3>3. QED BY <3>2 DEF old, new
  <2>6. nodes'[j].next = nodes[j].next
    BY <2>2, <2>3, <2>5 DEF SameLinks
  <2>7. \A i \in 1 .. N : i # j => SameLinks(nodes'[i], nodes[i])
    BY <2>3, <2>4 DEF SameLinks
  <2>8. \A i \in 1 .. N : SameBlocks(nodes'[i], nodes[i])
    <3>1. ASSUME NEW i \in 1 .. N PROVE SameBlocks(nodes'[i], nodes[i])
      <4>1. SameBlocks(linked[i], nodes[i])
        BY <2>3
      <4>2. CASE i = j
        BY <2>5, <4>1, <4>2 DEF SameBlocks
      <4>3. CASE i # j
        BY <2>4, <4>1, <4>3
      <4>4. QED BY <4>2, <4>3
    <3>2. QED BY <3>1
  <2>9. QED BY <2>4, <2>5, <2>6, <2>7, <2>8
<1> HIDE DEF j, h
<1>7. Plain(nodes') /\ Sound(nodes')
  <2>1. Plain(nodes')
    <3>1. ASSUME NEW i \in 1 .. N
          PROVE  /\ ~nodes'[i].constant /\ ~nodes'[i].reference
                 /\ nodes'[i].next # Null => nodes'[i].next > i
                 /\ nodes'[i].child # Null => nodes'[i].child > i
      <4>1. /\ ~nodes[i].constant /\ ~nodes[i].reference
            /\ nodes[i].next # Null => nodes[i].next > i
            /\ nodes[i].child # Null => nodes[i].child > i
        BY <1>2 DEF Sound, Plain
      <4>2. ~nodes'[i].constant /\ ~nodes'[i].reference
        BY <1>6, <4>1 DEF SameBlocks
      <4>3. CASE i = j
        BY <1>5, <1>6, <4>1, <4>2, <4>3
      <4>4. CASE i # j
        BY <1>6, <4>1, <4>2, <4>4 DEF SameLinks
      <4>5. QED BY <4>3, <4>4
    <3>2. QED BY <1>6, <3>1 DEF Plain
  <2>2. QED BY <2>1 DEF Sound, IInv, SequencesOK, LinksOK
<1>8. \A i \in 0 .. N :
        Listed(nodes', i) = Listed(nodes, i) \cup (IF j \in Listed(nodes, i) THEN j + 1 .. N ELSE {})
  <2>1. Attached(nodes, nodes', j, h)
    BY <1>5, <1>6 DEF Attached
  <2>2. Sound(nodes) /\ Sound(nodes')
    BY <1>2, <1>7
  <2>3. \A i \in 0 .. Len(nodes) :
          Listed(nodes', i) = Listed(nodes, i) \cup (IF j \in Listed(nodes, i) THEN Listed(nodes, h) ELSE {})
    BY <2>1, <2>2, ListedAttached
  <2>4. QED BY <1>5, <2>3
<1>9. /\ End(frames, N, k - 1) = j
      /\ \A i \in 0 .. k - 1 : End(frames, N, i) \in 1 .. N /\ End(frames, N, i) <= j
      /\ \A i \in 0 .. k - 1 : End(frames', N, i) = IF i = k - 1 THEN N ELSE End(frames, N, i)
  <2>1. End(frames, N, k - 1) = j
    BY <1>2 DEF End, j
  <2>2. ASSUME NEW i \in 0 .. k - 1 PROVE End(frames, N, i) \in 1 .. N /\ End(frames, N, i) <= j
    <3>1. i \in 0 .. k /\ k \in i + 1 .. k
      BY <1>2
    <3>2. QED BY <1>2, <3>1 DEF Spans, Ascending, j
  <2>3. ASSUME NEW i \in 0 .. k - 1
        PROVE  End(frames', N, i) = IF i = k - 1 THEN N ELSE End(frames, N, i)
    <3>1. CASE i = k - 1
      BY <1>4, <3>1 DEF End
    <3>2. CASE i # k - 1
      <4>1. i + 1 \in 1 .. k - 1 /\ i # k
        BY <1>2, <3>2
      <4>2. QED BY <1>4, <3>2, <4>1 DEF End
    <3>3. QED BY <3>1, <3>2
  <2>4. QED BY <2>1, <2>2, <2>3
<1>10. Ascending(frames', N)
  <2>1. ASSUME NEW i \in 0 .. k - 1
        PROVE  /\ End(frames', N, i) \in 1 .. N
               /\ \A l \in i + 1 .. k - 1 : End(frames', N, i) <= frames'[l].item
    <3>1. CASE i = k - 1
      <4>1. \A l \in i + 1 .. k - 1 : FALSE
        BY <1>2, <3>1
      <4>2. QED BY <1>2, <1>9, <3>1, <4>1
    <3>2. CASE i # k - 1
      <4>1. End(frames', N, i) = End(frames, N, i)
        BY <1>9, <3>2
      <4>2. \A l \in i + 1 .. k - 1 : l \in i + 1 .. k /\ l \in 1 .. k - 1
        BY <1>2
      <4>3. \A l \in i + 1 .. k : End(frames, N, i) <= frames[l].item
        <5>1. i \in 0 .. k
          BY <1>2
        <5>2. QED BY <1>2, <5>1 DEF Spans, Ascending
      <4>4. QED BY <1>4, <1>9, <4>1, <4>2, <4>3
    <3>3. QED BY <3>1, <3>2
  <2>2. QED BY <1>4, <2>1 DEF Ascending
\* A list that ends at the item of the call grows to the youngest item, others stay.
<1>11. ASSUME NEW i \in 0 .. k - 1, NEW a \in Nat, NEW n \in 0 .. N,
              Listed(nodes, n) = a .. End(frames, N, i), a <= j, i # k - 1 => End(frames, N, i) < j
       PROVE  Listed(nodes', n) = a .. End(frames', N, i)
  <2>1. Listed(nodes', n) = Listed(nodes, n) \cup (IF j \in Listed(nodes, n) THEN j + 1 .. N ELSE {})
    BY <1>8
  <2>2. CASE i = k - 1
    <3>1. Listed(nodes, n) = a .. j /\ j \in Listed(nodes, n) /\ End(frames', N, i) = N
      BY <1>5, <1>9, <1>11, <2>2
    <3>2. (a .. j) \cup (j + 1 .. N) = a .. N
      BY <1>2, <1>5, <1>11
    <3>3. QED BY <2>1, <3>1, <3>2
  <2>3. CASE i # k - 1
    <3>1. End(frames, N, i) \in 1 .. N /\ End(frames, N, i) < j
      BY <1>9, <1>11, <2>3
    <3>2. j \notin Listed(nodes, n)
      BY <1>5, <1>11, <3>1
    <3>3. QED BY <1>9, <1>11, <2>1, <2>3, <3>2
  <2>4. QED BY <2>2, <2>3
<1>12. ASSUME NEW i \in 1 .. k - 1 PROVE /\ frames[i].item < End(frames, N, i) /\ frames[i].item < j
                                         /\ i - 1 \in 0 .. k - 1 /\ End(frames, N, i - 1) = frames[i].item
  <2>1. Span(nodes, frames[i], End(frames, N, i)) /\ frames[i].last # Null
    <3>1. i \in 1 .. k
      BY <1>2
    <3>2. QED BY <1>1, <1>2, <3>1 DEF Spans, IInv, LabelsOK
  <2>2. frames[i].last \in frames[i].item + 1 .. End(frames, N, i)
    BY <2>1 DEF Span
  <2>3. frames[i].item \in Nat /\ End(frames, N, i) \in Nat /\ End(frames, N, i) <= j /\ j \in Nat
    <3>1. i \in 1 .. k /\ i \in 0 .. k - 1
      BY <1>2
    <3>2. frames[i].item \in 1 .. N
      BY <3>1, MemoryFacts
    <3>3. QED BY <1>5, <1>9, <3>1, <3>2
  <2>4. i - 1 # k /\ (i - 1) + 1 = i /\ i - 1 \in 0 .. k - 1
    BY <1>2
  <2>5. End(frames, N, i - 1) = frames[i].item
    BY <2>4 DEF End
  <2>6. QED BY <2>2, <2>3, <2>4, <2>5
<1>13. ASSUME NEW i \in 1 .. k - 1 PROVE Span(nodes', frames'[i], End(frames', N, i))
  <2> DEFINE f == frames[i]
  <2>1. /\ i \in 1 .. k /\ i \in 0 .. k - 1 /\ f.item \in 1 .. N /\ f.head \in 0 .. N
        /\ f.last \in 0 .. N
    <3>1. i \in 1 .. k /\ i \in 0 .. k - 1
      BY <1>2
    <3>2. QED BY <3>1, MemoryFacts
  <2>2. Span(nodes, f, End(frames, N, i)) /\ f.item < j
    BY <1>2, <1>12, <2>1 DEF Spans
  <2>3. i # k - 1 => End(frames, N, i) < j
    <3>1. i # k - 1 => i + 1 \in 1 .. k - 1 /\ (i + 1) - 1 = i
      BY <1>2
    <3>2. i # k - 1 => frames[i + 1].item < j /\ End(frames, N, i) = frames[i + 1].item
      BY <1>12, <3>1
    <3>3. QED BY <3>2
  <2> HIDE DEF f
  <2>4. Listed(nodes', f.head) = f.item + 1 .. End(frames', N, i)
    <3>1. f.item + 1 \in Nat /\ f.item + 1 <= j
      BY <1>5, <2>1, <2>2
    <3>2. Listed(nodes, f.head) = f.item + 1 .. End(frames, N, i)
      BY <2>2 DEF Span
    <3>3. QED BY <1>11, <2>1, <2>3, <3>1, <3>2
  <2>5. nodes'[f.item].child = Null
    <3>1. f.item # j
      BY <1>5, <2>1, <2>2
    <3>2. QED BY <1>6, <2>1, <2>2, <3>1 DEF Span, SameLinks
  <2>6. f.last # Null => f.last \in f.item + 1 .. End(frames', N, i) /\ nodes'[f.last].next = Null
    <3>1. SUFFICES ASSUME f.last # Null
                   PROVE  f.last \in f.item + 1 .. End(frames', N, i) /\ nodes'[f.last].next = Null
      OBVIOUS
    <3>2. f.last \in f.item + 1 .. End(frames, N, i) /\ nodes[f.last].next = Null
      BY <2>2, <3>1 DEF Span
    <3>3. End(frames', N, i) = N \/ End(frames', N, i) = End(frames, N, i)
      BY <1>9, <2>1
    <3>4. f.last \in 1 .. N
      BY <2>1, <3>1 DEF Null
    <3>5. f.last \in f.item + 1 .. End(frames', N, i)
      BY <1>2, <2>1, <3>2, <3>3, <3>4
    <3>6. nodes'[f.last].next = nodes[f.last].next
      BY <1>6, <3>4 DEF SameLinks
    <3>7. QED BY <3>2, <3>5, <3>6
  <2>7. (f.head # Null => f.head > f.item) /\ (f.last = Null <=> f.head = Null)
    BY <2>2 DEF Span
  <2>8. Span(nodes', f, End(frames', N, i))
    BY <2>4, <2>5, <2>6, <2>7 DEF Span
  <2>9. QED BY <1>4, <2>8 DEF f
<1>14. Listed(nodes', Root) = 1 .. End(frames', N, 0)
  <2>1. Root = 1 /\ Root \in 0 .. N /\ 0 \in 0 .. k - 1
    BY <1>2, <1>3 DEF Root
  <2>2. Listed(nodes, Root) = 1 .. End(frames, N, 0) /\ 1 <= j
    BY <1>2, <1>5 DEF Spans
  <2>3. 0 # k - 1 => End(frames, N, 0) < j
    <3>1. 0 # k - 1 => 1 \in 1 .. k - 1 /\ 1 - 1 = 0
      <4>1. k \in Nat /\ k >= 1
        BY <1>2, <1>3
      <4> HIDE DEF k
      <4>2. QED BY <4>1
    <3>2. 0 # k - 1 => frames[1].item < j /\ End(frames, N, 0) = frames[1].item
      BY <1>12, <3>1
    <3>3. QED BY <3>2
  <2>4. 1 \in Nat
    OBVIOUS
  <2>5. QED BY <1>11, <2>1, <2>2, <2>3, <2>4
<1>15. Spans(nodes', frames', N)
  BY <1>4, <1>10, <1>13, <1>14 DEF Spans
<1>16. Made(nodes', N) = live'
  BY <1>1, <1>2, <1>6, MadeKept
<1>17. N \in 1 .. Len(nodes') /\ N = Len(nodes')
  BY <1>2, <1>6
<1>18. QED BY <1>1, <1>3, <1>7, <1>15, <1>16, <1>17 DEF MemoryOK

\* A new item, and the one it is put behind.
LEMMA ElementNodes ==
  ASSUME IInv, IInv', MemoryOK, Element
  PROVE  LET last == frames[Len(frames)].last
             n    == Len(nodes) + 1
         IN /\ Len(nodes') = n /\ nodes'[n] = [Item EXCEPT !.prev = last]
            /\ \A i \in 1 .. Len(nodes) : i # last => nodes'[i] = nodes[i]
            /\ last # Null => nodes'[last] = [nodes[last] EXCEPT !.next = n]
<1> DEFINE N == Len(nodes)
           k == Len(frames)
           last == frames[k].last
           n == N + 1
           item == [Item EXCEPT !.prev = last]
           mid == Append(nodes, item)
<1>1. at = "element" /\ nodes' = Append(IF last = Null THEN nodes ELSE [nodes EXCEPT ![last].next = n], item)
  BY DEF Element, Top
<1>2. /\ N \in Nat /\ N >= 1 /\ k \in Nat /\ nodes \in Seq(Items)
      /\ Sound(nodes) /\ Spans(nodes, frames, N)
  BY <1>1, MemoryFacts
<1>3. k \in 1 .. k /\ last \in 0 .. N
  <2>1. frames # <<>>
    BY <1>1 DEF IInv, LabelsOK
  <2>2. k \in 1 .. k
    BY <2>1, MemoryFacts
  <2>3. QED BY <2>2, MemoryFacts
<1>4. last # Null => last \in 1 .. N /\ nodes[last].next = Null
  <2>1. Span(nodes, frames[k], End(frames, N, k))
    BY <1>2, <1>3 DEF Spans
  <2>2. last # Null => nodes[last].next = Null
    BY <2>1 DEF Span
  <2>3. QED BY <1>2, <1>3, <2>2 DEF Null
<1>5. item \in Items
  <2> HIDE DEF last
  <2>1. Item \in Items /\ last \in Nat
    <3>1. Item \in Items
      BY DEF Item, Items, Null, Cells, Unnamed
    <3>2. QED BY <1>2, <1>3, <3>1
  <2>2. QED BY <2>1 DEF Items
<1> HIDE DEF item, last
<1>6. /\ mid \in Seq(Items) /\ Len(mid) = n /\ mid[n] = item
      /\ \A i \in 1 .. N : mid[i] = nodes[i]
  BY <1>2, <1>5
<1>7. /\ Len(nodes') = n /\ nodes'[n] = item
      /\ \A i \in 1 .. N : i # last => nodes'[i] = nodes[i]
      /\ last # Null => nodes'[last] = [nodes[last] EXCEPT !.next = n]
  <2>1. CASE last = Null
    <3>1. nodes' = mid
      BY <1>1, <2>1
    <3>2. QED BY <1>6, <2>1, <3>1
  <2>2. CASE last # Null
    <3> DEFINE new == [nodes[last] EXCEPT !.next = n]
               items == [nodes EXCEPT ![last] = new]
    <3>1. nodes' = Append(items, item)
      BY <1>1, <2>2
    <3>2. items \in Seq(Items) /\ Len(items) = N
      <4>1. last \in 1 .. Len(nodes) /\ n \in Nat /\ items = SetNext(nodes, last, n)
        BY <1>2, <1>4, <2>2 DEF SetNext
      <4> HIDE DEF items, n
      <4>2. QED BY <1>2, <4>1, LinkSet
    <3>3. items[last] = new /\ \A i \in 1 .. N : i # last => items[i] = nodes[i]
      <4> HIDE DEF new
      <4>1. QED BY <1>2, <1>4, <2>2
    <3> HIDE DEF items, new
    <3>4. /\ Len(nodes') = n /\ nodes'[n] = item
          /\ \A i \in 1 .. N : nodes'[i] = items[i]
      BY <1>2, <1>5, <3>1, <3>2
    <3>5. QED BY <1>4, <2>2, <3>3, <3>4 DEF new
  <2>3. QED BY <2>1, <2>2
<1>8. QED BY <1>7 DEF item, last

\* A new item is found by itself, and where the last item of its list is.
LEMMA ElementItems ==
  ASSUME IInv, IInv', MemoryOK, Element
  PROVE  LET last == frames[Len(frames)].last
             n    == Len(nodes) + 1
         IN /\ Len(nodes') = n /\ nodes'[n].next = Null /\ nodes'[n].child = Null
            /\ Sound(nodes') /\ Made(nodes', n) = Made(nodes, Len(nodes)) \cup {<<"item", n>>}
            /\ \A i \in 1 .. Len(nodes) : /\ nodes'[i].child = nodes[i].child
                                          /\ i # last => nodes'[i].next = nodes[i].next
            /\ \A i \in 0 .. Len(nodes) :
                 Listed(nodes', i) = Listed(nodes, i) \cup (IF last # Null /\ last \in Listed(nodes, i)
                                                            THEN {n} ELSE {})
            /\ Listed(nodes', n) = {n}
<1> DEFINE N == Len(nodes)
           k == Len(frames)
           last == frames[k].last
           n == N + 1
           item == [Item EXCEPT !.prev = last]
           mid == Append(nodes, item)
<1>1. at = "element" /\ nodes' = Append(IF last = Null THEN nodes ELSE [nodes EXCEPT ![last].next = n], item)
  BY DEF Element, Top
<1>2. /\ N \in Nat /\ N >= 1 /\ k \in Nat /\ nodes \in Seq(Items)
      /\ Sound(nodes) /\ Spans(nodes, frames, N)
  BY <1>1, MemoryFacts
<1>3. k \in 1 .. k /\ last \in 0 .. N
  <2>1. frames # <<>>
    BY <1>1 DEF IInv, LabelsOK
  <2>2. k \in 1 .. k
    BY <2>1, MemoryFacts
  <2>3. QED BY <2>2, MemoryFacts
<1>4. last # Null => last \in 1 .. N /\ nodes[last].next = Null
  <2>1. Span(nodes, frames[k], End(frames, N, k))
    BY <1>2, <1>3 DEF Spans
  <2>2. last # Null => nodes[last].next = Null
    BY <2>1 DEF Span
  <2>3. QED BY <1>2, <1>3, <2>2 DEF Null
<1>5. /\ item \in Items /\ item.next = Null /\ item.child = Null /\ item.prev = last
      /\ item.constant = FALSE /\ item.reference = FALSE /\ item.value = FALSE /\ item.name = Unnamed
  <2> HIDE DEF last
  <2>1. Item \in Items /\ last \in Nat
    <3>1. Item \in Items
      BY DEF Item, Items, Null, Cells, Unnamed
    <3>2. QED BY <1>2, <1>3, <3>1
  <2>2. /\ Item.next = Null /\ Item.child = Null /\ Item.constant = FALSE /\ Item.reference = FALSE
        /\ Item.value = FALSE /\ Item.name = Unnamed
    BY DEF Item
  <2>3. item.prev = last /\ item \in Items
    BY <2>1 DEF Items
  <2>4. QED BY <2>1, <2>2, <2>3 DEF Items
<1> HIDE DEF item, last
<1>6. /\ mid \in Seq(Items) /\ Len(mid) = n /\ mid[n] = item
      /\ \A i \in 1 .. N : mid[i] = nodes[i]
  BY <1>2, <1>5
<1>7. /\ Len(nodes') = n /\ nodes'[n] = item
      /\ \A i \in 1 .. N : i # last => nodes'[i] = nodes[i]
      /\ last # Null => nodes'[last] = [nodes[last] EXCEPT !.next = n]
  BY ElementNodes, Zenon DEF item, last
<1>8. last # Null => /\ nodes'[last].next = n /\ nodes'[last].child = nodes[last].child
                     /\ SameBlocks(nodes'[last], nodes[last])
  <2> SUFFICES ASSUME last # Null
               PROVE  /\ nodes'[last].next = n /\ nodes'[last].child = nodes[last].child
                      /\ SameBlocks(nodes'[last], nodes[last])
    OBVIOUS
  <2> DEFINE old == nodes[last]
             new == nodes'[last]
  <2>1. old \in Items /\ new = [old EXCEPT !.next = n]
    BY <1>2, <1>4, <1>7
  <2> HIDE DEF old, new, n
  <2>2. new.next = n /\ new.child = old.child /\ SameBlocks(new, old)
    BY <2>1 DEF Items, SameBlocks
  <2>3. QED BY <2>2 DEF old, new
<1>9. \A i \in 1 .. N : /\ nodes'[i].child = nodes[i].child /\ SameBlocks(nodes'[i], nodes[i])
                        /\ i # last => nodes'[i].next = nodes[i].next
  <2>1. ASSUME NEW i \in 1 .. N
        PROVE  /\ nodes'[i].child = nodes[i].child /\ SameBlocks(nodes'[i], nodes[i])
               /\ i # last => nodes'[i].next = nodes[i].next
    <3>1. CASE i = last
      <4>1. last # Null
        BY <1>2, <3>1 DEF Null
      <4>2. QED BY <1>8, <3>1, <4>1
    <3>2. CASE i # last
      BY <1>7, <3>2 DEF SameBlocks
    <3>3. QED BY <3>1, <3>2
  <2>2. QED BY <2>1
<1>10. Sound(mid)
  <2>1. Linked(mid, n)
    <3>1. ASSUME NEW i \in 1 .. n
          PROVE  mid[i].next \in 0 .. n /\ mid[i].prev \in 0 .. n /\ mid[i].child \in 0 .. n
      <4>1. CASE i = n
        BY <1>2, <1>3, <1>5, <1>6, <4>1 DEF Null
      <4>2. CASE i # n
        <5>1. i \in 1 .. N /\ mid[i] = nodes[i]
          BY <1>2, <1>6, <4>2
        <5>2. /\ nodes[i].next \in 0 .. N /\ nodes[i].prev \in 0 .. N /\ nodes[i].child \in 0 .. N
          BY <1>2, <5>1 DEF Sound, Linked
        <5>3. 0 .. N \subseteq 0 .. n
          BY <1>2
        <5> HIDE DEF n, mid, N
        <5>4. QED BY <5>1, <5>2, <5>3
      <4>3. QED BY <4>1, <4>2
    <3> HIDE DEF mid
    <3>2. QED BY <1>6, <3>1 DEF Linked
  <2>2. Plain(mid)
    <3>1. ASSUME NEW i \in 1 .. n
          PROVE  /\ ~mid[i].constant /\ ~mid[i].reference
                 /\ mid[i].next # Null => mid[i].next > i
                 /\ mid[i].child # Null => mid[i].child > i
      <4>1. CASE i = n
        <5>1. mid[i] = item
          BY <1>6, <4>1
        <5> HIDE DEF mid, n
        <5>2. QED BY <1>5, <5>1
      <4>2. CASE i # n
        <5>1. i \in 1 .. N /\ mid[i] = nodes[i]
          BY <1>2, <1>6, <4>2
        <5> HIDE DEF mid, n
        <5>2. QED BY <1>2, <5>1 DEF Sound, Plain
      <4>3. QED BY <4>1, <4>2
    <3> HIDE DEF mid
    <3>2. QED BY <1>6, <3>1 DEF Plain
  <2> HIDE DEF mid
  <2>3. QED BY <1>6, <2>1, <2>2 DEF Sound
<1>11. Sound(nodes')
  <2>1. Plain(nodes')
    <3>1. ASSUME NEW i \in 1 .. n
          PROVE  /\ ~nodes'[i].constant /\ ~nodes'[i].reference
                 /\ nodes'[i].next # Null => nodes'[i].next > i
                 /\ nodes'[i].child # Null => nodes'[i].child > i
      <4>1. CASE i = n
        <5>1. nodes'[i] = item
          BY <1>7, <4>1
        <5> HIDE DEF n
        <5>2. QED BY <1>5, <5>1
      <4>2. CASE i # n
        <5>1. i \in 1 .. N
          BY <1>2, <4>2
        <5>2. /\ ~nodes[i].constant /\ ~nodes[i].reference
              /\ nodes[i].next # Null => nodes[i].next > i
              /\ nodes[i].child # Null => nodes[i].child > i
          BY <1>2, <5>1 DEF Sound, Plain
        <5>3. ~nodes'[i].constant /\ ~nodes'[i].reference /\ (nodes'[i].child # Null => nodes'[i].child > i)
          BY <1>9, <5>1, <5>2 DEF SameBlocks
        <5>4. nodes'[i].next # Null => nodes'[i].next > i
          <6>1. CASE i # last
            BY <1>9, <5>1, <5>2, <6>1
          <6>2. CASE i = last
            <7>1. last # Null /\ n > i
              BY <1>2, <5>1, <6>2 DEF Null
            <7> HIDE DEF n
            <7>2. QED BY <1>8, <6>2, <7>1
          <6>3. QED BY <6>1, <6>2
        <5>5. QED BY <5>3, <5>4
      <4>3. QED BY <4>1, <4>2
    <3> HIDE DEF n
    <3>2. QED BY <1>7, <3>1 DEF Plain
  <2>2. QED BY <2>1 DEF Sound, IInv, SequencesOK, LinksOK
<1>12. Made(nodes', n) = Made(nodes, N) \cup {<<"item", n>>}
  <2>1. Made(nodes', N) = Made(nodes, N)
    BY <1>9, MadeKept
  <2>2. Own(nodes'[n], n) = {<<"item", n>>}
    <3> HIDE DEF n
    <3>1. QED BY <1>5, <1>7 DEF Own
  <2>3. n \in 1 .. n /\ \A i : i \in 1 .. n <=> i \in 1 .. N \/ i = n
    BY <1>2
  <2> HIDE DEF n, N
  <2>4. \A b : b \in Made(nodes', n) <=> b \in Made(nodes', N) \/ b \in Own(nodes'[n], n)
    BY <2>3, Zenon DEF Made
  <2>5. QED BY <2>1, <2>2, <2>4
<1>13. (\A i \in 0 .. N : Listed(mid, i) = Listed(nodes, i)) /\ Listed(mid, n) = {n}
  <2>1. mid[n].next = Null /\ mid[n].child = Null
    BY <1>5, <1>6
  <2>2. \A i \in 1 .. N : SameLinks(mid[i], nodes[i])
    BY <1>6 DEF SameLinks
  <2>3. Len(mid) = Len(nodes) + 1 /\ Len(mid) = n
    BY <1>6
  <2> HIDE DEF mid, n
  <2>4. QED BY <1>2, <1>10, <2>1, <2>2, <2>3, ListedAppended
<1>14. /\ \A i \in 0 .. N : Listed(nodes', i) = Listed(nodes, i) \cup (IF last # Null /\ last \in Listed(nodes, i)
                                                                      THEN {n} ELSE {})
       /\ Listed(nodes', n) = {n}
  <2>1. CASE last = Null
    <3>1. nodes' = mid
      BY <1>1, <2>1
    <3> HIDE DEF mid
    <3>2. QED BY <1>13, <2>1, <3>1
  <2>2. CASE last # Null
    <3>1. Attached(mid, nodes', last, n)
      <4>1. last \in 1 .. n /\ n \in 0 .. n /\ n > last /\ last \in 1 .. N
        BY <1>2, <1>4, <2>2
      <4>2. ASSUME NEW i \in 1 .. n, i # last PROVE SameLinks(nodes'[i], mid[i])
        <5>1. CASE i = n
          BY <1>6, <1>7, <5>1 DEF SameLinks
        <5>2. CASE i # n
          <6>1. i \in 1 .. N
            BY <1>2, <5>2
          <6>2. QED BY <1>6, <1>7, <4>2, <6>1 DEF SameLinks
        <5>3. QED BY <5>1, <5>2
      <4>3. /\ mid[last].next = Null /\ nodes'[last].next = n
            /\ nodes'[last].child = mid[last].child
        BY <1>4, <1>6, <1>8, <2>2, <4>1
      <4> HIDE DEF mid, n
      <4>4. QED BY <1>6, <1>7, <4>1, <4>2, <4>3 DEF Attached
    <3>2. \A i \in 0 .. n : Listed(nodes', i) = Listed(mid, i) \cup (IF last \in Listed(mid, i)
                                                                    THEN Listed(mid, n) ELSE {})
      <4> HIDE DEF mid, n
      <4>1. QED BY <1>6, <1>10, <1>11, <3>1, ListedAttached
    <3>3. \A i \in 0 .. N : i \in 0 .. n
      BY <1>2
    <3>4. n \in 0 .. n /\ last # n
      BY <1>2, <1>4, <2>2
    <3> HIDE DEF mid, n
    <3>5. QED BY <1>13, <2>2, <3>2, <3>3, <3>4
  <2>3. QED BY <2>1, <2>2
<1>15. QED BY <1>5, <1>7, <1>9, <1>11, <1>12, <1>14, Zenon DEF last

\* A new item is put behind the last one of the youngest list.
LEMMA ElementMemory ==
  ASSUME IInv, IInv', MemoryOK, Element
  PROVE  MemoryOK'
<1> DEFINE N == Len(nodes)
           k == Len(frames)
           f == frames[k]
           n == N + 1
           head == IF f.head = Null THEN n ELSE f.head
           grown == [f EXCEPT !.head = head, !.last = n]
<1>1. /\ at = "element" /\ at' \in {"name", "value"} /\ live' = live \cup {<<"item", n>>}
      /\ corrupt' = corrupt
  BY DEF Element
<1>2. /\ N \in Nat /\ N >= 1 /\ k \in Nat /\ frames \in Seq(Frames)
      /\ Spans(nodes, frames, N) /\ live = Made(nodes, N) /\ ~corrupt
  BY <1>1, MemoryFacts DEF MemoryOK
<1>3. k \in 1 .. k /\ k >= 1
  BY <1>1, <1>2 DEF IInv, LabelsOK
<1>4. /\ f \in Frames /\ f.item \in 1 .. N /\ f.head \in 0 .. N /\ f.last \in 0 .. N
      /\ Span(nodes, f, N) /\ End(frames, N, k) = N
  <2>1. End(frames, N, k) = N
    BY DEF End
  <2>2. QED BY <1>2, <1>3, <2>1, MemoryFacts DEF Spans
<1>5. /\ Len(frames') = k /\ frames'[k] = grown
      /\ \A i \in 1 .. k : i # k => frames'[i] = frames[i]
  <2>1. frames' = [frames EXCEPT ![k] = grown]
    BY <1>2, <1>3 DEF Element, Top
  <2> HIDE DEF grown
  <2>2. QED BY <1>2, <1>3, <2>1
<1>6. grown.item = f.item /\ grown.head = head /\ grown.last = n
  <2> HIDE DEF f, head, n
  <2>1. QED BY <1>4 DEF Frames
<1>7. /\ Len(nodes') = n /\ nodes'[n].next = Null /\ nodes'[n].child = Null
      /\ Sound(nodes') /\ Made(nodes', n) = Made(nodes, N) \cup {<<"item", n>>}
      /\ \A i \in 1 .. N : /\ nodes'[i].child = nodes[i].child
                           /\ i # f.last => nodes'[i].next = nodes[i].next
      /\ \A i \in 0 .. N : Listed(nodes', i) = Listed(nodes, i) \cup (IF f.last # Null /\ f.last \in Listed(nodes, i)
                                                                     THEN {n} ELSE {})
      /\ Listed(nodes', n) = {n}
  BY ElementItems, Zenon
<1> HIDE DEF grown, head
<1>8. /\ \A i \in 0 .. k : i # k => End(frames', n, i) = End(frames, N, i)
      /\ End(frames', n, k) = n
  <2>1. ASSUME NEW i \in 0 .. k, i # k PROVE End(frames', n, i) = End(frames, N, i)
    <3>1. i + 1 \in 1 .. k
      BY <1>2, <2>1
    <3>2. frames'[i + 1].item = frames[i + 1].item
      <4>1. CASE i + 1 = k
        BY <1>5, <1>6, <4>1
      <4>2. CASE i + 1 # k
        BY <1>5, <3>1, <4>2
      <4>3. QED BY <4>1, <4>2
    <3>3. QED BY <1>5, <2>1, <3>2 DEF End
  <2>2. QED BY <1>5, <2>1 DEF End
<1>9. \A i \in 0 .. k : i # k => End(frames, N, i) \in 1 .. N /\ End(frames, N, i) <= f.item
  <2>1. ASSUME NEW i \in 0 .. k, i # k PROVE End(frames, N, i) \in 1 .. N /\ End(frames, N, i) <= f.item
    <3>1. k \in i + 1 .. k
      BY <1>2, <2>1
    <3>2. QED BY <1>2, <3>1 DEF Spans, Ascending
  <2>2. QED BY <2>1
<1>10. Ascending(frames', n)
  <2>1. ASSUME NEW i \in 0 .. k
        PROVE  /\ End(frames', n, i) \in 1 .. n
               /\ \A j \in i + 1 .. k : End(frames', n, i) <= frames'[j].item
    <3>1. CASE i = k
      BY <1>2, <1>8, <3>1
    <3>2. CASE i # k
      <4>1. End(frames', n, i) = End(frames, N, i) /\ End(frames, N, i) \in 1 .. n
        BY <1>2, <1>8, <1>9, <3>2
      <4>2. ASSUME NEW j \in i + 1 .. k PROVE End(frames, N, i) <= frames'[j].item
        <5>1. j \in 1 .. k
          BY <1>2
        <5>2. frames'[j].item = frames[j].item
          BY <1>5, <1>6, <5>1
        <5>3. QED BY <1>2, <5>2 DEF Spans, Ascending
      <4>3. QED BY <4>1, <4>2
    <3>3. QED BY <3>1, <3>2
  <2>2. QED BY <1>5, <2>1 DEF Ascending
\* The last item of the youngest list is in no other.
<1>11. ASSUME NEW i \in 0 .. N, NEW a \in Nat, NEW e, e <= f.item, e \in Nat, Listed(nodes, i) = a .. e
       PROVE  Listed(nodes', i) = a .. e
  <2>1. f.last # Null => f.last \in f.item + 1 .. N
    BY <1>4 DEF Span
  <2>2. f.last # Null => f.last \notin a .. e
    BY <1>2, <1>4, <1>11, <2>1
  <2>3. QED BY <1>7, <1>11, <2>2
<1>12. Listed(nodes', Root) = 1 .. End(frames', n, 0)
  <2>1. Root \in 0 .. N /\ 0 \in 0 .. k /\ 0 # k
    BY <1>2, <1>3 DEF Root
  <2>2. Listed(nodes, Root) = 1 .. End(frames, N, 0)
    BY <1>2 DEF Spans
  <2>3. End(frames, N, 0) \in Nat /\ End(frames, N, 0) <= f.item
    BY <1>9, <2>1
  <2>4. 1 \in Nat
    OBVIOUS
  <2>5. Listed(nodes', Root) = 1 .. End(frames, N, 0)
    BY <1>11, <2>1, <2>2, <2>3, <2>4
  <2>6. QED BY <1>8, <2>1, <2>5
<1>13. ASSUME NEW i \in 1 .. k, i # k PROVE Span(nodes', frames'[i], End(frames', n, i))
  <2> DEFINE g == frames[i]
             e == End(frames, N, i)
  <2>1. /\ g.item \in 1 .. N /\ g.head \in 0 .. N /\ g.last \in 0 .. N /\ Span(nodes, g, e)
        /\ frames'[i] = g
    BY <1>2, <1>5, <1>13, MemoryFacts DEF Spans
  <2>2. e \in Nat /\ e <= f.item /\ End(frames', n, i) = e
    <3>1. i \in 0 .. k
      BY <1>2
    <3>2. QED BY <1>8, <1>9, <1>13, <3>1
  <2> HIDE DEF g, e
  <2>3. Listed(nodes', g.head) = g.item + 1 .. e
    <3>1. Listed(nodes, g.head) = g.item + 1 .. e /\ g.item + 1 \in Nat
      BY <2>1 DEF Span
    <3>2. QED BY <1>11, <2>1, <2>2, <3>1, SMTT(30)
  <2>4. nodes'[g.item].child = Null
    BY <1>7, <2>1 DEF Span
  <2>5. g.last # Null => g.last \in g.item + 1 .. e /\ nodes'[g.last].next = Null
    <3> SUFFICES ASSUME g.last # Null
                 PROVE  g.last \in g.item + 1 .. e /\ nodes'[g.last].next = Null
      OBVIOUS
    <3>1. g.last \in g.item + 1 .. e /\ nodes[g.last].next = Null /\ g.last \in 1 .. N
      BY <2>1 DEF Span, Null
    <3>2. g.last # f.last
      <4>1. f.last # Null => f.last \in f.item + 1 .. N
        BY <1>4 DEF Span
      <4>2. g.last <= f.item
        BY <1>4, <2>1, <2>2, <3>1
      <4>3. QED BY <1>4, <3>1, <4>1, <4>2
    <3>3. QED BY <1>7, <3>1, <3>2
  <2>6. (g.head # Null => g.head > g.item) /\ (g.last = Null <=> g.head = Null)
    BY <2>1 DEF Span
  <2>7. QED BY <2>1, <2>2, <2>3, <2>4, <2>5, <2>6 DEF Span
<1>14. Span(nodes', grown, n)
  <2>1. n \in Nat /\ n > N /\ n # Null
    BY <1>2 DEF Null
  <2>2. Listed(nodes', head) = f.item + 1 .. n
    <3>1. CASE f.head = Null
      <4>1. Listed(nodes, Null) = f.item + 1 .. N /\ Listed(nodes, Null) = {}
        BY <1>4, <3>1, MemoryFacts, ListedUnfolds DEF Span
      <4>2. f.item = N
        <5>1. ~(N \in f.item + 1 .. N)
          BY <4>1
        <5>2. QED BY <1>2, <1>4, <5>1
      <4>3. {n} = f.item + 1 .. n
        BY <1>2, <4>2
      <4>4. QED BY <1>7, <3>1, <4>3 DEF head
    <3>2. CASE f.head # Null
      <4>1. f.last # Null /\ f.last \in f.item + 1 .. N /\ Listed(nodes, f.head) = f.item + 1 .. N
        BY <1>4, <3>2 DEF Span
      <4>2. Listed(nodes', f.head) = (f.item + 1 .. N) \cup {n}
        BY <1>4, <1>7, <4>1
      <4>3. (f.item + 1 .. N) \cup {n} = f.item + 1 .. n
        BY <1>2, <1>4
      <4>4. QED BY <3>2, <4>2, <4>3 DEF head
    <3>3. QED BY <3>1, <3>2
  <2>3. nodes'[f.item].child = Null
    BY <1>4, <1>7 DEF Span
  <2>4. n \in f.item + 1 .. n /\ nodes'[n].next = Null
    BY <1>2, <1>4, <1>7
  <2>5. head # Null /\ head > f.item
    BY <1>2, <1>4, <2>1 DEF head, Span
  <2> HIDE DEF n, f
  <2>6. QED BY <1>6, <2>1, <2>2, <2>3, <2>4, <2>5 DEF Span
<1>15. Spans(nodes', frames', n)
  <2>1. ASSUME NEW i \in 1 .. k PROVE Span(nodes', frames'[i], End(frames', n, i))
    BY <1>5, <1>8, <1>13, <1>14
  <2>2. QED BY <1>5, <1>10, <1>12, <2>1 DEF Spans
<1>16. Current' = n
  <2>1. frames' # <<>> /\ Len(frames') = k
    BY <1>2, <1>3, <1>5
  <2>2. QED BY <1>5, <1>6, <2>1 DEF Current, Top
<1>17. n \in 1 .. Len(nodes') /\ n = Len(nodes') /\ Plain(nodes')
  BY <1>2, <1>7 DEF Sound
<1>18. live' = Made(nodes', n)
  BY <1>1, <1>2, <1>7
<1> HIDE DEF n
<1>19. QED BY <1>1, <1>2, <1>7, <1>15, <1>16, <1>17, <1>18 DEF MemoryOK

-----------------------------------------------------------------------------
(* What the grammar says *)

\* A phrase is made of shorter ones, and so the recursive definition says of each what
\* Phrase says of it.
LEMMA GrammarUnfolds ==
  ASSUME NEW t \in Seq(Cells), NEW what \in {"value", "array", "object"}, NEW d \in 0 .. NestingLimit,
         NEW i \in 0 .. Len(t), NEW j \in 0 .. Len(t)
  PROVE  Grammar(t)[<<what, d, i, j>>] <=> Phrase(t, Grammar(t), what, d, i, j)
<1> DEFINE S == Stretches(t)
           Says(f, p) == Phrase(t, f, p[1], p[2], p[3], p[4])
           step == [f \in [S -> BOOLEAN] |-> [p \in S |-> Says(f, p)]]
           m == [p \in S |-> IF p[3] <= p[4] THEN p[4] - p[3] ELSE 0]
<1>1. Len(t) \in Nat /\ NestingLimit \in Nat
  BY LimitAssumption
<1>2. \A p \in S : /\ p[1] \in {"value", "array", "object"} /\ p[2] \in 0 .. NestingLimit
                   /\ p[3] \in 0 .. Len(t) /\ p[4] \in 0 .. Len(t)
  BY DEF Stretches
<1>3. \A w \in {"value", "array", "object"}, n \in 0 .. NestingLimit, a, b \in 0 .. Len(t) :
        /\ <<w, n, a, b>> \in S
        /\ a <= b => m[<<w, n, a, b>>] = b - a
  <2> SUFFICES ASSUME NEW w \in {"value", "array", "object"}, NEW n \in 0 .. NestingLimit,
                      NEW a \in 0 .. Len(t), NEW b \in 0 .. Len(t)
               PROVE  /\ <<w, n, a, b>> \in S
                      /\ a <= b => m[<<w, n, a, b>>] = b - a
    OBVIOUS
  <2>1. <<w, n, a, b>> \in S
    BY DEF Stretches
  <2>2. QED BY <2>1
<1>4. m \in [S -> 0 .. Len(t)]
  BY <1>1, <1>2
<1>5. step \in [[S -> BOOLEAN] -> [S -> BOOLEAN]]
  <2>1. \A f, p : Says(f, p) \in BOOLEAN
    BY Zenon DEF Phrase
  <2> HIDE DEF Says
  <2>2. QED BY <2>1
<1>6. ASSUME NEW f \in [S -> BOOLEAN], NEW g \in [S -> BOOLEAN], NEW p \in S,
             \A q \in S : m[q] < m[p] => f[q] = g[q]
      PROVE  Says(f, p) = Says(g, p)
  <2> DEFINE w == p[1]
             n == p[2]
             a == p[3]
             b == p[4]
  <2>1. /\ w \in {"value", "array", "object"} /\ n \in 0 .. NestingLimit
        /\ a \in 0 .. Len(t) /\ b \in 0 .. Len(t)
        /\ m[p] = IF a <= b THEN b - a ELSE 0
    BY <1>2
  <2> HIDE DEF w, n, a, b, m, S
  <2>2. \A v \in {"value", "array", "object"}, k \in 0 .. NestingLimit, c, e \in 0 .. Len(t) :
          a <= c /\ c <= e /\ e <= b /\ (a < c \/ e < b) => f[<<v, k, c, e>>] = g[<<v, k, c, e>>]
    <3> SUFFICES ASSUME NEW v \in {"value", "array", "object"}, NEW k \in 0 .. NestingLimit,
                        NEW c \in 0 .. Len(t), NEW e \in 0 .. Len(t),
                        a <= c, c <= e, e <= b, a < c \/ e < b
                 PROVE  f[<<v, k, c, e>>] = g[<<v, k, c, e>>]
      OBVIOUS
    <3>1. <<v, k, c, e>> \in S /\ m[<<v, k, c, e>>] = e - c
      BY <1>3
    <3>2. e - c < m[p]
      BY <2>1
    <3>3. QED BY <1>6, <3>1, <3>2
  <2>3. \A k \in a .. b : k \in 0 .. Len(t) /\ a <= k /\ k <= b
    BY <2>1
  <2>4. \A c : \A k, e \in Nat : Token(t, c, k, e) => k < e
    BY DEF Token
  <2>5. ASSUME NEW v \in a .. b, NEW e \in v .. b, w # "value"
        PROVE  f[<<"value", n, v, e>>] /\ Rest(t, f, w, n, e, b)
                 <=> g[<<"value", n, v, e>>] /\ Rest(t, g, w, n, e, b)
    <3>1. e \in a .. b /\ v <= e /\ a \in Nat /\ b \in Nat /\ a <= v /\ v \in Nat /\ e \in Nat /\ b <= b
      BY <1>1, <2>1
    <3>2. \A k \in e .. b : /\ k \in Nat /\ k <= b
                            /\ e < k => k \in a .. b /\ a < k /\ e < b
      BY <3>1
    <3>3. \A k \in e .. b : Token(t, ",", e, k) => f[<<w, n, k, b>>] = g[<<w, n, k, b>>]
      <4> SUFFICES ASSUME NEW k \in e .. b, Token(t, ",", e, k)
                   PROVE  f[<<w, n, k, b>>] = g[<<w, n, k, b>>]
        OBVIOUS
      <4>1. e < k
        BY <2>4, <3>1, <3>2
      <4>2. k \in 0 .. Len(t) /\ a < k /\ k <= b /\ a <= k
        BY <2>3, <3>2, <4>1
      <4>3. QED BY <2>1, <2>2, <3>1, <4>2
    <3>4. Rest(t, f, w, n, e, b) <=> Rest(t, g, w, n, e, b)
      BY <3>3, Zenon DEF Rest
    <3>5. Rest(t, f, w, n, e, b) => e < b
      <4>1. \A k \in e .. b : Token(t, ",", e, k) => e < b
        BY <2>4, <3>1, <3>2
      <4>2. Token(t, Closer[w], e, b) => e < b
        BY <2>4, <3>1
      <4>3. QED BY <4>1, <4>2, Zenon DEF Rest
    <3>6. e < b => f[<<"value", n, v, e>>] = g[<<"value", n, v, e>>]
      BY <2>1, <2>2, <2>3, <3>1
    <3>7. QED BY <3>4, <3>5, <3>6
  <2>6. ASSUME NEW kind \in {"array", "object"}, NEW k \in a .. b, n > 0, Token(t, Opener[kind], a, k)
        PROVE  f[<<kind, n - 1, k, b>>] = g[<<kind, n - 1, k, b>>]
    <3>1. n - 1 \in 0 .. NestingLimit /\ a < k /\ k <= b /\ k \in 0 .. Len(t)
      BY <1>1, <2>1, <2>3, <2>4, <2>6
    <3>2. QED BY <2>1, <2>2, <3>1
  <2>7. Phrase(t, f, w, n, a, b) <=> Phrase(t, g, w, n, a, b)
    BY <2>5, <2>6, Zenon DEF Phrase
  <2>8. QED BY <2>7 DEF w, n, a, b, Phrase
<1>7. Settles(S, BOOLEAN, Len(t), m, step)
  <2> HIDE DEF m, Says, S
  <2>1. QED BY <1>4, <1>5, <1>6 DEF Settles
<1>8. PICK f \in [S -> BOOLEAN] : step[f] = f
  <2> DEFINE A == BOOLEAN
             a == TRUE
  <2>1. Settles(S, A, Len(t), m, step) /\ a \in A
    BY <1>7
  <2> HIDE DEF m, step, S, A, a
  <2>2. \E f \in [S -> A] : step[f] = f
    BY <1>1, <2>1, RecursionSolves
  <2>3. QED BY <2>2 DEF A
<1>9. f = [p \in Stretches(t) |-> Phrase(t, f, p[1], p[2], p[3], p[4])]
  <2> HIDE DEF Says, S
  <2>1. f = [p \in S |-> Says(f, p)]
    BY <1>8
  <2>2. QED BY <2>1 DEF Says, S
<1>10. Grammar(t) = [p \in Stretches(t) |-> Phrase(t, Grammar(t), p[1], p[2], p[3], p[4])]
  BY <1>9, Zenon DEF Grammar
<1> DEFINE q == <<what, d, i, j>>
<1>11. q \in Stretches(t) /\ q[1] = what /\ q[2] = d /\ q[3] = i /\ q[4] = j
  BY DEF Stretches
<1>12. Grammar(t)[q] = Phrase(t, Grammar(t), q[1], q[2], q[3], q[4])
  BY <1>10, <1>11, Zenon
<1> HIDE DEF q
<1>13. Grammar(t)[q] = Phrase(t, Grammar(t), what, d, i, j)
  BY <1>11, <1>12
<1>14. QED BY <1>13 DEF q

-----------------------------------------------------------------------------
(* Tokens and the reading position *)

\* Behind the blanks there are no more.
LEMMA SkipSpacesTwice ==
  ASSUME text \in Seq(Cells), NEW o \in 0 .. Len(text), Cell(o) # "blank"
  PROVE  SkipSpaces(o) = o
<1> DEFINE r == SkipSpaces(o)
<1>1. r \in o .. Len(text) /\ \A i \in o .. r - 1 : Cell(i) = "blank"
  BY SkipsBlanks
<1> HIDE DEF r
<1>2. r = o
  BY <1>1
<1>3. QED BY <1>2 DEF r

\* The next token is at the offset behind the blanks.
LEMMA TokenIsNext ==
  ASSUME text \in Seq(Cells), NEW o \in 0 .. Len(text), NEW j \in 0 .. Len(text),
         NEW c \in Cells \ {"blank"}
  PROVE  Token(text, c, o, j) <=> Cell(SkipSpaces(o)) = c /\ j = SkipSpaces(o) + 1
<1> DEFINE r == SkipSpaces(o)
<1>1. /\ r \in o .. Len(text) /\ \A i \in o .. r - 1 : Cell(i) = "blank"
      /\ Cell(r) # "blank" /\ Len(text) \in Nat
  BY SkipsBlanks
<1>2. \A k \in 0 .. Len(text) - 1 : Cell(k) = text[k + 1]
  BY DEF Cell
<1> HIDE DEF r
<1>3. ASSUME Token(text, c, o, j) PROVE Cell(r) = c /\ j = r + 1
  <2>1. o < j /\ text[j] = c /\ \A k \in o + 1 .. j - 1 : text[k] = "blank"
    BY <1>3 DEF Token
  <2>2. Cell(j - 1) = c /\ c # "blank"
    BY <1>1, <1>2, <2>1
  <2>3. ~(r < j - 1)
    <3> SUFFICES ASSUME r < j - 1 PROVE FALSE
      OBVIOUS
    <3>1. r + 1 \in o + 1 .. j - 1 /\ r \in 0 .. Len(text) - 1
      BY <1>1
    <3>2. QED BY <1>1, <1>2, <2>1, <3>1
  <2>4. ~(r > j - 1)
    BY <1>1, <2>1, <2>2
  <2>5. j = r + 1
    BY <1>1, <2>1, <2>3, <2>4
  <2>6. r = j - 1
    BY <1>1, <2>5
  <2>7. QED BY <2>2, <2>5, <2>6
<1>4. ASSUME Cell(r) = c, j = r + 1 PROVE Token(text, c, o, j)
  <2>1. o < j /\ r \in 0 .. Len(text) - 1
    BY <1>1, <1>4
  <2>2. text[j] = c
    BY <1>2, <1>4, <2>1
  <2>3. ASSUME NEW k \in o + 1 .. j - 1 PROVE text[k] = "blank"
    <3>1. k - 1 \in o .. r - 1 /\ k - 1 \in 0 .. Len(text) - 1 /\ (k - 1) + 1 = k
      BY <1>1, <1>4
    <3>2. QED BY <1>1, <1>2, <3>1
  <2>4. QED BY <2>1, <2>2, <2>3 DEF Token
<1>5. QED BY <1>3, <1>4 DEF r

-----------------------------------------------------------------------------
(* The grammar at the reading position *)

Value(t, d, i, j) == Grammar(t)[<<"value", d, i, j>>]
Elements(t, kind, d, i, j) == Grammar(t)[<<kind, d, i, j>>]
More(t, kind, d, i, j) == Rest(t, Grammar(t), kind, d, i, j)

Levels == 0 .. NestingLimit
Offsets == 0 .. Len(text)

\* A phrase takes at least one cell.
LEMMA PhrasesAreLong ==
  ASSUME text \in Seq(Cells), NEW d \in Levels, NEW i \in Offsets, NEW j \in Offsets
  PROVE  /\ Value(text, d, i, j) => i < j
         /\ \A kind \in Kinds : Elements(text, kind, d, i, j) => i < j
         /\ \A kind \in Kinds : More(text, kind, d, i, j) => i < j
<1>1. \A c : \A a, b \in Offsets : Token(text, c, a, b) => a < b
  BY DEF Token
<1>2. Len(text) \in Nat
  OBVIOUS
<1>3. \A a, b \in Offsets : \A k \in a .. b : k \in Offsets /\ a <= k /\ k <= b
  BY <1>2 DEF Offsets
<1>4. ASSUME NEW a \in Offsets, NEW b \in Offsets, NEW kind \in Kinds, More(text, kind, d, a, b)
      PROVE  a < b
  <2>1. CASE Token(text, Closer[kind], a, b)
    BY <1>1, <2>1
  <2>2. CASE \E k \in a .. b : Token(text, ",", a, k)
    <3>1. PICK k \in a .. b : Token(text, ",", a, k)
      BY <2>2
    <3>2. a < k /\ k <= b /\ k \in Offsets
      BY <1>1, <1>3, <3>1
    <3>3. QED BY <1>2, <3>2 DEF Offsets
  <2>3. QED BY <1>4, <2>1, <2>2 DEF More, Rest
<1>5. ASSUME Value(text, d, i, j) PROVE i < j
  <2>1. Phrase(text, Grammar(text), "value", d, i, j)
    BY <1>5, GrammarUnfolds DEF Value, Levels, Offsets
  <2>2. \/ Token(text, "scalar", i, j) \/ Token(text, "string", i, j)
        \/ \E kind \in Kinds, k \in i .. j : Token(text, Opener[kind], i, k)
    BY <2>1, Zenon DEF Phrase, Kinds
  <2>3. ASSUME NEW kind \in Kinds, NEW k \in i .. j, Token(text, Opener[kind], i, k) PROVE i < j
    <3>1. i < k /\ k <= j /\ k \in Offsets
      BY <1>1, <1>3, <2>3
    <3>2. QED BY <1>2, <3>1 DEF Offsets
  <2>4. QED BY <1>1, <2>2, <2>3
<1>6. ASSUME NEW kind \in Kinds, Elements(text, kind, d, i, j) PROVE i < j
  <2>1. Phrase(text, Grammar(text), kind, d, i, j) /\ kind # "value"
    BY <1>6, GrammarUnfolds DEF Elements, Levels, Offsets, Kinds
  <2>2. PICK v \in i .. j : \E e \in v .. j : More(text, kind, d, e, j)
    BY <2>1, Zenon DEF Phrase, More
  <2>3. v \in Offsets /\ i <= v
    BY <1>3
  <2> PICK e \in v .. j : More(text, kind, d, e, j)
    BY <2>2
  <2>4. e \in Offsets /\ v <= e
    BY <1>3, <2>3
  <2>5. e < j
    BY <1>4, <2>4
  <2>6. QED BY <1>2, <2>3, <2>4, <2>5 DEF Offsets
<1>7. QED BY <1>4, <1>5, <1>6

\* A value is a scalar, a string or an opener and what follows it.
LEMMA ValueShape ==
  ASSUME text \in Seq(Cells), NEW d \in Levels, NEW i \in Offsets, NEW j \in Offsets, NEW r,
         r = SkipSpaces(i)
  PROVE  Value(text, d, i, j) <=>
           \/ Cell(r) \in {"scalar", "string"} /\ j = r + 1
           \/ \E kind \in Kinds :
                /\ d > 0 /\ Cell(r) = Opener[kind] /\ r + 1 \in Offsets
                /\ Token(text, Closer[kind], r + 1, j) \/ Elements(text, kind, d - 1, r + 1, j)
<1>1. Len(text) \in Nat /\ r \in i .. Len(text) /\ NestingLimit \in Nat
  BY SkipsBlanks, LimitAssumption DEF Offsets
<1>2. \A kind \in Kinds : Opener[kind] \in Cells \ {"blank"}
  BY BracketsAreTokens
<1>3. \A c \in Cells \ {"blank"} : \A k \in Offsets :
        Token(text, c, i, k) <=> Cell(r) = c /\ k = r + 1
  BY TokenIsNext DEF Offsets
<1>4. Value(text, d, i, j) <=> Phrase(text, Grammar(text), "value", d, i, j)
  BY GrammarUnfolds DEF Value, Levels, Offsets
<1>5. Phrase(text, Grammar(text), "value", d, i, j) <=>
        \/ Token(text, "scalar", i, j) \/ Token(text, "string", i, j)
        \/ d > 0 /\ \E kind \in Kinds, k \in i .. j :
             /\ Token(text, Opener[kind], i, k)
             /\ Token(text, Closer[kind], k, j) \/ Elements(text, kind, d - 1, k, j)
  BY Zenon DEF Phrase, Kinds, Elements
<1>6. /\ Token(text, "scalar", i, j) <=> Cell(r) = "scalar" /\ j = r + 1
      /\ Token(text, "string", i, j) <=> Cell(r) = "string" /\ j = r + 1
  BY <1>3 DEF Cells
<1>7. ASSUME NEW kind \in Kinds, d > 0
      PROVE  (\E k \in i .. j : /\ Token(text, Opener[kind], i, k)
                                /\ Token(text, Closer[kind], k, j) \/ Elements(text, kind, d - 1, k, j))
             <=> /\ Cell(r) = Opener[kind] /\ r + 1 \in Offsets
                 /\ Token(text, Closer[kind], r + 1, j) \/ Elements(text, kind, d - 1, r + 1, j)
  <2>1. \A k \in i .. j : k \in Offsets
    BY <1>1 DEF Offsets
  <2>2. \A k \in i .. j : Token(text, Opener[kind], i, k) <=> Cell(r) = Opener[kind] /\ k = r + 1
    BY <1>2, <1>3, <2>1
  <2>3. d - 1 \in Levels
    BY <1>1, <1>7 DEF Levels
  <2>4. ASSUME r + 1 \in Offsets, Token(text, Closer[kind], r + 1, j) \/ Elements(text, kind, d - 1, r + 1, j)
        PROVE  r + 1 \in i .. j
    <3>1. r + 1 < j
      BY <2>3, <2>4, PhrasesAreLong DEF Token
    <3>2. QED BY <1>1, <3>1 DEF Offsets
  <2>5. QED BY <2>1, <2>2, <2>4, Zenon
<1>8. QED BY <1>4, <1>5, <1>6, <1>7

\* What follows an element is the closer, or a comma and what follows it.
LEMMA MoreShape ==
  ASSUME text \in Seq(Cells), NEW kind \in Kinds, NEW d \in Levels, NEW i \in Offsets, NEW j \in Offsets
  PROVE  More(text, kind, d, i, j) <=>
           \/ Cell(SkipSpaces(i)) = Closer[kind] /\ j = SkipSpaces(i) + 1
           \/ /\ Cell(SkipSpaces(i)) = "," /\ SkipSpaces(i) + 1 \in Offsets
              /\ Elements(text, kind, d, SkipSpaces(i) + 1, j)
<1> DEFINE r == SkipSpaces(i)
<1>1. Len(text) \in Nat /\ r \in i .. Len(text)
  BY SkipsBlanks DEF Offsets
<1>2. Closer[kind] \in Cells \ {"blank"} /\ "," \in Cells \ {"blank"}
  BY BracketsAreTokens DEF Cells
<1>3. \A c \in Cells \ {"blank"} : \A k \in Offsets :
        Token(text, c, i, k) <=> Cell(r) = c /\ k = r + 1
  BY TokenIsNext DEF Offsets
<1>4. More(text, kind, d, i, j) <=>
        \/ Token(text, Closer[kind], i, j)
        \/ \E k \in i .. j : Token(text, ",", i, k) /\ Elements(text, kind, d, k, j)
  BY Zenon DEF More, Rest, Elements
<1>5. \A k \in i .. j : k \in Offsets
  BY <1>1 DEF Offsets
<1>6. r + 1 \in Offsets /\ Elements(text, kind, d, r + 1, j) => r + 1 \in i .. j
  <2>1. r + 1 \in Offsets /\ Elements(text, kind, d, r + 1, j) => r + 1 < j
    BY PhrasesAreLong
  <2>2. QED BY <1>1, <2>1 DEF Offsets
<1>7. QED BY <1>2, <1>3, <1>4, <1>5, <1>6, Zenon

\* What may follow an opener or a comma, as far as the end of the element.
Member(t, kind, d, i, e) == \E v \in 0 .. Len(t) : ValueAt(t, kind, i, v) /\ Value(t, d, v, e)

LEMMA NameShape ==
  ASSUME text \in Seq(Cells), NEW i \in Offsets, NEW v \in Offsets, NEW r, r = SkipSpaces(i)
  PROVE  ValueAt(text, "object", i, v) <=>
           /\ Cell(r) = "string" /\ r + 1 \in Offsets
           /\ Cell(SkipSpaces(r + 1)) = ":" /\ v = SkipSpaces(r + 1) + 1
<1>1. Len(text) \in Nat /\ r \in i .. Len(text) /\ {"string", ":"} \subseteq Cells \ {"blank"}
  <2>1. {"string", ":"} \subseteq Cells \ {"blank"}
    BY DEF Cells
  <2>2. QED BY <2>1, SkipsBlanks DEF Offsets
<1>2. \A n \in i .. v : n \in Offsets
  BY <1>1 DEF Offsets
<1>3. \A n \in Offsets : Token(text, "string", i, n) <=> Cell(r) = "string" /\ n = r + 1
  BY <1>1, TokenIsNext DEF Offsets
<1>4. \A n \in Offsets : Token(text, ":", n, v) <=> Cell(SkipSpaces(n)) = ":" /\ v = SkipSpaces(n) + 1
  BY <1>1, TokenIsNext DEF Offsets
<1>5. r + 1 \in Offsets /\ Token(text, ":", r + 1, v) => r + 1 \in i .. v
  BY <1>1 DEF Token, Offsets
<1>6. ValueAt(text, "object", i, v) <=>
        \E n \in i .. v : Token(text, "string", i, n) /\ Token(text, ":", n, v)
  BY DEF ValueAt
<1>7. ValueAt(text, "object", i, v) <=>
        r + 1 \in Offsets /\ Cell(r) = "string" /\ Token(text, ":", r + 1, v)
  BY <1>2, <1>3, <1>5, <1>6, Zenon
<1>8. r + 1 \in Offsets => (Token(text, ":", r + 1, v) <=>
        Cell(SkipSpaces(r + 1)) = ":" /\ v = SkipSpaces(r + 1) + 1)
  BY <1>4, Zenon
<1>9. QED BY <1>7, <1>8, Zenon

LEMMA ArrayShape ==
  ASSUME NEW d, NEW i \in Offsets, NEW e PROVE Member(text, "array", d, i, e) <=> Value(text, d, i, e)
<1>1. \A v : ValueAt(text, "array", i, v) <=> v = i
  BY DEF ValueAt
<1>2. QED BY <1>1, Zenon DEF Member, Offsets

\* Blanks before a value or an element are left out.
LEMMA BlanksBefore ==
  ASSUME text \in Seq(Cells), NEW d \in Levels, NEW i \in Offsets, NEW e \in Offsets, NEW r,
         r = SkipSpaces(i)
  PROVE  /\ Value(text, d, i, e) <=> Value(text, d, r, e)
         /\ \A kind \in Kinds : Member(text, kind, d, i, e) <=> Member(text, kind, d, r, e)
<1>1. r \in Offsets /\ Cell(r) # "blank" /\ Len(text) \in Nat
  BY SkipsBlanks DEF Offsets
<1>2. SkipSpaces(r) = r
  BY <1>1, SkipSpacesTwice DEF Offsets
<1>3. Value(text, d, i, e) <=> Value(text, d, r, e)
  BY <1>1, <1>2, ValueShape
<1>4. \A v \in Offsets : ValueAt(text, "object", i, v) <=> ValueAt(text, "object", r, v)
  BY <1>1, <1>2, NameShape
<1>5. Member(text, "array", d, i, e) <=> Member(text, "array", d, r, e)
  BY <1>1, <1>3, ArrayShape
<1>6. Member(text, "object", d, i, e) <=> Member(text, "object", d, r, e)
  BY <1>4, Zenon DEF Member, Offsets
<1>7. QED BY <1>3, <1>5, <1>6 DEF Kinds

\* An element and what follows it.
LEMMA ElementsShape ==
  ASSUME text \in Seq(Cells), NEW kind \in Kinds, NEW d \in Levels, NEW i \in Offsets, NEW j \in Offsets
  PROVE  Elements(text, kind, d, i, j) <=> \E e \in Offsets : Member(text, kind, d, i, e) /\ More(text, kind, d, e, j)
<1>1. Len(text) \in Nat /\ kind # "value" /\ kind \in {"array", "object"}
  BY DEF Kinds
<1>2. Elements(text, kind, d, i, j) <=> Phrase(text, Grammar(text), kind, d, i, j)
  BY GrammarUnfolds DEF Elements, Levels, Offsets, Kinds
<1>3. Phrase(text, Grammar(text), kind, d, i, j) <=>
        \E v \in i .. j : ValueAt(text, kind, i, v) /\ \E e \in v .. j : Value(text, d, v, e) /\ More(text, kind, d, e, j)
  BY <1>1, Zenon DEF Phrase, Value, More
<1>4. \A a, b \in Offsets : /\ Value(text, d, a, b) => a < b
                            /\ More(text, kind, d, a, b) => a < b
  BY PhrasesAreLong
<1>5. \A v \in Offsets : ValueAt(text, kind, i, v) => i <= v
  <2>1. \A c : \A a, b \in Nat : Token(text, c, a, b) => a < b
    BY DEF Token
  <2>2. ASSUME NEW v \in Offsets, NEW n \in i .. v PROVE n \in Nat /\ i <= v
    BY <1>1 DEF Offsets
  <2>3. i \in Nat /\ i <= i
    BY <1>1 DEF Offsets
  <2>4. QED BY <1>1, <2>2, <2>3, Zenon DEF ValueAt
<1>6. \A v \in i .. j : \A e \in v .. j : v \in Offsets /\ e \in Offsets
  BY <1>1 DEF Offsets
<1>7. \A v, e \in Offsets : i <= v /\ v < e /\ e < j => v \in i .. j /\ e \in v .. j
  BY <1>1 DEF Offsets
<1>8. ASSUME NEW v \in i .. j, NEW e \in v .. j, ValueAt(text, kind, i, v), Value(text, d, v, e), More(text, kind, d, e, j)
      PROVE  \E x \in Offsets : Member(text, kind, d, i, x) /\ More(text, kind, d, x, j)
  BY <1>6, <1>8, Zenon DEF Member, Offsets
<1>9. ASSUME NEW e \in Offsets, Member(text, kind, d, i, e), More(text, kind, d, e, j)
      PROVE  \E v \in i .. j : ValueAt(text, kind, i, v) /\ \E x \in v .. j : Value(text, d, v, x) /\ More(text, kind, d, x, j)
  <2>1. PICK v \in Offsets : ValueAt(text, kind, i, v) /\ Value(text, d, v, e)
    BY <1>9 DEF Member, Offsets
  <2>2. v \in i .. j /\ e \in v .. j
    BY <1>4, <1>5, <1>7, <1>9, <2>1
  <2>3. QED BY <1>9, <2>1, <2>2
<1>10. QED BY <1>2, <1>3, <1>8, <1>9, Zenon

\* What starts with a closer is no element.
LEMMA CloserIsNoElement ==
  ASSUME text \in Seq(Cells), NEW d \in Levels, NEW i \in Offsets, NEW e \in Offsets,
         Cell(SkipSpaces(i)) \in {"]", "}"}
  PROVE  \A kind \in Kinds : ~Member(text, kind, d, i, e)
<1>1. \A kind \in Kinds : Opener[kind] \in {"[", "{"}
  BY BracketsAreTokens
<1>2. ~Value(text, d, i, e)
  <2> DEFINE r == SkipSpaces(i)
  <2>1. Cell(r) \in {"]", "}"} /\ r = SkipSpaces(i)
    OBVIOUS
  <2> HIDE DEF r
  <2>2. QED BY <1>1, <2>1, ValueShape
<1>3. \A v \in Offsets : ~ValueAt(text, "object", i, v)
  BY NameShape
<1>4. ~Member(text, "array", d, i, e)
  BY <1>2, ArrayShape
<1>5. ~Member(text, "object", d, i, e)
  BY <1>3 DEF Member, Offsets
<1>6. QED BY <1>4, <1>5 DEF Kinds

-----------------------------------------------------------------------------
(* How the parser can go on *)

\* From offset o, where a value inside the k calls in progress has ended, there is a way
\* to the end of the text's value: offsets where the calls end, each in a reach of the one above.
Path(t, fs, k, o) ==
  \E ends \in [0 .. k -> 0 .. Len(t)] :
    /\ ends[k] = o
    /\ \A i \in 1 .. k : More(t, fs[i].kind, NestingLimit - i, ends[i], ends[i - 1])

\* What the parser still has to find from o on, by where it is.
Finishes(t, fs, o, a) ==
  LET k == Len(fs)
      Ends(e) == Path(t, fs, k, e)
  IN \/ a = "parsed"
     \/ a = "value" /\ \E e \in 0 .. Len(t) : Value(t, NestingLimit - k, o, e) /\ Ends(e)
     \/ a = "name" /\ \E e \in 0 .. Len(t) : Member(t, "object", NestingLimit - k, o, e) /\ Ends(e)
     \/ a = "element" /\ \E e \in 0 .. Len(t) : Member(t, fs[k].kind, NestingLimit - k, o + 1, e) /\ Ends(e)
     \/ a = "after" /\ Ends(o)
     \/ a = "close" /\ Path(t, fs, k - 1, o + 1)

\* As long as there is memory, the parser can go on exactly if the text starts with a value.
GrammarOK ==
  /\ at \in {"value", "name"} => Cell(offset) # "blank"
  /\ at = "name" => Top.kind = "object"
  /\ starved => at \in {"fail", "failed"}
  /\ ~starved /\ at # "start" => (StartsWithValue <=> Finishes(text, frames, offset, at))

LEMMA PathStart ==
  ASSUME NEW t, NEW fs, Len(t) \in Nat, NEW o \in 0 .. Len(t) PROVE Path(t, fs, 0, o)
<1> DEFINE ends == [n \in 0 .. 0 |-> o]
<1>1. ends \in [0 .. 0 -> 0 .. Len(t)] /\ ends[0] = o /\ 1 .. 0 = {}
  OBVIOUS
<1> HIDE DEF ends
<1>2. QED BY <1>1 DEF Path

\* The innermost call has to end first.
LEMMA PathStep ==
  ASSUME NEW t, NEW fs, Len(t) \in Nat, NEW k \in Nat \ {0}, NEW o \in 0 .. Len(t)
  PROVE  Path(t, fs, k, o) <=>
           \E e \in 0 .. Len(t) : More(t, fs[k].kind, NestingLimit - k, o, e) /\ Path(t, fs, k - 1, e)
<1> DEFINE P == 0 .. Len(t)
           Goes(i, x, y) == More(t, fs[i].kind, NestingLimit - i, x, y)
<1>1. ASSUME Path(t, fs, k, o) PROVE \E e \in P : Goes(k, o, e) /\ Path(t, fs, k - 1, e)
  <2>1. PICK ends \in [0 .. k -> P] : ends[k] = o /\ \A i \in 1 .. k : Goes(i, ends[i], ends[i - 1])
    BY <1>1 DEF Path
  <2> DEFINE rest == [i \in 0 .. k - 1 |-> ends[i]]
  <2>2. k - 1 \in 0 .. k /\ k \in 1 .. k /\ k - 1 \in 0 .. k - 1 /\ 0 .. k - 1 \subseteq 0 .. k
    OBVIOUS
  <2>3. ends[k - 1] \in P /\ Goes(k, o, ends[k - 1])
    <3> HIDE DEF P, Goes
    <3>1. QED BY <2>1, <2>2
  <2>4. rest \in [0 .. k - 1 -> P] /\ rest[k - 1] = ends[k - 1]
    <3> HIDE DEF P
    <3>1. QED BY <2>2
  <2>5. \A i \in 1 .. k - 1 : Goes(i, rest[i], rest[i - 1])
    <3> SUFFICES ASSUME NEW i \in 1 .. k - 1 PROVE Goes(i, rest[i], rest[i - 1])
      OBVIOUS
    <3>1. i \in 1 .. k /\ i \in 0 .. k - 1 /\ i - 1 \in 0 .. k - 1
      OBVIOUS
    <3>2. rest[i] = ends[i] /\ rest[i - 1] = ends[i - 1]
      BY <3>1
    <3> HIDE DEF Goes, rest
    <3>3. QED BY <2>1, <3>1, <3>2
  <2> HIDE DEF rest
  <2>6. Path(t, fs, k - 1, ends[k - 1])
    BY <2>4, <2>5, Zenon DEF Path
  <2>7. QED BY <2>3, <2>6
<1>2. ASSUME NEW e \in P, Goes(k, o, e), Path(t, fs, k - 1, e) PROVE Path(t, fs, k, o)
  <2>1. PICK rest \in [0 .. k - 1 -> P] :
          rest[k - 1] = e /\ \A i \in 1 .. k - 1 : Goes(i, rest[i], rest[i - 1])
    BY <1>2 DEF Path
  <2> DEFINE ends == [i \in 0 .. k |-> IF i = k THEN o ELSE rest[i]]
  <2>2. \A i \in 0 .. k : i # k => i \in 0 .. k - 1
    OBVIOUS
  <2>3. ends \in [0 .. k -> P]
    <3>1. o \in P
      OBVIOUS
    <3> HIDE DEF P
    <3>2. QED BY <2>2, <3>1
  <2>4. ends[k] = o
    OBVIOUS
  <2>5. \A i \in 1 .. k : Goes(i, ends[i], ends[i - 1])
    <3> SUFFICES ASSUME NEW i \in 1 .. k PROVE Goes(i, ends[i], ends[i - 1])
      OBVIOUS
    <3>1. i \in 0 .. k /\ i - 1 \in 0 .. k /\ i - 1 # k
      OBVIOUS
    <3>2. ends[i - 1] = rest[i - 1] /\ ends[i] = IF i = k THEN o ELSE rest[i]
      BY <3>1
    <3> HIDE DEF Goes, ends
    <3>3. CASE i = k
      BY <1>2, <2>1, <3>2, <3>3
    <3>4. CASE i # k
      <4>1. i \in 1 .. k - 1
        BY <3>4
      <4>2. QED BY <2>1, <3>2, <3>4, <4>1
    <3>5. QED BY <3>3, <3>4
  <2> HIDE DEF ends
  <2>6. QED BY <2>3, <2>4, <2>5, Zenon DEF Path
<1>3. QED BY <1>1, <1>2

\* What matters of the calls in progress is of which kind they are.
LEMMA PathOfKinds ==
  ASSUME NEW t, NEW fs, NEW gs, NEW k \in Nat, NEW o, \A i \in 1 .. k : fs[i].kind = gs[i].kind
  PROVE  Path(t, fs, k, o) <=> Path(t, gs, k, o)
BY Zenon DEF Path

\* Where the parser is, as long as it has not given up.
LEMMA ParserPlace ==
  ASSUME IInv, at \notin {"fail", "failed"}
  PROVE  /\ text \in Seq(Cells) /\ Len(text) \in Nat /\ offset \in Offsets /\ NestingLimit \in Nat
         /\ frames \in Seq(Frames) /\ Len(frames) \in 0 .. NestingLimit
         /\ depth = Len(frames) /\ NestingLimit - Len(frames) \in Levels
         /\ \A i \in 1 .. Len(frames) : frames[i].kind \in Kinds
<1>1. text \in Seq(Cells) /\ frames \in Seq(Frames) /\ offset \in Offsets /\ depth = Len(frames)
      /\ depth \in 0 .. NestingLimit /\ NestingLimit \in Nat
  BY LimitAssumption DEF IInv, SequencesOK, OffsetOK, DepthOK, Offsets
<1>2. ASSUME NEW i \in 1 .. Len(frames) PROVE frames[i].kind \in Kinds
  <2>1. frames[i] \in Frames
    BY <1>1
  <2>2. QED BY <2>1 DEF Frames
<1>3. QED BY <1>1, <1>2 DEF Levels

\* A step after which there is a way to go on exactly if there was one before.
LEMMA StillFinishes ==
  ASSUME GrammarOK, at # "start", text' = text, starved' = starved,
         at' \in {"value", "name"} => Cell(offset') # "blank",
         at' = "name" => Top'.kind = "object",
         at \in {"fail", "failed"} => at' \in {"fail", "failed"},
         Finishes(text, frames, offset, at) <=> Finishes(text, frames', offset', at')
  PROVE  GrammarOK'
<1>1. StartsWithValue' <=> StartsWithValue
  BY DEF StartsWithValue, Cell
<1>2. Finishes(text', frames', offset', at') <=> Finishes(text, frames', offset', at')
  OBVIOUS
<1>3. Cell(offset)' = Cell(offset')
  BY DEF Cell
<1>4. ~starved' => (StartsWithValue' <=> Finishes(text', frames', offset', at'))
  BY <1>1, <1>2 DEF GrammarOK
<1>5. starved' => at' \in {"fail", "failed"}
  BY DEF GrammarOK
<1>6. QED BY <1>3, <1>4, <1>5 DEF GrammarOK

LEMMA FinishesNot ==
  ASSUME NEW t, NEW fs, NEW o, NEW a \in {"fail", "failed"} PROVE ~Finishes(t, fs, o, a)
BY DEF Finishes

LEMMA OutOfMemoryAccepts ==
  ASSUME OutOfMemory PROVE GrammarOK'
<1>1. starved' = TRUE /\ at' \in {"failed", "fail"}
  BY DEF OutOfMemory
<1>2. QED BY <1>1 DEF GrammarOK

LEMMA StartAccepts ==
  ASSUME IInv, GrammarOK, Start PROVE GrammarOK'
<1> DEFINE first == IF Cell(0) = "bom" THEN 1 ELSE 0
           skipped == IF Cell(0) = "bom" /\ Cell(1) # NUL THEN 1 ELSE 0
           o == SkipSpaces(skipped)
<1>1. /\ text' = text /\ frames' = <<>> /\ frames = <<>> /\ at' = "value" /\ offset' = o /\ starved' = starved
  BY DEF Start, IInv, LabelsOK
<1>2. at = "start"
  BY DEF Start
<1>3. /\ text \in Seq(Cells) /\ Len(text) \in Nat /\ NestingLimit \in Levels
  BY <1>2, ParserPlace DEF Levels
<1>4. first \in Offsets /\ skipped \in Offsets
  BY <1>3, CellOfText DEF Offsets, NUL, Cell
<1>5. o \in Offsets /\ Cell(o) # "blank"
  <2> HIDE DEF skipped
  <2>1. QED BY <1>3, <1>4, SkipsBlanks DEF Offsets
<1>6. \A e \in Offsets : Value(text, NestingLimit, first, e) <=> Value(text, NestingLimit, o, e)
  <2>1. CASE first = skipped
    <3> HIDE DEF first, skipped
    <3>1. QED BY <1>3, <1>4, <2>1, BlanksBefore
  <2>2. CASE first # skipped
    <3>1. Cell(0) = "bom" /\ Cell(1) = NUL /\ first = 1 /\ skipped = 0
      BY <2>2
    <3>2. Cell(1) # "blank" /\ Cell(0) # "blank"
      BY <3>1 DEF NUL
    <3>3. SkipSpaces(0) = 0 /\ SkipSpaces(1) = 1
      BY <1>3, <1>4, <3>1, <3>2, SkipSpacesTwice DEF Offsets
    <3>4. o = 0
      BY <3>1, <3>3
    <3>5. \A c \in {"bom", NUL} : c \notin {"scalar", "string", "[", "{"}
      BY DEF NUL
    <3>6. 0 \in Offsets /\ 1 \in Offsets
      BY <1>3, <1>4, <3>1 DEF Offsets
    <3>7. ASSUME NEW x \in {0, 1}, NEW e \in Offsets PROVE ~Value(text, NestingLimit, x, e)
      <4>1. x \in Offsets /\ x = SkipSpaces(x) /\ Cell(x) \notin {"scalar", "string", "[", "{"}
        BY <3>1, <3>3, <3>5, <3>6, <3>7
      <4>2. \A kind \in Kinds : Cell(x) # Opener[kind]
        BY <4>1, BracketsAreTokens
      <4>3. Cell(x) \notin {"scalar", "string"}
        BY <4>1
      <4>4. Value(text, NestingLimit, x, e) <=>
              \/ Cell(x) \in {"scalar", "string"} /\ e = x + 1
              \/ \E kind \in Kinds :
                   /\ NestingLimit > 0 /\ Cell(x) = Opener[kind] /\ x + 1 \in Offsets
                   /\ \/ Token(text, Closer[kind], x + 1, e)
                      \/ Elements(text, kind, NestingLimit - 1, x + 1, e)
        BY <1>3, <4>1, ValueShape
      <4>5. QED BY <4>2, <4>3, <4>4
    <3>8. first \in {0, 1} /\ o \in {0, 1}
      BY <3>1, <3>4
    <3> HIDE DEF first, o
    <3>9. QED BY <3>7, <3>8
  <2>3. QED BY <2>1, <2>2
<1> HIDE DEF o, first, skipped
<1>7. StartsWithValue <=> \E e \in Offsets : Value(text, NestingLimit, o, e)
  BY <1>6, Zenon DEF StartsWithValue, Value, Offsets, first
<1>8. \A e \in Offsets : Path(text, <<>>, 0, e)
  BY <1>3, PathStart DEF Offsets
<1>9. Finishes(text, <<>>, o, "value") <=> \E e \in Offsets : Value(text, NestingLimit, o, e)
  <2>1. Len(<<>>) = 0 /\ NestingLimit - 0 = NestingLimit
    BY LimitAssumption
  <2>2. Finishes(text, <<>>, o, "value") <=>
          \E e \in Offsets : Value(text, NestingLimit - Len(<<>>), o, e) /\ Path(text, <<>>, Len(<<>>), e)
    BY DEF Finishes, Offsets
  <2>3. QED BY <1>8, <2>1, <2>2
<1>10. StartsWithValue' <=> StartsWithValue
  BY <1>1 DEF StartsWithValue, Cell
<1>11. Cell(offset)' = Cell(o)
  BY <1>1 DEF Cell
<1>12. StartsWithValue' <=> Finishes(text', frames', offset', at')
  BY <1>1, <1>7, <1>9, <1>10
<1>13. ~starved'
  BY <1>1, <1>2 DEF GrammarOK
<1>14. QED BY <1>1, <1>5, <1>11, <1>12, <1>13 DEF GrammarOK

LEMMA ValueAccepts ==
  ASSUME IInv, GrammarOK, ParseScalar \/ ParseString \/ NoValue PROVE GrammarOK'
<1> DEFINE d == NestingLimit - Len(frames)
           k == Len(frames)
<1>1. /\ at = "value" /\ text' = text /\ frames' = frames /\ starved' = starved
      /\ \/ Cell(offset) \in {"scalar", "string"} /\ offset' = offset + 1 /\ at' = "after"
         \/ Cell(offset) \notin {"scalar", "string", "[", "{"} /\ at' = "fail"
  BY DEF ParseScalar, ParseString, NoValue
<1>2. /\ text \in Seq(Cells) /\ Len(text) \in Nat /\ offset \in Offsets /\ d \in Levels
  BY <1>1, ParserPlace
<1>3. offset = SkipSpaces(offset) /\ Cell(offset) # "blank"
  BY <1>1, <1>2, SkipSpacesTwice DEF GrammarOK, Offsets
<1> HIDE DEF d
<1>4. \A e \in Offsets : Value(text, d, offset, e) <=>
        \/ Cell(offset) \in {"scalar", "string"} /\ e = offset + 1
        \/ \E kind \in Kinds :
             /\ d > 0 /\ Cell(offset) = Opener[kind] /\ offset + 1 \in Offsets
             /\ Token(text, Closer[kind], offset + 1, e) \/ Elements(text, kind, d - 1, offset + 1, e)
  BY <1>2, <1>3, ValueShape
<1>5. \A kind \in Kinds : Opener[kind] \in {"[", "{"}
  BY BracketsAreTokens
<1>6. Finishes(text, frames, offset, "value") <=>
        \E e \in Offsets : Value(text, d, offset, e) /\ Path(text, frames, k, e)
  BY DEF Finishes, Offsets, d
<1>7. CASE Cell(offset) \in {"scalar", "string"} /\ offset' = offset + 1 /\ at' = "after"
  <2>1. \A e \in Offsets : Value(text, d, offset, e) <=> e = offset + 1
    BY <1>4, <1>5, <1>7
  <2>2. offset + 1 \in Offsets
    BY <1>2, <1>7, CellOfText DEF Offsets, NUL
  <2>3. Finishes(text, frames, offset, "value") <=> Path(text, frames, k, offset + 1)
    BY <1>6, <2>1, <2>2
  <2>4. Finishes(text, frames, offset + 1, "after") <=> Path(text, frames, k, offset + 1)
    BY DEF Finishes
  <2>5. QED BY <1>1, <1>7, <2>3, <2>4, StillFinishes
<1>8. CASE Cell(offset) \notin {"scalar", "string", "[", "{"} /\ at' = "fail"
  <2>1. \A e \in Offsets : ~Value(text, d, offset, e)
    BY <1>4, <1>5, <1>8
  <2>2. ~Finishes(text, frames, offset, "value")
    BY <1>6, <2>1
  <2>3. ~Finishes(text, frames', offset', at')
    BY <1>8, FinishesNot
  <2>4. QED BY <1>1, <1>8, <2>2, <2>3, StillFinishes
<1>9. QED BY <1>1, <1>7, <1>8

LEMMA ElementAccepts ==
  ASSUME IInv, GrammarOK, Element PROVE GrammarOK'
<1> DEFINE k == Len(frames)
           d == NestingLimit - k
           kind == frames[k].kind
           n == Len(nodes) + 1
<1>1. /\ at = "element" /\ text' = text /\ starved' = starved /\ offset' = SkipSpaces(offset + 1)
      /\ at' = IF Top.kind = "object" THEN "name" ELSE "value"
      /\ frames' = [frames EXCEPT ![k].head = IF @ = Null THEN n ELSE @, ![k].last = n]
  BY DEF Element
<1>2. /\ text \in Seq(Cells) /\ Len(text) \in Nat /\ offset \in Offsets /\ d \in Levels
      /\ frames \in Seq(Frames) /\ k \in 0 .. NestingLimit /\ NestingLimit \in Nat
      /\ \A i \in 1 .. k : frames[i].kind \in Kinds
  BY <1>1, ParserPlace
<1>3. k \in 1 .. k /\ offset + 1 \in Offsets
  BY <1>1, <1>2 DEF IInv, LabelsOK, OffsetOK, Offsets
<1>4. kind \in Kinds /\ Top.kind = kind
  BY <1>2, <1>3 DEF Top
<1>5. offset' \in Offsets /\ Cell(offset') # "blank"
  BY <1>1, <1>2, <1>3, SkipsBlanks DEF Offsets
<1>6. Len(frames') = k /\ \A i \in 1 .. k : frames'[i].kind = frames[i].kind
  <2>1. ASSUME NEW i \in 1 .. k PROVE frames'[i].kind = frames[i].kind
    <3>1. frames[i] \in Frames
      BY <1>2
    <3>2. QED BY <1>1, <1>2, <3>1 DEF Frames
  <2>2. QED BY <1>1, <1>2, <2>1
<1>7. Top'.kind = kind
  BY <1>3, <1>6 DEF Top
<1> HIDE DEF d, kind
<1>8. \A e \in Offsets : Path(text, frames', k, e) <=> Path(text, frames, k, e)
  BY <1>2, <1>6, PathOfKinds
<1>9. \A e \in Offsets : Member(text, kind, d, offset + 1, e) <=> Member(text, kind, d, offset', e)
  BY <1>1, <1>2, <1>3, <1>4, BlanksBefore
<1>10. Finishes(text, frames, offset, "element") <=>
         \E e \in Offsets : Member(text, kind, d, offset', e) /\ Path(text, frames', k, e)
  <2>1. Finishes(text, frames, offset, "element") <=>
          \E e \in Offsets : Member(text, kind, d, offset + 1, e) /\ Path(text, frames, k, e)
    BY DEF Finishes, Offsets, d, kind
  <2>2. QED BY <1>8, <1>9, <2>1
<1>11. CASE kind = "object"
  <2>1. Finishes(text, frames', offset', "name") <=>
          \E e \in Offsets : Member(text, kind, d, offset', e) /\ Path(text, frames', k, e)
    BY <1>6, <1>11 DEF Finishes, Offsets, d
  <2>2. at' = "name"
    BY <1>1, <1>4, <1>11
  <2>3. QED BY <1>1, <1>5, <1>7, <1>10, <1>11, <2>1, <2>2, StillFinishes
<1>12. CASE kind = "array"
  <2>1. Finishes(text, frames', offset', "value") <=>
          \E e \in Offsets : Value(text, d, offset', e) /\ Path(text, frames', k, e)
    BY <1>6 DEF Finishes, Offsets, d
  <2>2. \A e \in Offsets : Member(text, kind, d, offset', e) <=> Value(text, d, offset', e)
    BY <1>5, <1>12, ArrayShape
  <2>3. at' = "value"
    BY <1>1, <1>4, <1>12
  <2>4. QED BY <1>1, <1>5, <1>10, <2>1, <2>2, <2>3, StillFinishes
<1>13. QED BY <1>4, <1>11, <1>12 DEF Kinds

LEMMA NameAccepts ==
  ASSUME IInv, GrammarOK, Name \/ NoName PROVE GrammarOK'
<1> DEFINE k == Len(frames)
           d == NestingLimit - k
           o == SkipSpaces(offset + 1)
<1>1. /\ at = "name" /\ text' = text /\ frames' = frames /\ starved' = starved
      /\ \/ Cell(offset) = "string" /\ Cell(o) = ":" /\ offset' = SkipSpaces(o + 1) /\ at' = "value"
         \/ Cell(offset) = "string" /\ Cell(o) # ":" /\ at' = "fail"
         \/ Cell(offset) # "string" /\ at' = "fail"
  BY DEF Name, NoName
<1>2. /\ text \in Seq(Cells) /\ Len(text) \in Nat /\ offset \in Offsets /\ d \in Levels
  BY <1>1, ParserPlace
<1>3. offset = SkipSpaces(offset)
  BY <1>1, <1>2, SkipSpacesTwice DEF GrammarOK, Offsets
<1>4. \A v \in Offsets : ValueAt(text, "object", offset, v) <=>
        /\ Cell(offset) = "string" /\ offset + 1 \in Offsets
        /\ Cell(o) = ":" /\ v = o + 1
  BY <1>2, <1>3, NameShape
<1>5. Cell(offset) = "string" => offset + 1 \in Offsets
  BY <1>2, CellOfText DEF Offsets, NUL
<1>6. offset + 1 \in Offsets => o \in Offsets
  BY <1>2, SkipsBlanks DEF Offsets
<1> HIDE DEF d, o
<1>7. offset + 1 \in Offsets /\ Cell(o) = ":" => o + 1 \in Offsets
  BY <1>2, <1>6, CellOfText DEF Offsets, NUL
<1>8. Finishes(text, frames, offset, "name") <=>
        \E e \in Offsets : Member(text, "object", d, offset, e) /\ Path(text, frames, k, e)
  BY DEF Finishes, Offsets, d
<1>9. CASE Cell(offset) = "string" /\ Cell(o) = ":" /\ offset' = SkipSpaces(o + 1) /\ at' = "value"
  <2>1. o + 1 \in Offsets
    BY <1>5, <1>7, <1>9
  <2>2. \A e \in Offsets : Member(text, "object", d, offset, e) <=> Value(text, d, o + 1, e)
    <3>1. \A v \in Offsets : ValueAt(text, "object", offset, v) <=> v = o + 1
      BY <1>4, <1>5, <1>9
    <3>2. QED BY <2>1, <3>1, Zenon DEF Member, Offsets
  <2>3. \A e \in Offsets : Value(text, d, o + 1, e) <=> Value(text, d, offset', e)
    BY <1>2, <1>9, <2>1, BlanksBefore
  <2>4. Finishes(text, frames', offset', "value") <=>
          \E e \in Offsets : Value(text, d, offset', e) /\ Path(text, frames, k, e)
    BY <1>1 DEF Finishes, Offsets, d
  <2>5. Cell(offset') # "blank"
    BY <1>2, <1>9, <2>1, SkipsBlanks DEF Offsets
  <2>6. Finishes(text, frames, offset, "name") <=> Finishes(text, frames', offset', "value")
    BY <1>8, <2>2, <2>3, <2>4
  <2>7. QED BY <1>1, <1>9, <2>5, <2>6, StillFinishes
<1>10. CASE (Cell(offset) # "string" \/ Cell(o) # ":") /\ at' = "fail"
  <2>1. \A v \in Offsets : ~ValueAt(text, "object", offset, v)
    BY <1>4, <1>10
  <2>2. ~Finishes(text, frames, offset, "name")
    BY <1>8, <2>1 DEF Member, Offsets
  <2>3. ~Finishes(text, frames', offset', at')
    BY <1>10, FinishesNot
  <2>4. QED BY <1>1, <1>10, <2>2, <2>3, StillFinishes
<1>11. QED BY <1>1, <1>9, <1>10

LEMMA CloseAccepts ==
  ASSUME IInv, GrammarOK, Close \/ Fail PROVE GrammarOK'
<1>1. CASE Close
  <2>1. /\ at = "close" /\ at' = "after" /\ text' = text /\ starved' = starved
        /\ frames' = Pop /\ offset' = offset + 1
    BY <1>1 DEF Close
  <2>2. frames \in Seq(Frames) /\ frames # <<>> /\ Len(frames) \in Nat
    BY <2>1 DEF IInv, SequencesOK, LabelsOK
  <2>3. /\ Len(frames') = Len(frames) - 1 /\ Len(frames) - 1 \in Nat
        /\ \A i \in 1 .. Len(frames) - 1 : frames'[i].kind = frames[i].kind
    BY <2>1, <2>2, PopFacts
  <2>4. Path(text, frames, Len(frames) - 1, offset + 1) <=> Path(text, frames', Len(frames) - 1, offset + 1)
    BY <2>3, PathOfKinds
  <2>5. Finishes(text, frames, offset, "close") <=> Path(text, frames, Len(frames) - 1, offset + 1)
    BY DEF Finishes
  <2>6. Finishes(text, frames', offset', "after") <=> Path(text, frames', Len(frames) - 1, offset + 1)
    BY <2>1, <2>3 DEF Finishes
  <2>7. QED BY <2>1, <2>4, <2>5, <2>6, StillFinishes
<1>2. CASE Fail
  <2>1. at = "fail" /\ at' \in {"fail", "failed"} /\ text' = text /\ starved' = starved
    BY <1>2 DEF Fail
  <2>2. ~Finishes(text, frames, offset, at) /\ ~Finishes(text, frames', offset', at')
    BY <2>1, FinishesNot
  <2>3. QED BY <2>1, <2>2, StillFinishes
<1>3. QED BY <1>1, <1>2

LEMMA AfterAccepts ==
  ASSUME IInv, GrammarOK, After PROVE GrammarOK'
<1> DEFINE k == Len(frames)
           d == NestingLimit - k
           kind == frames[k].kind
           o == SkipSpaces(offset)
<1>1. /\ at = "after" /\ text' = text /\ frames' = frames /\ starved' = starved
      /\ IF frames = <<>> THEN at' = "parsed"
         ELSE /\ offset' = o
              /\ at' = IF Cell(o) = "," THEN "element"
                       ELSE IF Cell(o) = Closer[Top.kind] THEN "close" ELSE "fail"
  BY DEF After
<1>2. /\ text \in Seq(Cells) /\ Len(text) \in Nat /\ offset \in Offsets /\ d \in Levels
      /\ frames \in Seq(Frames) /\ k \in 0 .. NestingLimit /\ NestingLimit \in Nat
      /\ \A i \in 1 .. k : frames[i].kind \in Kinds
  BY <1>1, ParserPlace
<1>3. CASE frames = <<>>
  <2>1. k = 0 /\ at' = "parsed"
    BY <1>1, <1>3
  <2>2. Path(text, frames, k, offset)
    BY <1>2, <2>1, PathStart DEF Offsets
  <2>3. Finishes(text, frames, offset, "after") /\ Finishes(text, frames', offset', "parsed")
    BY <2>2 DEF Finishes
  <2>4. QED BY <1>1, <2>1, <2>3, StillFinishes
<1>4. CASE frames # <<>>
  <2>1. k \in Nat \ {0} /\ k \in 1 .. k
    BY <1>2, <1>4
  <2>2. kind \in Kinds /\ Top.kind = kind
    BY <1>2, <2>1 DEF Top
  <2>3. o \in Offsets /\ o = SkipSpaces(offset)
    BY <1>2, SkipsBlanks DEF Offsets
  <2>4. /\ offset' = o
        /\ at' = IF Cell(o) = "," THEN "element"
                 ELSE IF Cell(o) = Closer[kind] THEN "close" ELSE "fail"
    BY <1>1, <1>4, <2>2
  <2> HIDE DEF o, kind, d
  <2>5. Path(text, frames, k, offset) <=>
          \E e \in Offsets : More(text, kind, d, offset, e) /\ Path(text, frames, k - 1, e)
    BY <1>2, <2>1, PathStep, Zenon DEF Offsets, kind, d
  <2>6. \A e \in Offsets : More(text, kind, d, offset, e) <=>
          \/ Cell(o) = Closer[kind] /\ e = o + 1
          \/ Cell(o) = "," /\ o + 1 \in Offsets /\ Elements(text, kind, d, o + 1, e)
    <3> SUFFICES ASSUME NEW e \in Offsets
                 PROVE  More(text, kind, d, offset, e) <=>
                          \/ Cell(o) = Closer[kind] /\ e = o + 1
                          \/ Cell(o) = "," /\ o + 1 \in Offsets /\ Elements(text, kind, d, o + 1, e)
      OBVIOUS
    <3>1. text \in Seq(Cells) /\ kind \in Kinds /\ d \in Levels /\ offset \in Offsets
      BY <1>2, <2>2 DEF Kinds
    <3>2. QED BY <3>1, MoreShape DEF o
  <2>7. Closer[kind] \in {"]", "}"}
    BY <2>2, BracketsAreTokens
  <2>8. Finishes(text, frames, offset, "after") <=> Path(text, frames, k, offset)
    BY DEF Finishes
  <2>9. Cell(o) \in {",", Closer[kind]} => o + 1 \in Offsets
    <3>1. Cell(o) \in {",", Closer[kind]} => Cell(o) # NUL
      BY <2>7 DEF NUL
    <3>2. o \in Nat /\ o < Len(text) => o + 1 \in Offsets
      BY <1>2 DEF Offsets
    <3>3. o \in Nat
      BY <1>2, <2>3 DEF Offsets
    <3>4. QED BY <1>2, <3>1, <3>2, <3>3, CellOfText
  <2>10. CASE Cell(o) = ","
    <3>1. \A e \in Offsets : More(text, kind, d, offset, e) <=> Elements(text, kind, d, o + 1, e)
      BY <2>6, <2>7, <2>9, <2>10
    <3>2. \A e \in Offsets : Elements(text, kind, d, o + 1, e) <=>
            \E x \in Offsets : Member(text, kind, d, o + 1, x) /\ More(text, kind, d, x, e)
      BY <1>2, <2>2, <2>9, <2>10, ElementsShape
    <3>3. \A x \in Offsets : Path(text, frames, k, x) <=>
            \E e \in Offsets : More(text, kind, d, x, e) /\ Path(text, frames, k - 1, e)
      BY <1>2, <2>1, PathStep, Zenon DEF Offsets, kind, d
    <3>4. Finishes(text, frames', o, "element") <=>
            \E x \in Offsets : Member(text, kind, d, o + 1, x) /\ Path(text, frames, k, x)
      BY <1>1 DEF Finishes, Offsets, kind, d
    <3>5. Path(text, frames, k, offset) <=> Finishes(text, frames', o, "element")
      BY <2>5, <3>1, <3>2, <3>3, <3>4, Zenon
    <3>6. QED BY <1>1, <2>4, <2>8, <2>10, <3>5, StillFinishes
  <2>11. CASE Cell(o) = Closer[kind]
    <3>1. \A e \in Offsets : More(text, kind, d, offset, e) <=> e = o + 1
      BY <2>6, <2>7, <2>11
    <3>2. Path(text, frames, k, offset) <=> Path(text, frames, k - 1, o + 1)
      BY <2>5, <2>9, <2>11, <3>1
    <3>3. Finishes(text, frames', o, "close") <=> Path(text, frames, k - 1, o + 1)
      BY <1>1 DEF Finishes
    <3>4. at' = "close"
      BY <2>4, <2>7, <2>11
    <3>5. QED BY <1>1, <2>4, <2>8, <3>2, <3>3, <3>4, StillFinishes
  <2>12. CASE Cell(o) \notin {",", Closer[kind]}
    <3>1. \A e \in Offsets : ~More(text, kind, d, offset, e)
      BY <2>6, <2>12
    <3>2. ~Finishes(text, frames, offset, "after")
      BY <2>5, <2>8, <3>1
    <3>3. at' = "fail"
      BY <2>4, <2>12
    <3>4. ~Finishes(text, frames', offset', at')
      BY <3>3, FinishesNot
    <3>5. QED BY <1>1, <3>2, <3>3, <3>4, StillFinishes
  <2>13. QED BY <2>10, <2>11, <2>12
<1>5. QED BY <1>3, <1>4

LEMMA OpenAccepts ==
  ASSUME IInv, GrammarOK, NEW kind \in Kinds, Open(kind) PROVE GrammarOK'
<1> DEFINE k == Len(frames)
           d == NestingLimit - k
           o == SkipSpaces(offset + 1)
           frame == [kind |-> kind, item |-> Current, head |-> Null, last |-> Null]
<1>1. /\ at = "value" /\ text' = text /\ starved' = starved /\ Cell(offset) = Opener[kind]
      /\ \/ depth >= NestingLimit /\ at' = "fail"
         \/ /\ depth < NestingLimit /\ frames' = Append(frames, frame)
            /\ \/ Cell(o) = Closer[kind] /\ at' = "close" /\ offset' = o
               \/ Cell(o) # Closer[kind] /\ at' = "element" /\ offset' = o - 1
  <2>1. depth \in Nat /\ NestingLimit \in Nat
    BY LimitAssumption DEF IInv, DepthOK
  <2>2. QED BY <2>1 DEF Open
<1>2. /\ text \in Seq(Cells) /\ Len(text) \in Nat /\ offset \in Offsets /\ d \in Levels
      /\ frames \in Seq(Frames) /\ k \in 0 .. NestingLimit /\ NestingLimit \in Nat /\ depth = k
  BY <1>1, ParserPlace
<1>3. offset = SkipSpaces(offset)
  BY <1>1, <1>2, SkipSpacesTwice DEF GrammarOK, Offsets
<1>4. Opener[kind] \in {"[", "{"} /\ Closer[kind] \in {"]", "}"} /\ Closer[kind] \in Cells \ {"blank"}
  BY BracketsAreTokens
<1>5. offset + 1 \in Offsets
  <2>1. Cell(offset) # NUL
    BY <1>1, <1>4 DEF NUL
  <2>2. QED BY <1>2, <2>1, CellOfText DEF Offsets
<1>6. o \in offset + 1 .. Len(text) /\ o \in Offsets
  BY <1>2, <1>5, SkipsBlanks DEF Offsets
<1>7. \A other \in Kinds : Opener[other] = Opener[kind] => other = kind
  BY Brackets DEF Kinds
<1>8. Finishes(text, frames, offset, "value") <=>
        \E e \in Offsets : Value(text, d, offset, e) /\ Path(text, frames, k, e)
  BY DEF Finishes, Offsets
<1>9. \A e \in Offsets : Value(text, d, offset, e) <=>
        /\ d > 0
        /\ Token(text, Closer[kind], offset + 1, e) \/ Elements(text, kind, d - 1, offset + 1, e)
  <2> HIDE DEF d
  <2> SUFFICES ASSUME NEW e \in Offsets
               PROVE  Value(text, d, offset, e) <=>
                        /\ d > 0
                        /\ \/ Token(text, Closer[kind], offset + 1, e)
                           \/ Elements(text, kind, d - 1, offset + 1, e)
    OBVIOUS
  <2>1. Value(text, d, offset, e) <=>
          \/ Cell(offset) \in {"scalar", "string"} /\ e = offset + 1
          \/ \E other \in Kinds :
               /\ d > 0 /\ Cell(offset) = Opener[other] /\ offset + 1 \in Offsets
               /\ \/ Token(text, Closer[other], offset + 1, e)
                  \/ Elements(text, other, d - 1, offset + 1, e)
    BY <1>2, <1>3, ValueShape
  <2>2. Cell(offset) \notin {"scalar", "string"}
    BY <1>1, <1>4
  <2>3. QED BY <1>1, <1>5, <1>7, <2>1, <2>2
<1>10. CASE depth >= NestingLimit /\ at' = "fail"
  <2>1. ~(d > 0)
    BY <1>2, <1>10
  <2>2. ~Finishes(text, frames, offset, "value")
    BY <1>8, <1>9, <2>1
  <2>3. ~Finishes(text, frames', offset', at')
    BY <1>10, FinishesNot
  <2>4. QED BY <1>1, <1>10, <2>2, <2>3, StillFinishes
<1>11. ASSUME depth < NestingLimit, frames' = Append(frames, frame),
              \/ Cell(o) = Closer[kind] /\ at' = "close" /\ offset' = o
              \/ Cell(o) # Closer[kind] /\ at' = "element" /\ offset' = o - 1
       PROVE  GrammarOK'
  <2>1. d > 0 /\ d - 1 \in Levels /\ NestingLimit - (k + 1) = d - 1 /\ k \in Nat
    BY <1>2, <1>11 DEF Levels
  <2>2. /\ Len(frames') = k + 1 /\ frames'[k + 1].kind = kind
        /\ \A i \in 1 .. k : frames'[i].kind = frames[i].kind
    <3>1. Len(frames') = k + 1 /\ frames'[k + 1] = frame /\ \A i \in 1 .. k : frames'[i] = frames[i]
      <4> HIDE DEF frame
      <4>1. QED BY <1>2, <1>11
    <3>2. frame.kind = kind
      OBVIOUS
    <3> HIDE DEF frame
    <3>3. QED BY <3>1, <3>2
  <2> HIDE DEF d, o, frame
  <2>3. \A e \in Offsets : Token(text, Closer[kind], offset + 1, e) <=> Cell(o) = Closer[kind] /\ e = o + 1
    BY <1>2, <1>4, <1>5, TokenIsNext DEF Offsets, o
  <2>4. \A e \in Offsets : Elements(text, kind, d - 1, offset + 1, e) <=>
          \E x \in Offsets : Member(text, kind, d - 1, offset + 1, x) /\ More(text, kind, d - 1, x, e)
    BY <1>2, <1>5, <2>1, ElementsShape
  <2>5. \A e \in Offsets : Path(text, frames', k, e) <=> Path(text, frames, k, e)
    BY <2>1, <2>2, PathOfKinds
  <2>6. CASE Cell(o) = Closer[kind]
    <3>1. at' = "close" /\ offset' = o
      BY <1>11, <2>6
    <3>2. Cell(SkipSpaces(offset + 1)) \in {"]", "}"}
      BY <1>4, <2>6 DEF o
    <3>3. \A x \in Offsets : ~Member(text, kind, d - 1, offset + 1, x)
      BY <1>2, <1>5, <2>1, <3>2, CloserIsNoElement
    <3>4. \A e \in Offsets : Value(text, d, offset, e) <=> e = o + 1
      BY <1>9, <2>1, <2>3, <2>4, <2>6, <3>3
    <3>5. o + 1 \in Offsets
      <4>1. Cell(o) # NUL
        BY <1>4, <2>6 DEF NUL
      <4>2. QED BY <1>2, <1>6, <4>1, CellOfText DEF Offsets
    <3>6. Finishes(text, frames, offset, "value") <=> Path(text, frames', k, o + 1)
      BY <1>8, <2>5, <3>4, <3>5
    <3>7. (k + 1) - 1 = k
      BY <2>1
    <3>8. Finishes(text, frames', o, "close") <=> Path(text, frames', k, o + 1)
      BY <2>2, <3>7 DEF Finishes
    <3>9. QED BY <1>1, <3>1, <3>6, <3>8, StillFinishes
  <2>7. CASE Cell(o) # Closer[kind]
    <3>1. at' = "element" /\ offset' = o - 1 /\ (o - 1) + 1 = o
      BY <1>2, <1>6, <1>11, <2>7 DEF Offsets
    <3>2. \A e \in Offsets : Value(text, d, offset, e) <=>
            \E x \in Offsets : Member(text, kind, d - 1, offset + 1, x) /\ More(text, kind, d - 1, x, e)
      BY <1>9, <2>1, <2>3, <2>4, <2>7
    <3>3. \A x \in Offsets : Member(text, kind, d - 1, offset + 1, x) <=> Member(text, kind, d - 1, o, x)
      BY <1>2, <1>5, <2>1, BlanksBefore DEF o
    <3>4. \A x \in Offsets : Path(text, frames', k + 1, x) <=>
            \E e \in Offsets : More(text, kind, d - 1, x, e) /\ Path(text, frames', k, e)
      <4>1. k + 1 \in Nat \ {0} /\ (k + 1) - 1 = k
        BY <2>1
      <4>2. \A x \in Offsets : Path(text, frames', k + 1, x) <=>
              \E e \in Offsets : /\ More(text, frames'[k + 1].kind, NestingLimit - (k + 1), x, e)
                                 /\ Path(text, frames', (k + 1) - 1, e)
        BY <1>2, <4>1, PathStep, Zenon DEF Offsets
      <4>3. QED BY <2>1, <2>2, <4>1, <4>2
    <3>5. Finishes(text, frames', o - 1, "element") <=>
            \E x \in Offsets : Member(text, kind, d - 1, o, x) /\ Path(text, frames', k + 1, x)
      <4>1. Finishes(text, frames', o - 1, "element") <=>
              \E x \in 0 .. Len(text) :
                /\ Member(text, frames'[Len(frames')].kind, NestingLimit - Len(frames'), (o - 1) + 1, x)
                /\ Path(text, frames', Len(frames'), x)
        BY Zenon DEF Finishes
      <4>2. QED BY <2>1, <2>2, <3>1, <4>1 DEF Offsets
    <3>6. Finishes(text, frames, offset, "value") <=> Finishes(text, frames', o - 1, "element")
      BY <1>8, <2>5, <3>2, <3>3, <3>4, <3>5, Zenon
    <3>7. QED BY <1>1, <3>1, <3>6, StillFinishes
  <2>8. QED BY <2>6, <2>7
<1>12. QED BY <1>1, <1>10, <1>11

-----------------------------------------------------------------------------
(* The cells that were read *)

\* Blanks and a byte order mark at the start are dropped, and any other cell is kept.
LEMMA TokensUnfold ==
  ASSUME NEW t \in Seq(Cells)
  PROVE  /\ Tokens(t)[0] = <<>>
         /\ \A n \in 1 .. Len(t) :
              Tokens(t)[n] = IF t[n] = "blank" \/ (n = 1 /\ t[n] = "bom") THEN Tokens(t)[n - 1]
                             ELSE Append(Tokens(t)[n - 1], t[n])
         /\ \A n \in 0 .. Len(t) : Tokens(t)[n] \in Seq(Cells)
<1> DEFINE N == Len(t)
           S == 0 .. N
           A == Seq(Cells)
           Says(f, n) == IF n = 0 THEN <<>>
                         ELSE IF t[n] = "blank" \/ (n = 1 /\ t[n] = "bom") THEN f[n - 1]
                         ELSE Append(f[n - 1], t[n])
           step == [f \in [S -> A] |-> [n \in S |-> Says(f, n)]]
           m == [n \in S |-> n]
<1>1. N \in Nat /\ \A n \in S : n = 0 \/ (n \in 1 .. N /\ t[n] \in Cells /\ n - 1 \in S /\ n - 1 < n)
  OBVIOUS
<1>2. \A f \in [S -> A], n \in S : Says(f, n) \in A
  <2> SUFFICES ASSUME NEW f \in [S -> A], NEW n \in S PROVE Says(f, n) \in A
    OBVIOUS
  <2>1. CASE n = 0
    BY <2>1
  <2>2. CASE n # 0
    <3>1. f[n - 1] \in A /\ t[n] \in Cells
      BY <1>1, <2>2
    <3>2. QED BY <2>2, <3>1
  <2>3. QED BY <2>1, <2>2
<1>3. m \in [S -> 0 .. N] /\ \A n \in S : m[n] = n
  BY <1>1
<1> HIDE DEF S, A
<1>4. step \in [[S -> A] -> [S -> A]]
  <2> HIDE DEF Says
  <2>1. QED BY <1>2
<1>5. ASSUME NEW f \in [S -> A], NEW g \in [S -> A], NEW n \in S,
             \A k \in S : m[k] < m[n] => f[k] = g[k]
      PROVE  Says(f, n) = Says(g, n)
  <2>1. n = 0 \/ f[n - 1] = g[n - 1]
    BY <1>1, <1>3, <1>5
  <2>2. QED BY <2>1
<1>6. Settles(S, A, N, m, step)
  <2> HIDE DEF m, Says
  <2>1. QED BY <1>3, <1>4, <1>5 DEF Settles
<1>7. PICK f \in [S -> A] : step[f] = f
  <2>1. <<>> \in A
    BY DEF A
  <2> HIDE DEF m, step
  <2>2. QED BY <1>1, <1>6, <2>1, RecursionSolves
<1>8. f = [n \in 0 .. Len(t) |-> Says(f, n)]
  <2> HIDE DEF Says
  <2>1. QED BY <1>7 DEF S
<1>9. Tokens(t) = [n \in 0 .. Len(t) |-> Says(Tokens(t), n)]
  BY <1>8, Zenon DEF Tokens
<1> DEFINE T == Tokens(t)
<1>10. \A n \in 0 .. N : T[n] = Says(T, n)
  <2> HIDE DEF Says, T
  <2>1. T = [n \in 0 .. Len(t) |-> Says(T, n)]
    BY <1>9 DEF T
  <2>2. QED BY <2>1
<1>11. \A n \in 0 .. N : T[n] \in Seq(Cells)
  <2> HIDE DEF T
  <2>1. T[0] = <<>> /\ <<>> \in Seq(Cells)
    <3>1. T[0] = Says(T, 0)
      BY <1>1, <1>10
    <3>2. QED BY <3>1
  <2>2. ASSUME NEW n \in 1 .. N, T[n - 1] \in Seq(Cells) PROVE T[n] \in Seq(Cells)
    <3>1. T[n] = Says(T, n) /\ t[n] \in Cells /\ n # 0
      BY <1>1, <1>10
    <3>2. Append(T[n - 1], t[n]) \in Seq(Cells)
      BY <2>2, <3>1
    <3>3. QED BY <2>2, <3>1, <3>2
  <2>3. T[0] \in Seq(Cells)
    BY <2>1
  <2> DEFINE B == Seq(Cells)
  <2>4. T[0] \in B /\ \A n \in 1 .. N : T[n - 1] \in B => T[n] \in B
    BY <2>2, <2>3
  <2> HIDE DEF B
  <2>5. \A n \in 0 .. N : T[n] \in B
    BY <1>1, <2>4, StaysIn
  <2>6. QED BY <2>5 DEF B
<1>12. QED BY <1>1, <1>10, <1>11

\* Blanks are nothing.
LEMMA SkippedIsNothing ==
  ASSUME text \in Seq(Cells), NEW o \in 0 .. Len(text)
  PROVE  Tokens(text)[SkipSpaces(o)] = Tokens(text)[o]
<1> DEFINE r == SkipSpaces(o)
           T == Tokens(text)
           P == {d \in Nat : o + d <= r => T[o + d] = T[o]}
<1>1. r \in o .. Len(text) /\ (\A i \in o .. r - 1 : Cell(i) = "blank") /\ Len(text) \in Nat
  BY SkipsBlanks
<1>2. \A n \in 1 .. Len(text) : text[n] = "blank" => T[n] = T[n - 1]
  BY TokensUnfold
<1> HIDE DEF r, T
<1>3. 0 \in P
  OBVIOUS
<1>4. ASSUME NEW d \in Nat, d \in P PROVE d + 1 \in P
  <2> SUFFICES ASSUME o + (d + 1) <= r PROVE T[o + (d + 1)] = T[o]
    OBVIOUS
  <2>1. o + d \in o .. r - 1 /\ o + (d + 1) \in 1 .. Len(text) /\ (o + (d + 1)) - 1 = o + d
    BY <1>1
  <2>2. Cell(o + d) = text[o + (d + 1)]
    BY <1>1, <2>1 DEF Cell
  <2>3. T[o + (d + 1)] = T[o + d]
    BY <1>1, <1>2, <2>1, <2>2
  <2>4. QED BY <1>1, <1>4, <2>1, <2>3
<1>5. \A d \in Nat : d \in P
  <2> HIDE DEF P
  <2>1. QED BY <1>3, <1>4, InductiveSet
<1>6. r - o \in Nat /\ o + (r - o) = r /\ o + (r - o) <= r
  BY <1>1
<1>7. T[o + (r - o)] = T[o]
  BY <1>5, <1>6
<1>8. QED BY <1>6, <1>7 DEF r, T

\* A cell that is no blank is one more.
LEMMA CellIsRead ==
  ASSUME text \in Seq(Cells), NEW o \in 0 .. Len(text), Cell(o) \notin {"blank", "bom", NUL}
  PROVE  Tokens(text)[o + 1] = Tokens(text)[o] \o <<Cell(o)>>
<1> DEFINE T == Tokens(text)
<1>1. o < Len(text) /\ Cell(o) \in Cells
  BY CellOfText
<1>2. o + 1 \in 1 .. Len(text) /\ text[o + 1] = Cell(o) /\ (o + 1) - 1 = o
  BY <1>1 DEF Cell
<1>3. T[o] \in Seq(Cells) /\ T[o + 1] = Append(T[o], Cell(o))
  BY <1>2, TokensUnfold
<1> HIDE DEF T
<1>4. T[o + 1] = T[o] \o <<Cell(o)>>
  BY <1>1, <1>3, AppendIsConcat
<1>5. QED BY <1>4 DEF T

-----------------------------------------------------------------------------
(* The cells of a tree *)

\* The cells of an item's name.
Named(item) == IF item.name # Unnamed THEN <<"string", ":">> ELSE <<>>

\* The cells of the value of item n, and of what is behind it, if S tells those of its
\* child and of its next.
Valued(items, n, S) ==
  IF items[n].type \notin {"array", "object"} THEN <<items[n].type>>
  ELSE <<Opener[items[n].type]>>
         \o (IF items[n].child = Null THEN <<>> ELSE S[items[n].child])
         \o <<Closer[items[n].type]>>

Followed(items, n, S) == IF items[n].next = Null THEN <<>> ELSE <<",">> \o S[items[n].next]

\* What a tree spells that has been parsed, from its root on.
LEMMA SpellingUnfolds ==
  ASSUME Sound(nodes), \A n \in 1 .. Len(nodes) : nodes[n].type # "none"
  PROVE  \E S : /\ Spelling = S[Root]
                /\ \A n \in 1 .. Len(nodes) :
                     /\ S[n] \in Seq(Cells)
                     /\ S[n] = Named(nodes[n]) \o Valued(nodes, n, S) \o Followed(nodes, n, S)
<1> DEFINE N == Len(nodes)
           D == 1 .. N
           A == Seq(Cells)
           Says(f, n) == Named(nodes[n]) \o Valued(nodes, n, f) \o Followed(nodes, n, f)
           step == [f \in [D -> A] |-> [n \in D |-> Says(f, n)]]
           m == [n \in D |-> N - n]
<1>1. /\ N \in Nat /\ \A n \in D : nodes[n] \in Items
      /\ \A n \in D : \A link \in {nodes[n].next, nodes[n].child} : link = Null \/ link \in n + 1 .. N
  BY LinksUp DEF Sound
<1>2. ASSUME NEW f, NEW n \in D, \A k \in n + 1 .. N : f[k] \in A PROVE Says(f, n) \in A
  <2>1. Named(nodes[n]) \in A
    <3>1. "string" \in Cells /\ ":" \in Cells
      BY DEF Cells
    <3>2. <<"string", ":">> \in A /\ <<>> \in A
      BY <3>1
    <3> HIDE DEF A
    <3>3. QED BY <3>2 DEF Named
  <2>2. Valued(nodes, n, f) \in A
    <3>1. CASE nodes[n].type \notin {"array", "object"}
      <4>1. nodes[n].type \in Cells
        BY <1>1, <3>1 DEF Items, Kinds, Cells
      <4>2. QED BY <3>1, <4>1 DEF Valued
    <3>2. CASE nodes[n].type \in {"array", "object"}
      <4> DEFINE x == IF nodes[n].child = Null THEN <<>> ELSE f[nodes[n].child]
      <4>1. x \in A
        BY <1>1, <1>2
      <4>2. Opener[nodes[n].type] \in Cells /\ Closer[nodes[n].type] \in Cells
        BY <3>2, BracketsAreTokens DEF Kinds
      <4> HIDE DEF x
      <4>3. <<Opener[nodes[n].type]>> \o x \o <<Closer[nodes[n].type]>> \in A
        BY <4>1, <4>2
      <4>4. QED BY <3>2, <4>3 DEF Valued, x
    <3>3. QED BY <3>1, <3>2
  <2>3. Followed(nodes, n, f) \in A
    <3>1. nodes[n].next # Null => f[nodes[n].next] \in A
      BY <1>1, <1>2
    <3>2. \A x \in A : <<",">> \o x \in A
      <4>1. \A c \in Cells : <<c>> \in Seq(Cells)
        OBVIOUS
      <4>2. "," \in Cells
        BY DEF Cells
      <4>3. <<",">> \in Seq(Cells)
        BY <4>1, <4>2, Zenon
      <4>4. QED BY <4>3, ConcatProperties
    <3>3. <<>> \in A
      OBVIOUS
    <3> HIDE DEF A
    <3>4. QED BY <3>1, <3>2, <3>3 DEF Followed
  <2>4. QED BY <2>1, <2>2, <2>3
<1>3. m \in [D -> 0 .. N] /\ \A n \in D : m[n] = N - n
  BY <1>1
<1>4. \A n \in D : \A k \in n + 1 .. N : k \in D /\ m[k] < m[n]
  BY <1>1, <1>3
<1>5. ASSUME NEW f, NEW g, NEW n \in D, \A k \in n + 1 .. N : f[k] = g[k]
      PROVE  Says(f, n) = Says(g, n)
  <2>1. /\ nodes[n].next = Null \/ f[nodes[n].next] = g[nodes[n].next]
        /\ nodes[n].child = Null \/ f[nodes[n].child] = g[nodes[n].child]
    BY <1>1, <1>5
  <2>2. Valued(nodes, n, f) = Valued(nodes, n, g) /\ Followed(nodes, n, f) = Followed(nodes, n, g)
    BY <2>1, Zenon DEF Valued, Followed
  <2>3. QED BY <2>2
<1> HIDE DEF A, D, Says, m
<1>6. \A f \in [D -> A], n \in D : Says(f, n) \in A
  BY <1>2, <1>4
<1>7. step \in [[D -> A] -> [D -> A]]
  BY <1>6
<1>8. Settles(D, A, N, m, step)
  <2>1. ASSUME NEW f \in [D -> A], NEW g \in [D -> A], NEW n \in D,
               \A k \in D : m[k] < m[n] => f[k] = g[k]
        PROVE  step[f][n] = step[g][n]
    <3>1. \A k \in n + 1 .. N : f[k] = g[k]
      BY <1>4, <2>1
    <3>2. Says(f, n) = Says(g, n)
      BY <1>5, <3>1
    <3>3. QED BY <3>2
  <2> HIDE DEF step
  <2>2. QED BY <1>3, <1>7, <2>1 DEF Settles
<1>9. PICK f \in [D -> A] : step[f] = f
  <2>1. <<>> \in A
    BY DEF A
  <2> HIDE DEF step
  <2>2. QED BY <1>1, <1>8, <2>1, RecursionSolves
<1> DEFINE IsSpelling(S) == S = [n \in 1 .. Len(nodes) |-> Says(S, n)]
           L == CHOOSE S : IsSpelling(S)
<1>10. IsSpelling(f)
  BY <1>9 DEF D
<1>11. IsSpelling(L)
  <2> HIDE DEF IsSpelling
  <2>1. QED BY <1>10, Zenon
<1>12. Spelling = L[Root]
  BY Zenon DEF Spelling, Says, Named, Valued, Followed
<1> HIDE DEF L
<1>13. \A n \in D : L[n] = Says(L, n)
  BY <1>11 DEF D
<1>14. \A n \in D : L[n] \in A
  <2> DEFINE P == {n \in D : L[n] \in A}
  <2>1. ASSUME NEW n \in 1 .. N, \A k \in n + 1 .. N : k \in P PROVE n \in P
    <3>1. n \in D /\ \A k \in n + 1 .. N : L[k] \in A
      BY <2>1 DEF D
    <3>2. QED BY <1>2, <1>13, <3>1
  <2>2. \A n \in 1 .. N : n \in P
    <3> HIDE DEF P
    <3>1. QED BY <1>1, <2>1, Descends
  <2>3. QED BY <2>2 DEF D
<1>15. QED BY <1>12, <1>13, <1>14 DEF A, D, Says

-----------------------------------------------------------------------------
(* Where items stand in the text *)

\* Where an item stands in the text, as the cells before it, before its value and up to its
\* end, and the item whose list it is in.
Places == [from : Seq(Cells), value : Seq(Cells), to : Seq(Cells), above : Nat]

\* Item n is where w says, and so are the first of its list and the one behind it.
OwnPlace(items, w, n) ==
  LET type == items[n].type
  IN /\ w[n].value = w[n].from \o Named(items[n])
     /\ type \in {"scalar", "string"} => w[n].to = w[n].value \o <<type>>
     /\ type \in Kinds /\ items[n].child = Null => w[n].to = w[n].value \o <<Opener[type]>> \o <<Closer[type]>>
     /\ type \notin Kinds => items[n].child = Null

ChildPlace(items, w, n) ==
  LET c == items[n].child
  IN c # Null =>
       /\ w[c].above = n /\ w[c].from = w[n].value \o <<Opener[items[n].type]>>
       /\ items[c].prev \in 1 .. Len(items)
       /\ items[items[c].prev].next = Null /\ w[items[c].prev].above = n

NextPlace(items, w, n) ==
  LET m == items[n].next
  IN m # Null =>
       /\ items[n].type # "none" /\ items[m].prev = n
       /\ w[m].above = w[n].above /\ w[m].from = w[n].to \o <<",">>

EndPlace(items, w, n) ==
  LET p == w[n].above
  IN items[n].next = Null /\ p # Null /\ items[p].type \in Kinds =>
       w[p].to = w[n].to \o <<Closer[items[p].type]>>

ItemPlaces(items, w) ==
  \A n \in 1 .. Len(items) :
    OwnPlace(items, w, n) /\ ChildPlace(items, w, n) /\ NextPlace(items, w, n) /\ EndPlace(items, w, n)

\* Every item but the root is in the list of another, and a list has one end.
ListPlaces(items, w) ==
  /\ w[Root].from = <<>>
  /\ \A n \in 1 .. Len(items) : w[n].above \in 0 .. Len(items) /\ (w[n].above = Null <=> n = Root)
  /\ \A m, n \in 1 .. Len(items) :
       w[m].above = w[n].above /\ items[m].next = Null /\ items[n].next = Null => m = n

\* Frame i is at the item that the frame below it came to last.
FramePlace(items, fs, w, i) ==
  LET f == fs[i]
  IN /\ f.item = IF i = 1 THEN Root ELSE fs[i - 1].last
     /\ items[f.item].type = "none"
     /\ f.last = Null => \A n \in 1 .. Len(items) : w[n].above # f.item
     /\ f.last # Null => /\ w[f.last].above = f.item /\ w[f.head].above = f.item
                         /\ w[f.head].from = w[f.item].value \o <<Opener[f.kind]>>
                         /\ items[f.head].prev = Null

FramePlaces(items, fs, w) == \A i \in 1 .. Len(fs) : FramePlace(items, fs, w, i)

\* The items that are not finished.
Unfinished(items, fs, current) ==
  \A n \in 1 .. Len(items) :
    items[n].type = "none" => n \in current \/ \E i \in 1 .. Len(fs) : n = fs[i].item

\* The cells before the next element or the closer of the youngest frame.
Behind(w, f) == IF f.last = Null THEN w[f.item].value \o <<Opener[f.kind]>> ELSE w[f.last].to

\* The cells read so far are those before the place where the parser is.
ReadingPlace(w) ==
  LET seen == Tokens(text)
  IN /\ at \in {"value", "name"} =>
          nodes[Current].type = "none" /\ \A n \in 1 .. Len(nodes) : w[n].above # Current
     /\ at = "value" => seen[offset] = w[Current].value
     /\ at = "name" => seen[offset] = w[Current].from /\ nodes[Current].name = Unnamed
     /\ at = "after" => seen[offset] = w[Current].to
     /\ at = "parsed" => seen[offset] = w[Root].to
     /\ at = "element" =>
          seen[offset + 1] = IF Top.last = Null THEN Behind(w, Top) ELSE Behind(w, Top) \o <<",">>
     /\ at = "close" => seen[offset + 1] = Behind(w, Top) \o <<Closer[Top.kind]>>

TreeAt(w) ==
  /\ ItemPlaces(nodes, w) /\ ListPlaces(nodes, w) /\ FramePlaces(nodes, frames, w)
  /\ Unfinished(nodes, frames, IF at \in {"value", "name"} THEN {Current} ELSE {})
  /\ ReadingPlace(w)

TreeOK ==
  at \notin {"start", "fail", "failed"} => \E w \in [1 .. Len(nodes) -> Places] : TreeAt(w)

\* Where brackets are in a concatenation does not matter.
LEMMA Regroup == \A a, b, c \in Seq(Cells) : (a \o b) \o c = a \o (b \o c)
BY ConcatAssociative, SMTT(30)

\* If every item is where w says, the tree spells the cells up to the end of the root.
LEMMA PlacesSpell ==
  ASSUME Sound(nodes), \A n \in 1 .. Len(nodes) : nodes[n].type # "none", Root \in 1 .. Len(nodes),
         NEW w \in [1 .. Len(nodes) -> Places], ItemPlaces(nodes, w), ListPlaces(nodes, w)
  PROVE  Spelling = w[Root].to
<1> DEFINE N == Len(nodes)
           A == Seq(Cells)
           closing(n) == IF w[n].above = Null THEN <<>> ELSE <<Closer[nodes[w[n].above].type]>>
           end(n) == IF w[n].above = Null THEN w[Root].to ELSE w[w[n].above].to
           inside(n) == w[n].above = Null \/ nodes[w[n].above].type \in Kinds
<1>1. PICK S : /\ Spelling = S[Root]
               /\ \A n \in 1 .. N :
                    S[n] \in A /\ S[n] = Named(nodes[n]) \o Valued(nodes, n, S) \o Followed(nodes, n, S)
  BY SpellingUnfolds
<1>2. /\ N \in Nat /\ \A n \in 1 .. N : nodes[n] \in Items /\ w[n] \in Places
      /\ \A n \in 1 .. N : \A link \in {nodes[n].next, nodes[n].child} : link = Null \/ link \in n + 1 .. N
  BY LinksUp DEF Sound
<1>3. \A n \in 1 .. N : w[n].from \in A /\ w[n].value \in A /\ w[n].to \in A /\ w[n].above \in 0 .. N
  BY <1>2 DEF Places, ListPlaces
<1>4. \A c \in Cells : <<c>> \in A
  OBVIOUS
<1>5. <<>> \in A
  OBVIOUS
<1> HIDE DEF A
<1>6. \A n \in 1 .. N : Named(nodes[n]) \in A
  <2>1. "string" \in Cells /\ ":" \in Cells
    BY DEF Cells
  <2>2. <<"string", ":">> \in A
    BY <2>1 DEF A
  <2>3. QED BY <1>5, <2>2 DEF Named
<1>7. \A n \in 1 .. N : inside(n) => closing(n) \in A
  BY <1>4, <1>5, BracketsAreTokens
<1> HIDE DEF closing, end, inside
<1>8. ASSUME NEW n \in 1 .. N, \A k \in n + 1 .. N : inside(k) => (w[k].from \o S[k]) \o closing(k) = end(k),
             inside(n)
      PROVE  (w[n].from \o S[n]) \o closing(n) = end(n)
  <2> DEFINE from == w[n].from
             value == w[n].value
             to == w[n].to
             name == Named(nodes[n])
             valued == Valued(nodes, n, S)
             followed == Followed(nodes, n, S)
             type == nodes[n].type
             c == nodes[n].child
             m == nodes[n].next
  <2>1. from \in A /\ value \in A /\ to \in A /\ name \in A /\ closing(n) \in A /\ value = from \o name
    BY <1>3, <1>6, <1>7, <1>8 DEF ItemPlaces, OwnPlace
  <2>2. valued \in A /\ value \o valued = to
    <3>1. CASE type \notin Kinds
      <4>1. type \in {"scalar", "string"} /\ valued = <<type>>
        BY <1>2, <3>1 DEF Valued, Items, Kinds
      <4>2. type \in Cells
        BY <4>1 DEF Cells
      <4>3. to = value \o <<type>>
        BY <4>1 DEF ItemPlaces, OwnPlace
      <4>4. QED BY <1>4, <4>1, <4>2, <4>3
    <3>2. CASE type \in Kinds /\ c = Null
      <4>1. <<Opener[type]>> \in A /\ <<Closer[type]>> \in A
        BY <1>4, <3>2, BracketsAreTokens
      <4>2. valued = (<<Opener[type]>> \o <<>>) \o <<Closer[type]>>
        BY <3>2 DEF Valued, Kinds
      <4>3. to = (value \o <<Opener[type]>>) \o <<Closer[type]>>
        BY <3>2 DEF ItemPlaces, OwnPlace
      <4> DEFINE o == <<Opener[type]>>
                 k == <<Closer[type]>>
      <4>4. o \in Seq(Cells) /\ k \in Seq(Cells) /\ value \in Seq(Cells)
        BY <2>1, <4>1 DEF A
      <4>5. valued = (o \o <<>>) \o k /\ to = (value \o o) \o k
        BY <4>2, <4>3
      <4> HIDE DEF o, k, value, valued, to
      <4>6. o \o <<>> = o
        BY <4>4, ConcatEmptySeq
      <4>7. (value \o o) \o k = value \o (o \o k) /\ o \o k \in Seq(Cells)
        BY <4>4, Regroup, ConcatProperties
      <4>8. QED BY <4>5, <4>6, <4>7 DEF A
    <3>3. CASE type \in Kinds /\ c # Null
      <4>1. <<Opener[type]>> \in A /\ <<Closer[type]>> \in A
        BY <1>4, <3>3, BracketsAreTokens
      <4>2. valued = (<<Opener[type]>> \o S[c]) \o <<Closer[type]>>
        BY <3>3 DEF Valued, Kinds
      <4>3. c \in n + 1 .. N /\ c \in 1 .. N
        BY <1>2, <3>3
      <4>4. w[c].above = n /\ w[c].from = value \o <<Opener[type]>>
        BY <3>3 DEF ItemPlaces, ChildPlace
      <4>5. n # Null
        BY DEF Null
      <4>6. inside(c) /\ closing(c) = <<Closer[type]>> /\ end(c) = to
        BY <3>3, <4>4, <4>5 DEF inside, closing, end
      <4>7. ((value \o <<Opener[type]>>) \o S[c]) \o <<Closer[type]>> = to
        BY <1>8, <4>3, <4>4, <4>6
      <4>8. S[c] \in A
        BY <1>1, <4>3
      <4>9. value \o valued = to
        <5> DEFINE o == <<Opener[type]>>
                   k == <<Closer[type]>>
                   sc == S[c]
        <5>1. o \in Seq(Cells) /\ k \in Seq(Cells) /\ sc \in Seq(Cells) /\ value \in Seq(Cells)
          BY <2>1, <4>1, <4>8 DEF A
        <5>2. valued = (o \o sc) \o k /\ ((value \o o) \o sc) \o k = to
          BY <4>2, <4>7
        <5> HIDE DEF o, k, sc, value, valued, to
        <5> DEFINE os == o \o sc
        <5>3. os \in Seq(Cells)
          BY <5>1, ConcatProperties
        <5>4. (value \o o) \o sc = value \o os
          BY <5>1, Regroup, Zenon
        <5> HIDE DEF os
        <5>5. (value \o os) \o k = value \o (os \o k)
          BY <5>1, <5>3, Regroup, Zenon
        <5>6. QED BY <5>2, <5>4, <5>5 DEF os
      <4>10. valued \in A
        BY <4>1, <4>2, <4>8, ConcatProperties DEF A
      <4>11. QED BY <4>9, <4>10
    <3>4. QED BY <3>1, <3>2, <3>3
  <2>3. S[n] = (name \o valued) \o followed
    BY <1>1
  <2>4. followed \in A /\ (to \o followed) \o closing(n) = end(n)
    <3>1. CASE m = Null
      <4>1. followed = <<>>
        BY <3>1 DEF Followed
      <4>2. to \o closing(n) = end(n)
        <5>1. CASE w[n].above = Null
          <6>1. n = Root
            BY <5>1 DEF ListPlaces
          <6>2. closing(n) = <<>> /\ end(n) = to
            BY <5>1, <6>1 DEF closing, end
          <6>3. QED BY <2>1, <6>2, ConcatEmptySeq DEF A
        <5>2. CASE w[n].above # Null
          <6>1. nodes[w[n].above].type \in Kinds
            BY <1>8, <5>2 DEF inside
          <6>2. w[w[n].above].to = to \o <<Closer[nodes[w[n].above].type]>>
            BY <3>1, <5>2, <6>1 DEF ItemPlaces, EndPlace
          <6>3. QED BY <5>2, <6>2 DEF closing, end
        <5>3. QED BY <5>1, <5>2
      <4>3. to \o <<>> = to
        BY <2>1, ConcatEmptySeq DEF A
      <4>4. QED BY <1>5, <4>1, <4>2, <4>3
    <3>2. CASE m # Null
      <4>1. m \in n + 1 .. N /\ m \in 1 .. N
        BY <1>2, <3>2
      <4>2. w[m].above = w[n].above /\ w[m].from = to \o <<",">>
        BY <3>2 DEF ItemPlaces, NextPlace
      <4>3. inside(m) /\ closing(m) = closing(n) /\ end(m) = end(n)
        BY <1>8, <4>2 DEF inside, closing, end
      <4>4. ((to \o <<",">>) \o S[m]) \o closing(n) = end(n)
        BY <1>8, <4>1, <4>2, <4>3
      <4>5. S[m] \in A /\ <<",">> \in A
        <5>1. "," \in Cells
          BY DEF Cells
        <5>2. QED BY <1>1, <1>4, <4>1, <5>1
      <4>6. followed = <<",">> \o S[m]
        BY <3>2 DEF Followed
      <4>7. to \o (<<",">> \o S[m]) = (to \o <<",">>) \o S[m]
        <5> DEFINE sm == S[m]
                   comma == <<",">>
        <5>1. to \in Seq(Cells) /\ sm \in Seq(Cells) /\ comma \in Seq(Cells)
          BY <2>1, <4>5 DEF A
        <5> HIDE DEF sm, comma, to
        <5>2. to \o (comma \o sm) = (to \o comma) \o sm
          BY <5>1, Regroup, Zenon
        <5>3. QED BY <5>2 DEF sm, comma
      <4>8. followed \in A
        BY <4>5, <4>6, ConcatProperties DEF A
      <4>9. QED BY <4>4, <4>6, <4>7, <4>8
    <3>3. QED BY <3>1, <3>2
  <2> HIDE DEF from, value, to, name, valued, followed
  <2>5. /\ from \in Seq(Cells) /\ name \in Seq(Cells) /\ valued \in Seq(Cells) /\ followed \in Seq(Cells)
    BY <2>1, <2>2, <2>4 DEF A
  <2>6. from \o ((name \o valued) \o followed) = ((from \o name) \o valued) \o followed
    <3> DEFINE nv == name \o valued
    <3>1. nv \in Seq(Cells)
      BY <2>5, ConcatProperties
    <3>2. (from \o name) \o valued = from \o nv
      BY <2>5, Regroup, Zenon
    <3> HIDE DEF nv
    <3>3. (from \o nv) \o followed = from \o (nv \o followed)
      BY <2>5, <3>1, Regroup, Zenon
    <3>4. QED BY <3>2, <3>3 DEF nv
  <2>7. (from \o S[n]) \o closing(n) = end(n)
    BY <2>1, <2>2, <2>3, <2>4, <2>6
  <2>8. QED BY <2>7 DEF from
<1>9. \A n \in 1 .. N : inside(n) => (w[n].from \o S[n]) \o closing(n) = end(n)
  <2> DEFINE P == {n \in 1 .. N : inside(n) => (w[n].from \o S[n]) \o closing(n) = end(n)}
  <2>1. ASSUME NEW n \in 1 .. N, \A k \in n + 1 .. N : k \in P PROVE n \in P
    BY <1>8, <2>1
  <2>2. \A n \in 1 .. N : n \in P
    <3> HIDE DEF P
    <3>1. QED BY <1>2, <2>1, Descends
  <2>3. QED BY <2>2
<1>10. w[Root].above = Null /\ w[Root].from = <<>>
  BY DEF ListPlaces
<1>11. inside(Root) /\ closing(Root) = <<>> /\ end(Root) = w[Root].to
  BY <1>10 DEF inside, closing, end
<1>12. (<<>> \o S[Root]) \o <<>> = w[Root].to
  BY <1>9, <1>10, <1>11
<1>13. S[Root] \in A
  BY <1>1
<1>14. (<<>> \o S[Root]) \o <<>> = S[Root]
  BY <1>13, ConcatEmptySeq DEF A
<1>15. QED BY <1>1, <1>12, <1>14

\* Every list is found from any of its items up to its end.
LEMMA EndIsListed ==
  ASSUME Sound(nodes), NEW w \in [1 .. Len(nodes) -> Places], ItemPlaces(nodes, w), ListPlaces(nodes, w),
         NEW n \in 1 .. Len(nodes), NEW k \in 1 .. Len(nodes),
         w[k].above = w[n].above, nodes[k].next = Null
  PROVE  k \in Listed(nodes, n)
<1> DEFINE N == Len(nodes)
           P == {i \in 1 .. N : w[i].above = w[k].above => k \in Listed(nodes, i)}
<1>1. N \in Nat
  BY DEF Sound
<1>2. ASSUME NEW i \in 1 .. N, \A j \in i + 1 .. N : j \in P PROVE i \in P
  <2> SUFFICES ASSUME w[i].above = w[k].above PROVE k \in Listed(nodes, i)
    OBVIOUS
  <2>1. Listed(nodes, i) = {i} \cup Listed(nodes, nodes[i].next) \cup Listed(nodes, nodes[i].child)
    BY ListedUnfolds
  <2>2. CASE nodes[i].next = Null
    <3>1. i = k
      BY <2>2 DEF ListPlaces
    <3>2. QED BY <2>1, <3>1
  <2>3. CASE nodes[i].next # Null
    <3>1. nodes[i].next \in i + 1 .. N
      BY <2>3, LinksUp
    <3>2. w[nodes[i].next].above = w[i].above
      BY <2>3 DEF ItemPlaces, NextPlace
    <3>3. k \in Listed(nodes, nodes[i].next)
      BY <1>2, <3>1, <3>2
    <3>4. QED BY <2>1, <3>3
  <2>4. QED BY <2>2, <2>3
<1>3. \A i \in 1 .. N : i \in P
  <2> HIDE DEF P
  <2>1. QED BY <1>1, <1>2, Descends
<1>4. QED BY <1>3

\* What every step that builds finds of the frames: their lists are of items younger
\* than their own, and what is in a list has nothing behind it yet.
LEMMA FrameFacts ==
  ASSUME IInv, MemoryOK, at \notin {"start", "fail", "failed", "parsed"}
  PROVE  /\ Sound(nodes) /\ Len(nodes) \in Nat /\ Root \in 1 .. Len(nodes)
         /\ frames \in Seq(Frames) /\ Len(frames) \in Nat
         /\ frames # <<>> => Len(frames) \in 1 .. Len(frames) /\ Top = frames[Len(frames)]
         /\ frames = <<>> => Len(frames) = 0
         /\ \A i \in 1 .. Len(frames) :
              /\ frames[i].kind \in Kinds
              /\ frames[i].item \in 1 .. Len(nodes) /\ nodes[frames[i].item].child = Null
              /\ frames[i].last = Null => frames[i].head = Null /\ i = Len(frames)
              /\ frames[i].last # Null =>
                   /\ frames[i].last \in 1 .. Len(nodes) /\ nodes[frames[i].last].next = Null
                   /\ frames[i].head \in 1 .. Len(nodes) /\ frames[i].head > frames[i].item
                   /\ frames[i].item < frames[i].last
         /\ \A i, j \in 1 .. Len(frames) : i < j => frames[i].item < frames[j].item
<1> DEFINE N == Len(nodes)
           M == Len(frames)
<1>1. /\ Sound(nodes) /\ N \in Nat /\ N >= 1 /\ frames \in Seq(Frames) /\ M \in Nat
      /\ Spans(nodes, frames, N)
      /\ \A i \in 1 .. M : /\ frames[i].item \in 1 .. N
                           /\ frames[i].head \in 0 .. N
                           /\ frames[i].last \in 0 .. N
  BY MemoryFacts
<1>2. \A i \in 1 .. M : frames[i].kind \in Kinds
  <2>1. \A i \in 1 .. M : frames[i] \in Frames
    BY <1>1
  <2>2. QED BY <2>1 DEF Frames
<1>3. \A i \in 1 .. M : Span(nodes, frames[i], End(frames, N, i))
  BY <1>1 DEF Spans
<1>4. \A i \in 1 .. M : i # M => frames[i].last # Null
  BY <1>1 DEF IInv, LabelsOK
<1>5. ASSUME NEW i \in 1 .. M
      PROVE  /\ nodes[frames[i].item].child = Null
             /\ frames[i].last = Null => frames[i].head = Null /\ i = M
             /\ frames[i].last # Null =>
                  /\ frames[i].last \in 1 .. N /\ nodes[frames[i].last].next = Null
                  /\ frames[i].head \in 1 .. N /\ frames[i].head > frames[i].item
                  /\ frames[i].item < frames[i].last /\ frames[i].last <= End(frames, N, i)
  <2>1. Span(nodes, frames[i], End(frames, N, i))
    BY <1>3
  <2>2. /\ frames[i].item \in 1 .. N /\ frames[i].head \in 0 .. N /\ frames[i].last \in 0 .. N
        /\ End(frames, N, i) \in 1 .. N
    <3>1. i \in 0 .. M
      BY <1>1
    <3>2. QED BY <1>1, <3>1 DEF Spans, Ascending
  <2>3. /\ frames[i].last # Null => frames[i].last \in frames[i].item + 1 .. End(frames, N, i)
                                    /\ nodes[frames[i].last].next = Null
        /\ nodes[frames[i].item].child = Null
        /\ (frames[i].last = Null <=> frames[i].head = Null)
        /\ frames[i].head # Null => frames[i].head > frames[i].item
    BY <2>1 DEF Span
  <2>4. QED BY <1>1, <1>4, <2>2, <2>3 DEF Null
<1>6. ASSUME NEW i \in 1 .. M, NEW j \in 1 .. M, i < j PROVE frames[i].item < frames[j].item
  <2>1. i # M /\ i \in 0 .. M /\ j \in i + 1 .. M
    BY <1>1, <1>6
  <2>2. frames[i].last # Null
    BY <1>4, <2>1
  <2>3. frames[i].item < End(frames, N, i) /\ End(frames, N, i) <= frames[j].item
    <3>1. End(frames, N, i) \in 1 .. N /\ End(frames, N, i) <= frames[j].item
      BY <1>1, <2>1 DEF Spans, Ascending
    <3>2. QED BY <1>1, <1>5, <2>2, <3>1
  <2>4. End(frames, N, i) \in 1 .. N
    BY <1>1, <2>1 DEF Spans, Ascending
  <2>5. QED BY <1>1, <2>3, <2>4
<1>7. Root \in 1 .. N
  BY <1>1 DEF Root
<1>8. frames # <<>> => M \in 1 .. M /\ Top = frames[M]
  BY <1>1 DEF Top
<1>9. frames = <<>> => M = 0
  BY <1>1
<1>10. QED BY <1>1, <1>2, <1>5, <1>6, <1>7, <1>8, <1>9

\* The item that is filled in has no links yet, and is none that a frame is at; what it is
\* in is not finished.
LEMMA CurrentIsOpen ==
  ASSUME IInv, MemoryOK, at \in {"value", "name"}, NEW w, TreeAt(w)
  PROVE  /\ Current \in 1 .. Len(nodes) /\ nodes[Current].type = "none"
         /\ nodes[Current].next = Null /\ nodes[Current].child = Null
         /\ \A n \in 1 .. Len(nodes) : w[n].above # Current
         /\ \A i \in 1 .. Len(frames) : frames[i].item # Current
         /\ w[Current].above # Null =>
              /\ w[Current].above \in 1 .. Len(nodes) /\ w[Current].above # Current
              /\ nodes[w[Current].above].type = "none"
<1>1. at \notin {"start", "fail", "failed", "parsed"}
  OBVIOUS
<1>2. /\ Current = Len(nodes) /\ nodes[Current].child = Null
      /\ nodes[Current].type = "none" /\ \A n \in 1 .. Len(nodes) : w[n].above # Current
  BY DEF MemoryOK, TreeAt, ReadingPlace
<1>3. Current \in 1 .. Len(nodes) /\ nodes[Current].next = Null
  <2>1. Current \in 1 .. Len(nodes) /\ Len(nodes) \in Nat
    BY <1>1, <1>2, FrameFacts
  <2>2. nodes[Current].next = Null \/ nodes[Current].next \in Current + 1 .. Len(nodes)
    BY <1>1, <2>1, FrameFacts, LinksUp
  <2>3. QED BY <1>2, <2>1, <2>2
<1>4. \A i \in 1 .. Len(frames) : frames[i].last # Null
  BY DEF IInv, LabelsOK
<1>5. \A i \in 1 .. Len(frames) : frames[i].item # Current
  <2>1. \A i \in 1 .. Len(frames) : frames[i].item < frames[i].last /\ frames[i].last \in 1 .. Len(nodes)
                                    /\ frames[i].item \in 1 .. Len(nodes)
    BY <1>1, <1>4, FrameFacts
  <2>2. QED BY <1>1, <1>2, <2>1, FrameFacts
<1>6. ASSUME w[Current].above # Null
      PROVE  /\ w[Current].above \in 1 .. Len(nodes) /\ w[Current].above # Current
             /\ nodes[w[Current].above].type = "none"
  <2>1. frames # <<>>
    <3>1. Root \in 1 .. Len(nodes)
      BY <1>1, FrameFacts
    <3>2. w[Root].above = Null
      BY <3>1 DEF TreeAt, ListPlaces
    <3>3. frames = <<>> => Current = Root
      BY DEF Current
    <3>4. QED BY <1>6, <3>2, <3>3
  <2>2. Len(frames) \in 1 .. Len(frames) /\ Top = frames[Len(frames)] /\ Current = Top.last
    BY <1>1, <2>1, FrameFacts DEF Current
  <2>3. FramePlace(nodes, frames, w, Len(frames)) /\ frames[Len(frames)].last # Null
    BY <1>4, <2>2 DEF TreeAt, FramePlaces
  <2>4. w[Current].above = Top.item /\ nodes[Top.item].type = "none"
    BY <2>2, <2>3 DEF FramePlace
  <2>5. Top.item \in 1 .. Len(nodes) /\ Top.item # Current
    BY <1>1, <1>5, <2>2, FrameFacts
  <2>6. QED BY <2>4, <2>5
<1>7. QED BY <1>2, <1>3, <1>5, <1>6

\* An item is filled in: what is said of the others does not change.
LEMMA FilledPlaces ==
  ASSUME NEW items, Linked(items, Len(items)), Root \in 1 .. Len(items),
         NEW new, Len(new) = Len(items), NEW w, NEW v, NEW n \in 1 .. Len(items), NEW fs,
         ItemPlaces(items, w), ListPlaces(items, w), FramePlaces(items, fs, w),
         \A i \in 1 .. Len(items) : i # n => new[i] = items[i] /\ v[i] = w[i],
         /\ new[n].next = items[n].next /\ new[n].prev = items[n].prev /\ new[n].child = items[n].child
         /\ v[n].from = w[n].from /\ v[n].above = w[n].above,
         items[n].next = Null /\ items[n].child = Null /\ new[n].type \notin Kinds,
         w[n].above # Null => items[w[n].above].type = "none",
         \A i \in 1 .. Len(fs) :
           /\ fs[i].item # n /\ fs[i].item \in 1 .. Len(items)
           /\ fs[i].last # Null => fs[i].last \in 1 .. Len(items) /\ fs[i].head \in 1 .. Len(items),
         OwnPlace(new, v, n)
  PROVE  ItemPlaces(new, v) /\ ListPlaces(new, v) /\ FramePlaces(new, fs, v)
<1> DEFINE N == Len(items)
<1>1. \A i \in 1 .. N : /\ new[i].next = items[i].next /\ new[i].prev = items[i].prev
                        /\ new[i].child = items[i].child
                        /\ v[i].from = w[i].from /\ v[i].above = w[i].above
  OBVIOUS
<1>2. \A i \in 1 .. N : \A link \in {items[i].next, items[i].child, w[i].above} : link = Null \/ link \in 1 .. N
  BY DEF Linked, ListPlaces, Null
<1>3. ASSUME NEW i \in 1 .. N
      PROVE  OwnPlace(new, v, i) /\ ChildPlace(new, v, i) /\ NextPlace(new, v, i) /\ EndPlace(new, v, i)
  <2>1. OwnPlace(items, w, i) /\ ChildPlace(items, w, i) /\ NextPlace(items, w, i) /\ EndPlace(items, w, i)
    BY DEF ItemPlaces
  <2>2. OwnPlace(new, v, i)
    <3>1. i # n => new[i] = items[i] /\ v[i] = w[i]
      OBVIOUS
    <3>2. QED BY <2>1, <3>1 DEF OwnPlace
  <2>3. ChildPlace(new, v, i)
    <3> DEFINE c == items[i].child
    <3> SUFFICES ASSUME c # Null PROVE ChildPlace(new, v, i)
      BY <1>1 DEF ChildPlace
    <3>1. i # n /\ c \in 1 .. N
      BY <1>2
    <3>2. new[i] = items[i] /\ v[i] = w[i]
      BY <3>1
    <3> DEFINE l == items[c].prev
    <3>3. /\ w[c].above = i /\ w[c].from = w[i].value \o <<Opener[items[i].type]>>
          /\ l \in 1 .. N /\ items[l].next = Null /\ w[l].above = i
      BY <2>1 DEF ChildPlace
    <3>4. new[c].prev = l /\ v[c].above = w[c].above /\ v[c].from = w[c].from /\ new[i].child = c
      BY <1>1, <3>1
    <3> HIDE DEF l, c
    <3>5. new[l].next = Null /\ v[l].above = i
      BY <1>1, <3>3
    <3>6. QED BY <3>2, <3>3, <3>4, <3>5 DEF ChildPlace
  <2>4. NextPlace(new, v, i)
    <3> DEFINE m == items[i].next
    <3> SUFFICES ASSUME m # Null PROVE NextPlace(new, v, i)
      BY <1>1 DEF NextPlace
    <3>1. i # n /\ m \in 1 .. N
      BY <1>2
    <3>2. new[i] = items[i] /\ v[i] = w[i]
      BY <3>1
    <3>3. QED BY <1>1, <2>1, <3>1, <3>2 DEF NextPlace
  <2>5. EndPlace(new, v, i)
    <3> DEFINE p == w[i].above
    <3> SUFFICES ASSUME items[i].next = Null, p # Null, new[p].type \in Kinds PROVE EndPlace(new, v, i)
      BY <1>1 DEF EndPlace
    <3>1. p \in 1 .. N /\ p # n
      BY <1>2
    <3>2. new[p] = items[p] /\ v[p] = w[p]
      BY <3>1
    <3>3. i # n
      BY <3>2 DEF Kinds
    <3>4. v[i] = w[i]
      BY <3>3
    <3>5. QED BY <1>1, <2>1, <3>2, <3>4 DEF EndPlace
  <2>6. QED BY <2>2, <2>3, <2>4, <2>5
<1>4. ItemPlaces(new, v)
  BY <1>3 DEF ItemPlaces
<1>5. ListPlaces(new, v)
  <2>1. /\ w[Root].from = <<>>
        /\ \A i \in 1 .. N : w[i].above \in 0 .. N /\ (w[i].above = Null <=> i = Root)
        /\ \A m, i \in 1 .. N :
             w[m].above = w[i].above /\ items[m].next = Null /\ items[i].next = Null => m = i
    BY DEF ListPlaces
  <2>2. v[Root].from = <<>>
    BY <1>1, <2>1
  <2>3. \A i \in 1 .. N : v[i].above \in 0 .. N /\ (v[i].above = Null <=> i = Root)
    BY <1>1, <2>1
  <2>4. \A m, i \in 1 .. N :
          v[m].above = v[i].above /\ new[m].next = Null /\ new[i].next = Null => m = i
    <3> HIDE DEF N
    <3>1. QED BY <1>1, <2>1
  <2>5. QED BY <2>2, <2>3, <2>4 DEF ListPlaces
<1>6. ASSUME NEW i \in 1 .. Len(fs) PROVE FramePlace(new, fs, v, i)
  <2>1. FramePlace(items, fs, w, i)
    BY DEF FramePlaces
  <2>2. new[fs[i].item] = items[fs[i].item] /\ v[fs[i].item] = w[fs[i].item]
    OBVIOUS
  <2>3. \A k \in 1 .. N : v[k].above = w[k].above /\ v[k].from = w[k].from
    BY <1>1
  <2>4. QED BY <2>1, <2>2, <2>3 DEF FramePlace
<1>7. FramePlaces(new, fs, v)
  BY <1>6 DEF FramePlaces
<1>8. QED BY <1>4, <1>5, <1>7

\* A name is a string and a colon.
LEMMA NameIsTwoCells == <<"string">> \o <<":">> = <<"string", ":">>
<1> DEFINE a == <<"string">>
           b == <<":">>
           c == <<"string", ":">>
<1>1. "string" \in Cells /\ ":" \in Cells
  BY DEF Cells
<1>2. a \in Seq(Cells) /\ b \in Seq(Cells) /\ c \in Seq(Cells)
  BY <1>1
<1>3. /\ Len(a) = 1 /\ Len(b) = 1 /\ Len(c) = 2
      /\ a[1] = "string" /\ b[1] = ":" /\ c[1] = "string" /\ c[2] = ":"
  OBVIOUS
<1> HIDE DEF a, b, c
<1>4. /\ a \o b \in Seq(Cells) /\ Len(a \o b) = 2
      /\ (a \o b)[1] = "string" /\ (a \o b)[2] = ":"
  BY <1>2, <1>3, ConcatProperties
<1> DEFINE d == a \o b
<1>5. d \in Seq(Cells) /\ Len(d) = Len(c) /\ \A i \in 1 .. Len(d) : d[i] = c[i]
  BY <1>3, <1>4
<1> HIDE DEF d
<1>6. d = c
  BY <1>2, <1>5, SeqEqual
<1>7. QED BY <1>6 DEF a, b, c, d

\* A value that is one cell.
LEMMA ScalarTree ==
  ASSUME IInv, MemoryOK, TreeOK, ParseScalar \/ ParseString
  PROVE  TreeOK'
<1> DEFINE n == Current
           c == Cell(offset)
           N == Len(nodes)
<1>1. /\ at = "value" /\ at' = "after" /\ offset' = offset + 1 /\ text' = text /\ frames' = frames
      /\ c \in {"scalar", "string"}
      /\ \/ nodes' = [nodes EXCEPT ![n].type = "scalar"] /\ c = "scalar"
         \/ nodes' = [nodes EXCEPT ![n].type = "string", ![n].value = TRUE] /\ c = "string"
  BY DEF ParseScalar, ParseString
<1>2. PICK w \in [1 .. N -> Places] : TreeAt(w)
  BY <1>1 DEF TreeOK
<1>3. /\ n \in 1 .. N /\ nodes[n].type = "none" /\ nodes[n].next = Null /\ nodes[n].child = Null
      /\ \A i \in 1 .. Len(frames) : frames[i].item # n
      /\ w[n].above # Null => nodes[w[n].above].type = "none"
  BY <1>1, <1>2, CurrentIsOpen
<1>4. /\ Sound(nodes) /\ Root \in 1 .. N
      /\ \A i \in 1 .. Len(frames) :
           /\ frames[i].item \in 1 .. N
           /\ frames[i].last # Null => frames[i].last \in 1 .. N /\ frames[i].head \in 1 .. N
  BY <1>1, FrameFacts
<1>5. nodes \in Seq(Items) /\ nodes[n] \in Items /\ w[n] \in Places /\ text \in Seq(Cells) /\ offset \in 0 .. Len(text)
  BY <1>3, <1>4 DEF Sound, IInv, SequencesOK, OffsetOK
<1> DEFINE old == nodes[n]
<1>6. /\ Len(nodes') = N /\ \A i \in 1 .. N : i # n => nodes'[i] = nodes[i]
      /\ nodes'[n].next = nodes[n].next /\ nodes'[n].prev = nodes[n].prev /\ nodes'[n].child = nodes[n].child
      /\ nodes'[n].name = nodes[n].name /\ nodes'[n].type = c
  <2>1. PICK item \in {[old EXCEPT !.type = "scalar"], [old EXCEPT !.type = "string", !.value = TRUE]} :
          nodes' = [nodes EXCEPT ![n] = item] /\ item.type = c
    <3>1. [old EXCEPT !.type = "scalar"].type = "scalar"
      <4> HIDE DEF old
      <4>1. QED BY <1>5 DEF Items, old
    <3>2. [old EXCEPT !.type = "string", !.value = TRUE].type = "string"
      <4> HIDE DEF old
      <4>1. QED BY <1>5 DEF Items, old
    <3>3. QED BY <1>1, <1>3, <1>5, <3>1, <3>2
  <2>2. item.next = old.next /\ item.prev = old.prev /\ item.child = old.child /\ item.name = old.name
    <3>1. old \in Items
      BY <1>5
    <3> HIDE DEF old
    <3>2. QED BY <2>1, <3>1 DEF Items
  <2>3. QED BY <1>3, <1>5, <2>1, <2>2
<1> DEFINE r == [w[n] EXCEPT !.to = w[n].value \o <<c>>]
<1>7. /\ r.from = w[n].from /\ r.value = w[n].value /\ r.above = w[n].above
       /\ r.to = w[n].value \o <<c>> /\ r \in Places
  <2>1. w[n].value \o <<c>> \in Seq(Cells)
    <3>1. c \in Cells /\ w[n].value \in Seq(Cells)
      BY <1>1, <1>5 DEF Cells, Places
    <3> HIDE DEF c, n
    <3>2. QED BY <3>1
  <2>2. QED BY <1>5, <2>1 DEF Places
<1> HIDE DEF r
<1>8. PICK v : v = [w EXCEPT ![n] = r]
  OBVIOUS
<1>9. v \in [1 .. N -> Places] /\ v[n] = r /\ \A i \in 1 .. N : i # n => v[i] = w[i]
  <2> HIDE DEF n
  <2>1. QED BY <1>2, <1>3, <1>7, <1>8
<1>10. /\ \A i \in 1 .. N : i # n => v[i] = w[i]
      /\ v[n].from = w[n].from /\ v[n].value = w[n].value /\ v[n].above = w[n].above
      /\ v[n].to = w[n].value \o <<c>>
  BY <1>7, <1>9
<1> HIDE DEF n, c
<1>11. OwnPlace(nodes, w, n)
  BY <1>2, <1>3 DEF TreeAt, ItemPlaces
<1>12. OwnPlace(nodes', v, n)
  <2>1. v[n].value = v[n].from \o Named(nodes'[n])
    BY <1>6, <1>10, <1>11 DEF OwnPlace, Named
  <2>2. QED BY <1>1, <1>3, <1>6, <1>10, <2>1 DEF OwnPlace, Kinds
<1>13. ItemPlaces(nodes', v) /\ ListPlaces(nodes', v) /\ FramePlaces(nodes', frames, v)
  <2>1. c \notin Kinds
    BY <1>1 DEF Kinds
  <2>2. Linked(nodes, N)
    BY <1>4 DEF Sound
  <2>3. QED BY <1>2, <1>3, <1>4, <1>6, <1>10, <1>12, <2>1, <2>2, FilledPlaces DEF TreeAt
<1>14. Unfinished(nodes', frames, {})
  <2>1. Unfinished(nodes, frames, {n})
    BY <1>1, <1>2 DEF TreeAt, n
  <2>2. c # "none"
    BY <1>1
  <2>3. QED BY <1>6, <2>1, <2>2 DEF Unfinished
<1>15. ReadingPlace(v)'
  <2>1. Tokens(text)[offset] = w[n].value
    BY <1>1, <1>2 DEF TreeAt, ReadingPlace, n
  <2>2. Tokens(text)[offset + 1] = Tokens(text)[offset] \o <<c>>
    BY <1>1, <1>5, CellIsRead DEF c, NUL
  <2>3. Current' = n
    BY <1>1 DEF Current, Top, n
  <2>4. Tokens(text')[offset'] = v[n].to
    BY <1>1, <1>10, <2>1, <2>2
  <2>5. QED BY <1>1, <2>3, <2>4 DEF ReadingPlace
<1>16. TreeAt(v)'
  BY <1>1, <1>13, <1>14, <1>15 DEF TreeAt
<1>17. v \in [1 .. Len(nodes') -> Places]
  BY <1>6, <1>9
<1>18. QED BY <1>16, <1>17 DEF TreeOK

\* A name and its colon.
LEMMA NameTree ==
  ASSUME IInv, MemoryOK, TreeOK, Name
  PROVE  TreeOK'
<1> DEFINE n == Current
           N == Len(nodes)
           o == SkipSpaces(offset + 1)
<1>1. CASE at' = "fail"
  BY <1>1 DEF TreeOK
<1>2. CASE at' # "fail"
  <2>1. /\ at = "name" /\ at' = "value" /\ offset' = SkipSpaces(o + 1) /\ text' = text /\ frames' = frames
        /\ Cell(offset) = "string" /\ Cell(o) = ":"
        /\ nodes' = [nodes EXCEPT ![n].name = "string"]
    BY <1>2 DEF Name
  <2>2. PICK w \in [1 .. N -> Places] : TreeAt(w)
    BY <2>1 DEF TreeOK
  <2>3. /\ n \in 1 .. N /\ nodes[n].type = "none" /\ nodes[n].next = Null /\ nodes[n].child = Null
        /\ \A i \in 1 .. Len(frames) : frames[i].item # n
        /\ \A i \in 1 .. N : w[i].above # n
        /\ w[n].above # Null => nodes[w[n].above].type = "none"
    BY <2>1, <2>2, CurrentIsOpen
  <2>4. /\ Sound(nodes) /\ Root \in 1 .. N
        /\ \A i \in 1 .. Len(frames) :
             /\ frames[i].item \in 1 .. N
             /\ frames[i].last # Null => frames[i].last \in 1 .. N /\ frames[i].head \in 1 .. N
    BY <2>1, FrameFacts
  <2>5. nodes \in Seq(Items) /\ nodes[n] \in Items /\ w[n] \in Places /\ text \in Seq(Cells) /\ offset \in 0 .. Len(text)
    BY <2>2, <2>3, <2>4 DEF Sound, IInv, SequencesOK, OffsetOK
  <2> DEFINE old == nodes[n]
  <2>6. /\ Len(nodes') = N /\ \A i \in 1 .. N : i # n => nodes'[i] = nodes[i]
        /\ nodes'[n].next = nodes[n].next /\ nodes'[n].prev = nodes[n].prev /\ nodes'[n].child = nodes[n].child
        /\ nodes'[n].name = "string" /\ nodes'[n].type = "none"
    <3>1. PICK item : item = [old EXCEPT !.name = "string"]
      OBVIOUS
    <3>2. /\ item.next = old.next /\ item.prev = old.prev /\ item.child = old.child
          /\ item.name = "string" /\ item.type = old.type
      <4>1. old \in Items
        BY <2>5
      <4> HIDE DEF old
      <4>2. QED BY <3>1, <4>1 DEF Items
    <3>3. nodes' = [nodes EXCEPT ![n] = item]
      BY <2>1, <3>1
    <3>4. QED BY <2>3, <2>5, <3>2, <3>3
  <2>7. Tokens(text)[offset] \in Seq(Cells) /\ Tokens(text)[offset] = w[n].from /\ nodes[n].name = Unnamed
    <3>1. Tokens(text)[offset] = w[n].from /\ nodes[n].name = Unnamed
      BY <2>1, <2>2 DEF TreeAt, ReadingPlace
    <3>2. QED BY <2>5, <3>1, TokensUnfold
  <2>8. Tokens(text)[offset'] = w[n].from \o <<"string", ":">>
    <3>1. o \in 0 .. Len(text) /\ offset + 1 \in 0 .. Len(text) /\ o + 1 \in 0 .. Len(text)
      <4>1. offset < Len(text)
        BY <2>1, <2>5, CellOfText DEF NUL
      <4>2. offset + 1 \in 0 .. Len(text)
        BY <2>5, <4>1
      <4>3. o \in 0 .. Len(text)
        BY <2>5, <4>2, SkipSpacesStays
      <4>4. o < Len(text)
        BY <2>1, <2>5, <4>3, CellOfText DEF NUL
      <4>5. QED BY <4>2, <4>3, <4>4
    <3>2. /\ Tokens(text)[offset + 1] = Tokens(text)[offset] \o <<"string">>
          /\ Tokens(text)[o] = Tokens(text)[offset + 1]
          /\ Tokens(text)[o + 1] = Tokens(text)[o] \o <<":">>
          /\ Tokens(text)[SkipSpaces(o + 1)] = Tokens(text)[o + 1]
      <4>1. Tokens(text)[offset + 1] = Tokens(text)[offset] \o <<Cell(offset)>>
        BY <2>1, <2>5, CellIsRead DEF NUL
      <4>2. Tokens(text)[o + 1] = Tokens(text)[o] \o <<Cell(o)>>
        <5> HIDE DEF o
        <5>1. QED BY <2>1, <2>5, <3>1, CellIsRead DEF NUL
      <4>3. Tokens(text)[o] = Tokens(text)[offset + 1]
        BY <2>5, <3>1, SkippedIsNothing
      <4>4. Tokens(text)[SkipSpaces(o + 1)] = Tokens(text)[o + 1]
        <5> HIDE DEF o
        <5>1. QED BY <2>5, <3>1, SkippedIsNothing
      <4>5. QED BY <2>1, <4>1, <4>2, <4>3, <4>4
    <3> DEFINE f == w[n].from
               a == <<"string">>
               b == <<":">>
    <3>3. f \in Seq(Cells) /\ a \in Seq(Cells) /\ b \in Seq(Cells)
      <4>1. "string" \in Cells /\ ":" \in Cells
        BY DEF Cells
      <4>2. QED BY <2>7, <4>1
    <3>4. Tokens(text)[offset'] = (f \o a) \o b
      BY <2>1, <2>7, <3>2
    <3>5. a \o b = <<"string", ":">>
      BY NameIsTwoCells
    <3> HIDE DEF f, a, b
    <3>6. (f \o a) \o b = f \o (a \o b)
      BY <3>3, Regroup, Zenon
    <3>7. QED BY <3>4, <3>5, <3>6 DEF f
  <2> DEFINE r == [w[n] EXCEPT !.value = w[n].from \o <<"string", ":">>]
  <2>9. /\ r.from = w[n].from /\ r.to = w[n].to /\ r.above = w[n].above
        /\ r.value = w[n].from \o <<"string", ":">> /\ r \in Places
    <3>1. w[n].from \o <<"string", ":">> \in Seq(Cells)
      <4>1. "string" \in Cells /\ ":" \in Cells
        BY DEF Cells
      <4>2. w[n].from \in Seq(Cells)
        BY <2>7
      <4> HIDE DEF n
      <4>3. QED BY <4>1, <4>2
    <3>2. QED BY <2>5, <3>1 DEF Places
  <2> HIDE DEF r
  <2>10. PICK v : v = [w EXCEPT ![n] = r]
    OBVIOUS
  <2>11. v \in [1 .. N -> Places] /\ v[n] = r /\ \A i \in 1 .. N : i # n => v[i] = w[i]
    <3> HIDE DEF n
    <3>1. QED BY <2>2, <2>3, <2>9, <2>10
  <2>12. /\ v[n].from = w[n].from /\ v[n].to = w[n].to /\ v[n].above = w[n].above
         /\ v[n].value = w[n].from \o <<"string", ":">>
    BY <2>9, <2>11
  <2> HIDE DEF n, o
  <2>13. OwnPlace(nodes', v, n)
    <3>1. Named(nodes'[n]) = <<"string", ":">>
      BY <2>6 DEF Named, Unnamed
    <3>2. QED BY <2>3, <2>6, <2>12, <3>1 DEF OwnPlace, Kinds
  <2>14. ItemPlaces(nodes', v) /\ ListPlaces(nodes', v) /\ FramePlaces(nodes', frames, v)
    <3>1. Linked(nodes, N) /\ nodes'[n].type \notin Kinds
      BY <2>4, <2>6 DEF Sound, Kinds
    <3>2. QED BY <2>2, <2>3, <2>4, <2>6, <2>11, <2>12, <2>13, <3>1, FilledPlaces DEF TreeAt
  <2>15. Current' = n
    BY <2>1 DEF Current, Top, n
  <2>16. Unfinished(nodes', frames, {n})
    <3>1. Unfinished(nodes, frames, {n})
      BY <2>1, <2>2 DEF TreeAt, n
    <3>2. QED BY <2>6, <3>1 DEF Unfinished
  <2>17. ReadingPlace(v)'
    <3>1. Tokens(text')[offset'] = v[n].value /\ nodes'[n].type = "none"
      BY <2>1, <2>6, <2>8, <2>12
    <3>2. \A i \in 1 .. Len(nodes') : v[i].above # n
      BY <2>3, <2>6, <2>11, <2>12
    <3>3. QED BY <2>1, <2>15, <3>1, <3>2 DEF ReadingPlace
  <2>18. TreeAt(v)'
    BY <2>1, <2>14, <2>15, <2>16, <2>17 DEF TreeAt
  <2>19. v \in [1 .. Len(nodes') -> Places]
    BY <2>6, <2>11
  <2>20. QED BY <2>18, <2>19 DEF TreeOK
<1>3. QED BY <1>1, <1>2

\* The root alone.
LEMMA StartTree ==
  ASSUME IInv, Start
  PROVE  TreeOK'
<1> DEFINE b == IF Cell(0) = "bom" /\ Cell(1) # NUL THEN 1 ELSE 0
           r == [from |-> <<>>, value |-> <<>>, to |-> <<>>, above |-> Null]
           w == <<r>>
<1>1. /\ text \in Seq(Cells) /\ Len(text) \in Nat /\ frames = <<>> /\ frames' = <<>> /\ text' = text
      /\ nodes' = <<Item>> /\ at' = "value" /\ offset' = SkipSpaces(b)
  BY DEF Start, IInv, SequencesOK, LabelsOK
<1>2. /\ Item.type = "none" /\ Item.name = Unnamed /\ Item.next = Null /\ Item.child = Null
  BY DEF Item
<1>3. Len(nodes') = 1 /\ nodes'[1] = Item /\ Root = 1 /\ Null = 0 /\ Len(frames') = 0 /\ Current' = 1
  BY <1>1 DEF Root, Null, Current
<1>4. r \in Places /\ r.from = <<>> /\ r.value = <<>> /\ r.above = Null
  BY DEF Places, Null
<1> HIDE DEF r
<1>5. w \in [1 .. Len(nodes') -> Places] /\ w[1] = r
  BY <1>3, <1>4
<1>6. ItemPlaces(nodes', w)
  <2>1. Named(Item) = <<>> /\ <<>> \o <<>> = <<>>
    BY <1>2, ConcatEmptySeq DEF Named
  <2> HIDE DEF w
  <2>2. OwnPlace(nodes', w, 1)
    BY <1>2, <1>3, <1>4, <1>5, <2>1 DEF OwnPlace, Kinds
  <2>3. ChildPlace(nodes', w, 1) /\ NextPlace(nodes', w, 1) /\ EndPlace(nodes', w, 1)
    BY <1>2, <1>3, <1>4, <1>5 DEF ChildPlace, NextPlace, EndPlace
  <2>4. QED BY <1>3, <2>2, <2>3 DEF ItemPlaces
<1>7. ListPlaces(nodes', w)
  BY <1>3, <1>4, <1>5 DEF ListPlaces
<1>8. FramePlaces(nodes', frames', w) /\ Unfinished(nodes', frames', {1})
  BY <1>3 DEF FramePlaces, Unfinished
<1>9. Tokens(text)[SkipSpaces(b)] = <<>>
  <2>1. b \in 0 .. Len(text) /\ Tokens(text)[b] = <<>>
    <3>1. CASE Cell(0) = "bom" /\ Cell(1) # NUL
      <4>1. 0 < Len(text) /\ b = 1
        BY <1>1, <3>1 DEF Cell, NUL
      <4>2. text[1] = "bom"
        BY <1>1, <3>1, <4>1 DEF Cell
      <4>3. 1 \in 1 .. Len(text) /\ 1 - 1 = 0
        BY <1>1, <4>1
      <4>4. QED BY <1>1, <4>1, <4>2, <4>3, TokensUnfold
    <3>2. CASE ~(Cell(0) = "bom" /\ Cell(1) # NUL)
      <4>1. b = 0
        BY <3>2
      <4>2. QED BY <1>1, <4>1, TokensUnfold
    <3>3. QED BY <3>1, <3>2
  <2> HIDE DEF b
  <2>2. QED BY <1>1, <2>1, SkippedIsNothing
<1>10. ReadingPlace(w)'
  BY <1>1, <1>2, <1>3, <1>4, <1>5, <1>9 DEF ReadingPlace
<1>11. TreeAt(w)'
  BY <1>1, <1>3, <1>6, <1>7, <1>8, <1>10 DEF TreeAt
<1>12. QED BY <1>5, <1>11 DEF TreeOK

\* What fails has no tree to keep.
LEMMA FailTree ==
  ASSUME OutOfMemory \/ NoValue \/ NoName \/ Fail
  PROVE  TreeOK'
BY DEF OutOfMemory, NoValue, NoName, Fail, TreeOK

\* An item is finished.
LEMMA AfterTree ==
  ASSUME IInv, MemoryOK, TreeOK, After
  PROVE  TreeOK'
<1> DEFINE o == SkipSpaces(offset)
           T == Tokens(text)
<1>1. at = "after" /\ text' = text /\ frames' = frames /\ nodes' = nodes
  BY DEF After
<1>2. PICK w \in [1 .. Len(nodes) -> Places] : TreeAt(w)
  BY <1>1 DEF TreeOK
<1>3. T[offset] = w[Current].to
  BY <1>1, <1>2 DEF TreeAt, ReadingPlace
<1>4. /\ text \in Seq(Cells) /\ offset \in 0 .. Len(text)
      /\ frames # <<>> => Len(frames) \in 1 .. Len(frames) /\ Top = frames[Len(frames)]
      /\ \A i \in 1 .. Len(frames) : frames[i].last # Null /\ frames[i].kind \in Kinds
  BY <1>1, FrameFacts DEF IInv, SequencesOK, OffsetOK, LabelsOK
<1>5. CASE frames = <<>>
  <2>1. at' = "parsed" /\ offset' = offset /\ Current = Root
    BY <1>5 DEF After, Current
  <2>2. ReadingPlace(w)'
    BY <1>1, <1>3, <2>1 DEF ReadingPlace
  <2>3. TreeAt(w)'
    BY <1>1, <1>2, <2>1, <2>2 DEF TreeAt
  <2>4. QED BY <1>1, <1>2, <2>3 DEF TreeOK
<1>6. CASE frames # <<>> /\ at' # "fail"
  <2>1. /\ offset' = o /\ Top' = Top
        /\ \/ at' = "element" /\ Cell(o) = ","
           \/ at' = "close" /\ Cell(o) = Closer[Top.kind]
    BY <1>1, <1>6 DEF After, Top
  <2>2. Behind(w, Top) = T[offset] /\ Top.last # Null /\ Top.kind \in Kinds
    BY <1>3, <1>4, <1>6 DEF Behind, Current
  <2>3. T[o] = T[offset] /\ o \in 0 .. Len(text)
    BY <1>4, SkippedIsNothing, SkipSpacesStays
  <2>4. Cell(o) \notin {"blank", "bom", NUL}
    <3>1. Closer[Top.kind] \in {"]", "}"}
      BY <2>2, BracketsAreTokens
    <3> HIDE DEF o
    <3>2. QED BY <2>1, <3>1 DEF NUL
  <2> HIDE DEF o
  <2>5. T[o + 1] = T[o] \o <<Cell(o)>>
    BY <1>4, <2>3, <2>4, CellIsRead
  <2>6. T[offset' + 1] = Behind(w, Top) \o <<Cell(o)>>
    BY <2>1, <2>2, <2>3, <2>5
  <2>7. ReadingPlace(w)'
    BY <1>1, <2>1, <2>2, <2>6 DEF ReadingPlace
  <2>8. TreeAt(w)'
    BY <1>1, <1>2, <2>1, <2>7 DEF TreeAt
  <2>9. QED BY <1>1, <1>2, <2>8 DEF TreeOK
<1>7. CASE at' = "fail"
  BY <1>7 DEF TreeOK
<1>8. QED BY <1>5, <1>6, <1>7

\* A call begins: its item stays unfinished.
LEMMA OpenTree ==
  ASSUME IInv, MemoryOK, TreeOK, NEW kind \in Kinds, Open(kind)
  PROVE  TreeOK'
<1> DEFINE n == Current
           L == Len(frames)
           T == Tokens(text)
           o == SkipSpaces(offset + 1)
           f == [kind |-> kind, item |-> Current, head |-> Null, last |-> Null]
<1>1. CASE at' = "fail"
  BY <1>1 DEF TreeOK
<1>2. CASE at' # "fail"
  <2>1. /\ at = "value" /\ text' = text /\ nodes' = nodes /\ Cell(offset) = Opener[kind]
        /\ frames' = Append(frames, f)
        /\ \/ at' = "close" /\ offset' = o /\ Cell(o) = Closer[kind]
           \/ at' = "element" /\ offset' = o - 1
    BY <1>2 DEF Open
  <2>2. PICK w \in [1 .. Len(nodes) -> Places] : TreeAt(w)
    BY <2>1 DEF TreeOK
  <2>3. /\ n \in 1 .. Len(nodes) /\ nodes[n].type = "none"
        /\ \A i \in 1 .. Len(nodes) : w[i].above # n
    BY <2>1, <2>2, CurrentIsOpen
  <2>4. frames \in Seq(Frames) /\ L \in Nat /\ (frames # <<>> => Top = frames[L]) /\ (frames = <<>> <=> L = 0)
    BY <2>1, FrameFacts
  <2>5. f.kind = kind /\ f.item = n /\ f.head = Null /\ f.last = Null
    OBVIOUS
  <2> HIDE DEF f
  <2>6. /\ Len(frames') = L + 1 /\ frames'[L + 1] = f /\ Top' = f
        /\ \A i \in 1 .. L : frames'[i] = frames[i]
    BY <2>1, <2>4 DEF Top
  <2>7. FramePlaces(nodes', frames', w)
    <3>1. ASSUME NEW i \in 1 .. L PROVE FramePlace(nodes', frames', w, i)
      <4>1. FramePlace(nodes, frames, w, i)
        BY <2>2 DEF TreeAt, FramePlaces
      <4>2. frames'[i] = frames[i] /\ (i # 1 => frames'[i - 1] = frames[i - 1])
        BY <2>4, <2>6
      <4>3. QED BY <2>1, <4>1, <4>2 DEF FramePlace
    <3>2. FramePlace(nodes', frames', w, L + 1)
      <4>1. n = IF L + 1 = 1 THEN Root ELSE frames'[(L + 1) - 1].last
        BY <2>4, <2>6 DEF Current
      <4>2. QED BY <2>1, <2>3, <2>5, <2>6, <4>1 DEF FramePlace
    <3>3. QED BY <2>4, <2>6, <3>1, <3>2 DEF FramePlaces
  <2>8. Unfinished(nodes', frames', {})
    <3>1. Unfinished(nodes, frames, {n})
      BY <2>1, <2>2 DEF TreeAt
    <3>2. /\ n = frames'[L + 1].item /\ L + 1 \in 1 .. Len(frames')
          /\ \A i \in 1 .. L : i \in 1 .. Len(frames') /\ frames'[i].item = frames[i].item
      BY <2>4, <2>5, <2>6
    <3> HIDE DEF n, L
    <3>3. ASSUME NEW k \in 1 .. Len(nodes'), nodes'[k].type = "none"
          PROVE  \E i \in 1 .. Len(frames') : k = frames'[i].item
      <4>1. k = n \/ \E i \in 1 .. L : k = frames[i].item
        BY <2>1, <3>1, <3>3 DEF Unfinished, L
      <4>2. QED BY <3>2, <4>1
    <3>4. QED BY <3>3 DEF Unfinished
  <2>9. text \in Seq(Cells) /\ offset \in 0 .. Len(text) /\ Len(text) \in Nat
    BY DEF IInv, SequencesOK, OffsetOK
  <2>10. T[o] = w[n].value \o <<Opener[kind]>> /\ o \in 1 .. Len(text)
    <3>1. Cell(offset) \notin {"blank", "bom", NUL}
      <4>1. Opener[kind] \in {"[", "{"}
        BY BracketsAreTokens
      <4>2. QED BY <2>1, <4>1 DEF NUL
    <3>2. T[offset + 1] = T[offset] \o <<Opener[kind]>>
      BY <2>1, <2>9, <3>1, CellIsRead
    <3>3. offset + 1 \in 0 .. Len(text)
      <4>1. offset < Len(text)
        BY <2>9, <3>1, CellOfText
      <4>2. QED BY <2>9, <4>1
    <3>4. T[o] = T[offset + 1] /\ o \in offset + 1 .. Len(text)
      BY <2>9, <3>3, SkippedIsNothing, SkipSpacesStays
    <3>5. T[offset] = w[n].value
      BY <2>1, <2>2 DEF TreeAt, ReadingPlace
    <3>6. QED BY <2>9, <3>2, <3>4, <3>5
  <2> HIDE DEF o, n
  <2>11. Behind(w, f) = w[n].value \o <<Opener[kind]>>
    BY <2>5 DEF Behind
  <2>12. ReadingPlace(w)'
    <3>1. CASE at' = "close"
      <4>1. offset' = o /\ Cell(o) = Closer[kind]
        BY <2>1, <3>1
      <4>2. Cell(o) \notin {"blank", "bom", NUL}
        <5>1. Closer[kind] \in {"]", "}"}
          BY BracketsAreTokens
        <5>2. QED BY <4>1, <5>1 DEF NUL
      <4>3. T[o + 1] = T[o] \o <<Closer[kind]>>
        <5>1. o \in 0 .. Len(text)
          BY <2>9, <2>10
        <5>2. QED BY <2>9, <4>1, <4>2, <5>1, CellIsRead
      <4>4. QED BY <2>1, <2>5, <2>6, <2>10, <2>11, <3>1, <4>1, <4>3 DEF ReadingPlace
    <3>2. CASE at' = "element"
      <4>1. offset' + 1 = o
        BY <2>1, <2>9, <2>10, <3>2
      <4>2. QED BY <2>1, <2>5, <2>6, <2>10, <2>11, <3>2, <4>1 DEF ReadingPlace
    <3>3. QED BY <2>1, <3>1, <3>2
  <2>13. TreeAt(w)'
    BY <2>1, <2>2, <2>7, <2>8, <2>12 DEF TreeAt
  <2>14. QED BY <2>1, <2>2, <2>13 DEF TreeOK
<1>3. QED BY <1>1, <1>2

\* A new item, behind the last one of the youngest frame if there is one.
LEMMA ElementTree ==
  ASSUME IInv, IInv', MemoryOK, TreeOK, Element
  PROVE  TreeOK'
<1> DEFINE N == Len(nodes)
           L == Len(frames)
           T == Tokens(text)
           f == frames[L]
           new == nodes'
<1>1. /\ at = "element" /\ text' = text /\ offset' = SkipSpaces(offset + 1)
      /\ at' = IF Top.kind = "object" THEN "name" ELSE "value"
      /\ frames' = [frames EXCEPT ![L].head = IF @ = Null THEN N + 1 ELSE @, ![L].last = N + 1]
      /\ nodes' = Append(IF Top.last = Null THEN nodes ELSE [nodes EXCEPT ![Top.last].next = N + 1],
                         [Item EXCEPT !.prev = Top.last])
  BY DEF Element
<1>2. PICK w \in [1 .. N -> Places] : TreeAt(w)
  BY <1>1 DEF TreeOK
<1>3. /\ nodes \in Seq(Items) /\ N \in Nat /\ Root \in 1 .. N /\ frames \in Seq(Frames) /\ L \in Nat
      /\ L \in 1 .. L /\ Top = f /\ frames # <<>> /\ Sound(nodes)
      /\ text \in Seq(Cells) /\ Len(text) \in Nat /\ offset \in 0 .. Len(text) /\ offset < Len(text)
      /\ f \in Frames
  <2>1. frames # <<>>
    BY <1>1 DEF IInv, LabelsOK
  <2>2. QED BY <1>1, <2>1, FrameFacts DEF IInv, SequencesOK, OffsetOK
<1>4. \A i \in 1 .. L :
        /\ frames[i].kind \in Kinds
        /\ frames[i].item \in 1 .. N /\ nodes[frames[i].item].child = Null
        /\ frames[i].last = Null => frames[i].head = Null /\ i = L
        /\ frames[i].last # Null =>
             /\ frames[i].last \in 1 .. N /\ nodes[frames[i].last].next = Null
             /\ frames[i].head \in 1 .. N
             /\ frames[i].item < frames[i].last
  BY <1>1, FrameFacts
<1>5. \A i \in 1 .. L : FramePlace(nodes, frames, w, i)
  BY <1>2 DEF TreeAt, FramePlaces
<1>6. /\ Len(new) = N + 1
      /\ \A i \in 1 .. N : /\ new[i].type = nodes[i].type /\ new[i].name = nodes[i].name
                           /\ new[i].prev = nodes[i].prev /\ new[i].child = nodes[i].child
                           /\ new[i].next = IF i = f.last THEN N + 1 ELSE nodes[i].next
      /\ new[N + 1].type = "none" /\ new[N + 1].name = Unnamed /\ new[N + 1].next = Null
      /\ new[N + 1].child = Null /\ new[N + 1].prev = f.last
  <2>1. /\ Len(new) = N + 1 /\ new[N + 1] = [Item EXCEPT !.prev = f.last]
        /\ \A i \in 1 .. N : i # f.last => new[i] = nodes[i]
        /\ f.last # Null => new[f.last] = [nodes[f.last] EXCEPT !.next = N + 1]
    BY ElementNodes, Zenon
  <2> DEFINE last == f.last
             item == new[N + 1]
             old == nodes[last]
             behind == new[last]
  <2>2. /\ item.type = "none" /\ item.name = Unnamed /\ item.next = Null
        /\ item.child = Null /\ item.prev = last
    <3>1. item = [Item EXCEPT !.prev = last]
      BY <2>1
    <3> HIDE DEF item, last
    <3>2. QED BY <3>1 DEF Item
  <2>3. last # Null => /\ behind.type = old.type /\ behind.name = old.name /\ behind.prev = old.prev
                       /\ behind.child = old.child /\ behind.next = N + 1
    <3>1. last # Null => old \in Items /\ behind = [old EXCEPT !.next = N + 1]
      BY <1>3, <1>4, <2>1
    <3> HIDE DEF old, behind, last, N
    <3>2. QED BY <3>1 DEF Items
  <2>4. ASSUME NEW i \in 1 .. N
        PROVE  /\ new[i].type = nodes[i].type /\ new[i].name = nodes[i].name
               /\ new[i].prev = nodes[i].prev /\ new[i].child = nodes[i].child
               /\ new[i].next = IF i = f.last THEN N + 1 ELSE nodes[i].next
    <3>1. CASE i = last
      <4>1. last # Null
        BY <1>3, <3>1 DEF Null
      <4>2. QED BY <2>3, <3>1, <4>1
    <3>2. CASE i # last
      BY <2>1, <3>2
    <3>3. QED BY <3>1, <3>2
  <2>5. QED BY <2>1, <2>2, <2>4
<1>7. /\ Len(frames') = L /\ Top' = frames'[L]
      /\ \A i \in 1 .. L : i # L => frames'[i] = frames[i]
      /\ frames'[L].item = f.item /\ frames'[L].kind = f.kind /\ frames'[L].last = N + 1
      /\ frames'[L].head = IF f.head = Null THEN N + 1 ELSE f.head
  <2> DEFINE head == IF f.head = Null THEN N + 1 ELSE f.head
             grown == [f EXCEPT !.head = head, !.last = N + 1]
  <2>1. frames' = [frames EXCEPT ![L] = grown]
    BY <1>1, <1>3
  <2>2. grown.item = f.item /\ grown.kind = f.kind /\ grown.head = head /\ grown.last = N + 1
    <3> HIDE DEF f, head, N
    <3>1. QED BY <1>3 DEF Frames
  <2> HIDE DEF grown, head
  <2>3. /\ Len(frames') = L /\ frames'[L] = grown
        /\ \A i \in 1 .. L : i # L => frames'[i] = frames[i]
    BY <1>3, <2>1
  <2>4. QED BY <2>2, <2>3 DEF Top, head
<1> DEFINE b == IF f.last = Null THEN Behind(w, f) ELSE Behind(w, f) \o <<",">>
           r == [from |-> b, value |-> b, to |-> <<>>, above |-> f.item]
<1>8. /\ T[offset'] = b /\ b \in Seq(Cells)
      /\ f.last = Null => b = w[f.item].value \o <<Opener[f.kind]>>
      /\ f.last # Null => b = w[f.last].to \o <<",">>
  <2>1. T[offset + 1] = b
    BY <1>1, <1>2, <1>3 DEF TreeAt, ReadingPlace
  <2>2. offset + 1 \in 0 .. Len(text)
    BY <1>3
  <2>3. T[offset'] = T[offset + 1] /\ T[offset + 1] \in Seq(Cells)
    BY <1>1, <1>3, <2>2, SkippedIsNothing, TokensUnfold
  <2>4. QED BY <2>1, <2>3 DEF Behind
<1> HIDE DEF b
<1>9. f.item \in 1 .. N /\ nodes[f.item].type = "none" /\ nodes[f.item].child = Null /\ f.kind \in Kinds
  BY <1>3, <1>4, <1>5 DEF FramePlace
<1>10. /\ r \in Places /\ r.from = b /\ r.value = b /\ r.above = f.item
  <2>1. f.item \in Nat /\ <<>> \in Seq(Cells)
    BY <1>3, <1>9
  <2>2. QED BY <1>8, <2>1 DEF Places
<1> HIDE DEF r
<1>11. PICK v : v = [i \in 1 .. N + 1 |-> IF i = N + 1 THEN r ELSE w[i]]
  OBVIOUS
<1>12. /\ v \in [1 .. N + 1 -> Places] /\ v[N + 1] = r
       /\ \A i \in 1 .. N : v[i] = w[i]
  BY <1>2, <1>3, <1>10, <1>11
<1>13. /\ \A i \in 1 .. N : w[i].above \in 0 .. N /\ (w[i].above = Null <=> i = Root)
       /\ w[Root].from = <<>>
       /\ \A m, i \in 1 .. N :
            w[m].above = w[i].above /\ nodes[m].next = Null /\ nodes[i].next = Null => m = i
  BY <1>2 DEF TreeAt, ListPlaces
<1>14. /\ f.last = Null => \A i \in 1 .. N : w[i].above # f.item
       /\ f.last # Null => f.last \in 1 .. N /\ w[f.last].above = f.item /\ nodes[f.last].next = Null
  BY <1>3, <1>4, <1>5 DEF FramePlace
<1> DEFINE last == f.last
           item == f.item
           n == N + 1
<1>15. /\ n \notin 1 .. N /\ n # Null /\ n # Root /\ last # n
       /\ 1 .. n = 1 .. N \cup {n} /\ 0 .. N \subseteq 0 .. n
  <2>1. N \in Nat /\ Root \in 1 .. N /\ (last = Null \/ last \in 1 .. N)
    BY <1>3, <1>14
  <2> HIDE DEF last, N
  <2>2. QED BY <2>1 DEF Null
<1>16. \A i \in 1 .. N : /\ new[i].next = Null => nodes[i].next = Null /\ i # last
                         /\ i # last => new[i].next = nodes[i].next
  BY <1>6, <1>15
<1>17. /\ \A i \in 1 .. N : \A link \in {nodes[i].next, nodes[i].child} : link = Null \/ link \in 1 .. N
       /\ ItemPlaces(nodes, w)
  <2>1. \A i \in 1 .. N : \A link \in {nodes[i].next, nodes[i].child} : link = Null \/ link \in i + 1 .. N
    BY <1>3, LinksUp
  <2>2. QED BY <1>2, <1>3, <2>1 DEF TreeAt
<1>18. last # Null => nodes[last].type # "none"
  <2> SUFFICES ASSUME last # Null, nodes[last].type = "none" PROVE FALSE
    OBVIOUS
  <2>1. Unfinished(nodes, frames, {})
    BY <1>1, <1>2 DEF TreeAt
  <2>2. PICK k \in 1 .. L : last = frames[k].item
    BY <1>14, <2>1 DEF Unfinished
  <2>3. item < last /\ (k < L => frames[k].item < item)
    BY <1>1, <1>3, <1>4, FrameFacts
  <2>4. QED BY <1>3, <1>9, <1>14, <2>2, <2>3
<1>19. /\ new[n].type = "none" /\ new[n].name = Unnamed /\ new[n].next = Null
       /\ new[n].child = Null /\ new[n].prev = last /\ Len(new) = n
       /\ v[n].from = b /\ v[n].value = b /\ v[n].above = item
       /\ \A i \in 1 .. N : v[i] = w[i] /\ new[i].type = nodes[i].type /\ new[i].name = nodes[i].name
                            /\ new[i].prev = nodes[i].prev /\ new[i].child = nodes[i].child
       /\ last # Null => new[last].next = n
  BY <1>6, <1>10, <1>12, <1>14
<1> HIDE DEF last, n, item, f, N
<1>20. ItemPlaces(new, v)
  <2>1. ASSUME NEW i \in 1 .. N
        PROVE  OwnPlace(new, v, i) /\ ChildPlace(new, v, i) /\ NextPlace(new, v, i) /\ EndPlace(new, v, i)
    <3>1. OwnPlace(nodes, w, i) /\ ChildPlace(nodes, w, i) /\ NextPlace(nodes, w, i) /\ EndPlace(nodes, w, i)
      BY <1>17 DEF ItemPlaces, N
    <3>2. OwnPlace(new, v, i)
      <4>1. Named(new[i]) = Named(nodes[i])
        BY <1>19 DEF Named
      <4>2. QED BY <1>19, <3>1, <4>1 DEF OwnPlace
    <3>3. ChildPlace(new, v, i)
      <4> DEFINE c == nodes[i].child
      <4> SUFFICES ASSUME c # Null PROVE ChildPlace(new, v, i)
        BY <1>19 DEF ChildPlace
      <4> DEFINE l == nodes[c].prev
      <4>1. /\ c \in 1 .. N /\ l \in 1 .. N /\ nodes[l].next = Null /\ w[l].above = i
            /\ w[c].above = i /\ w[c].from = w[i].value \o <<Opener[nodes[i].type]>>
        BY <1>17, <3>1 DEF ChildPlace, N
      <4>2. l # last
        BY <1>9, <1>14, <4>1 DEF last, item, Null
      <4>3. new[i].child = c /\ new[c].prev = l /\ new[l].next = Null /\ l \in 1 .. Len(new)
        BY <1>15, <1>16, <1>19, <4>1, <4>2
      <4> HIDE DEF c, l
      <4>4. QED BY <1>19, <4>1, <4>3 DEF ChildPlace
    <3>4. NextPlace(new, v, i)
      <4>1. CASE i = last
        <5>1. last # Null
          BY <1>3, <4>1 DEF Null, N
        <5>2. w[i].above = item /\ b = w[i].to \o <<",">>
          BY <1>8, <1>14, <4>1, <5>1 DEF last, item
        <5>3. new[i].type # "none" /\ new[i].next = n /\ new[n].prev = i
          BY <1>18, <1>19, <4>1, <5>1
        <5>4. v[n].above = v[i].above /\ v[n].from = v[i].to \o <<",">>
          BY <1>19, <5>2
        <5>5. QED BY <5>3, <5>4 DEF NextPlace
      <4>2. CASE i # last
        <5>1. new[i].next = nodes[i].next /\ (nodes[i].next = Null \/ nodes[i].next \in 1 .. N)
          BY <1>16, <1>17, <4>2
        <5>2. QED BY <1>19, <3>1, <5>1 DEF NextPlace
      <4>3. QED BY <4>1, <4>2
    <3>5. EndPlace(new, v, i)
      <4> DEFINE p == w[i].above
      <4> SUFFICES ASSUME new[i].next = Null, p # Null, new[p].type \in Kinds PROVE EndPlace(new, v, i)
        BY <1>19 DEF EndPlace
      <4>1. p \in 1 .. N /\ nodes[i].next = Null
        BY <1>13, <1>16 DEF N, Null
      <4>2. QED BY <1>19, <3>1, <4>1 DEF EndPlace
    <3>6. QED BY <3>2, <3>3, <3>4, <3>5
  <2>2. OwnPlace(new, v, n) /\ ChildPlace(new, v, n) /\ NextPlace(new, v, n) /\ EndPlace(new, v, n)
    <3>1. OwnPlace(new, v, n)
      <4>1. b \o <<>> = b
        BY <1>8, ConcatEmptySeq
      <4>2. Named(new[n]) = <<>>
        BY <1>19 DEF Named
      <4>3. QED BY <1>19, <4>1, <4>2 DEF OwnPlace, Kinds
    <3>2. new[item].type = "none"
      BY <1>9, <1>19 DEF item
    <3>3. QED BY <1>19, <3>1, <3>2 DEF ChildPlace, NextPlace, EndPlace, Kinds
  <2>3. QED BY <1>15, <1>19, <2>1, <2>2 DEF ItemPlaces
<1>21. ListPlaces(new, v)
  <2>1. ASSUME NEW i \in 1 .. N PROVE ~ (w[i].above = item /\ new[i].next = Null)
    <3>1. CASE last = Null
      BY <1>14, <3>1 DEF last, item, N
    <3>2. CASE last # Null
      BY <1>13, <1>14, <1>16, <3>2 DEF last, item, N
    <3>3. QED BY <3>1, <3>2
  <2>2. \A m, i \in 1 .. n : v[m].above = v[i].above /\ new[m].next = Null /\ new[i].next = Null => m = i
    <3>1. ASSUME NEW m \in 1 .. N, NEW i \in 1 .. N, v[m].above = v[i].above, new[m].next = Null, new[i].next = Null
          PROVE  m = i
      BY <1>13, <1>16, <1>19, <3>1 DEF N
    <3>2. QED BY <1>15, <1>19, <2>1, <3>1
  <2>3. \A i \in 1 .. n : v[i].above \in 0 .. n /\ (v[i].above = Null <=> i = Root)
    <3>1. item \in 0 .. N /\ item # Null
      BY <1>3, <1>9 DEF item, Null, N
    <3>2. \A i \in 1 .. N : w[i].above \in 0 .. N /\ (w[i].above = Null <=> i = Root)
      BY <1>13 DEF N
    <3>3. QED BY <1>15, <1>19, <3>1, <3>2
  <2>4. v[Root].from = <<>>
    BY <1>3, <1>13, <1>19 DEF N
  <2>5. QED BY <1>19, <2>2, <2>3, <2>4 DEF ListPlaces
<1>22. FramePlaces(new, frames', v)
  <2>1. ASSUME NEW i \in 1 .. L, i # L PROVE FramePlace(new, frames', v, i)
    <3>1. FramePlace(nodes, frames, w, i)
      BY <1>5
    <3>2. frames'[i] = frames[i] /\ (i # 1 => frames'[i - 1] = frames[i - 1])
      BY <1>3, <1>7, <2>1
    <3>3. /\ frames[i].item \in 1 .. N /\ frames[i].last # Null
          /\ frames[i].last \in 1 .. N /\ frames[i].head \in 1 .. N
      BY <1>4, <2>1 DEF N
    <3>4. QED BY <1>19, <3>1, <3>2, <3>3 DEF FramePlace
  <2>2. FramePlace(new, frames', v, L)
    <3>1. FramePlace(nodes, frames, w, L)
      BY <1>3, <1>5
    <3>2. L # 1 => frames'[L - 1] = frames[L - 1]
      BY <1>3, <1>7
    <3> DEFINE head == f.head
               kind == f.kind
               g == frames'[L]
    <3>3. /\ g.item = item /\ g.kind = kind /\ g.last = n
          /\ g.head = IF head = Null THEN n ELSE head
      BY <1>7 DEF item, f, n, N
    <3>4. item = IF L = 1 THEN Root ELSE frames'[L - 1].last
      BY <3>1, <3>2 DEF FramePlace, item, f
    <3>5. new[item].type = "none" /\ v[item] = w[item]
      BY <1>9, <1>19 DEF item
    <3>6. v[g.head].above = item /\ v[g.head].from = w[item].value \o <<Opener[kind]>> /\ new[g.head].prev = Null
      <4>1. CASE head = Null
        <5>1. last = Null
          BY <1>3, <1>4, <4>1 DEF last, f, Null
        <5>2. b = w[item].value \o <<Opener[kind]>>
          BY <1>8, <5>1 DEF last, item
        <5>3. QED BY <1>19, <3>3, <4>1, <5>1, <5>2
      <4>2. CASE head # Null
        <5>1. last # Null
          BY <1>3, <1>4, <4>2 DEF last, f
        <5>2. head \in 1 .. N
          BY <1>3, <1>4, <5>1 DEF last, f, N
        <5>3. /\ w[head].above = item /\ w[head].from = w[item].value \o <<Opener[kind]>>
              /\ nodes[head].prev = Null
          BY <3>1, <5>1 DEF FramePlace, last, item, f
        <5>4. QED BY <1>19, <3>3, <4>2, <5>2, <5>3
      <4>3. QED BY <4>1, <4>2
    <3> HIDE DEF head, kind, g
    <3>7. QED BY <1>15, <1>19, <3>3, <3>4, <3>5, <3>6 DEF FramePlace, g
  <2>3. QED BY <1>7, <2>1, <2>2 DEF FramePlaces
<1>23. Current' = n
  <2>1. frames' # <<>>
    BY <1>3, <1>7
  <2>2. QED BY <1>7, <2>1 DEF Current, n, N
<1>24. Unfinished(new, frames', {n})
  <2>1. Unfinished(nodes, frames, {})
    BY <1>1, <1>2 DEF TreeAt
  <2>2. \A i \in 1 .. L : i \in 1 .. Len(frames') /\ frames'[i].item = frames[i].item
    BY <1>7 DEF f
  <2>3. ASSUME NEW k \in 1 .. Len(new), new[k].type = "none"
        PROVE  k \in {n} \/ \E i \in 1 .. Len(frames') : k = frames'[i].item
    <3>1. CASE k = n
      BY <3>1
    <3>2. CASE k # n
      <4>1. k \in 1 .. N /\ nodes[k].type = "none"
        BY <1>15, <1>19, <2>3, <3>2
      <4>2. PICK i \in 1 .. L : k = frames[i].item
        BY <2>1, <4>1 DEF Unfinished, N
      <4>3. QED BY <2>2, <4>2
    <3>3. QED BY <3>1, <3>2
  <2>4. QED BY <2>3 DEF Unfinished
<1>25. ReadingPlace(v)'
  <2>1. \A i \in 1 .. Len(new) : v[i].above # n
    <3>1. \A i \in 1 .. N : w[i].above # n
      BY <1>3, <1>13 DEF n, N
    <3>2. item # n
      BY <1>9, <1>15 DEF item, N
    <3>3. QED BY <1>15, <1>19, <3>1, <3>2
  <2>2. Tokens(text')[offset'] = b
    BY <1>1, <1>8
  <2>3. QED BY <1>1, <1>19, <1>23, <2>1, <2>2 DEF ReadingPlace
<1>26. v \in [1 .. Len(nodes') -> Places]
  BY <1>12, <1>19 DEF n, N
<1>27. TreeAt(v)'
  BY <1>1, <1>20, <1>21, <1>22, <1>23, <1>24, <1>25 DEF TreeAt
<1>28. QED BY <1>26, <1>27 DEF TreeOK

\* What a call leaves behind of its own item and of the first in its list.
LEMMA CloseNodes ==
  ASSUME IInv, MemoryOK, Close
  PROVE  LET f == frames[Len(frames)]
         IN /\ Len(nodes') = Len(nodes)
            /\ \A i \in 1 .. Len(nodes) :
                 /\ nodes'[i].next = nodes[i].next /\ nodes'[i].name = nodes[i].name
                 /\ nodes'[i].prev = IF i = f.head THEN f.last ELSE nodes[i].prev
                 /\ nodes'[i].type = IF i = f.item THEN f.kind ELSE nodes[i].type
                 /\ nodes'[i].child = IF i = f.item THEN f.head ELSE nodes[i].child
<1> DEFINE N == Len(nodes)
           k == Len(frames)
           j == frames[k].item
           h == frames[k].head
           last == frames[k].last
           linked == IF h = Null THEN nodes ELSE [nodes EXCEPT ![h].prev = last]
           kind == frames[k].kind
<1>1. at = "close" /\ nodes' = [linked EXCEPT ![j].type = kind, ![j].child = h]
  BY DEF Close, Top
<1>2. N \in Nat /\ k \in Nat /\ frames \in Seq(Frames) /\ nodes \in Seq(Items)
  BY <1>1, MemoryFacts
<1>3. last \in Nat /\ kind \in Kinds /\ h \in Nat /\ h \in 0 .. N /\ j \in 1 .. N
  <2>1. frames # <<>>
    BY <1>1 DEF IInv, LabelsOK
  <2>2. k \in 1 .. k
    BY <1>2, <2>1
  <2>3. frames[k] \in Frames
    BY <1>2, <2>2
  <2>4. QED BY <2>2, <2>3, MemoryFacts DEF Frames
<1> HIDE DEF last, kind, h, j
<1>4. /\ linked \in Seq(Items) /\ Len(linked) = N
      /\ \A i \in 1 .. N :
           /\ linked[i].next = nodes[i].next /\ linked[i].name = nodes[i].name
           /\ linked[i].type = nodes[i].type /\ linked[i].child = nodes[i].child
           /\ linked[i].prev = IF i = h THEN last ELSE nodes[i].prev
  <2>1. CASE h = Null
    BY <1>2, <2>1 DEF Null
  <2>2. CASE h # Null
    <3>1. h \in 1 .. N /\ linked = SetPrev(nodes, h, last)
      BY <1>2, <1>3, <2>2 DEF Null, SetPrev
    <3>2. linked \in Seq(Items) /\ Len(linked) = N
      <4> HIDE DEF linked
      <4>1. QED BY <1>2, <1>3, <3>1, LinkSet
    <3>3. ASSUME NEW i \in 1 .. N
          PROVE  /\ linked[i].next = nodes[i].next /\ linked[i].name = nodes[i].name
                 /\ linked[i].type = nodes[i].type /\ linked[i].child = nodes[i].child
                 /\ linked[i].prev = IF i = h THEN last ELSE nodes[i].prev
      <4> DEFINE old == nodes[i]
                 new == linked[i]
      <4>1. old \in Items /\ new = IF i = h THEN [old EXCEPT !.prev = last] ELSE old
        <5>1. nodes[i] \in Items
          BY <1>2
        <5>2. linked = [nodes EXCEPT ![h] = [nodes[h] EXCEPT !.prev = last]]
          BY <1>2, <3>1 DEF SetPrev
        <5> HIDE DEF linked
        <5>3. QED BY <1>2, <3>1, <5>1, <5>2
      <4> HIDE DEF old, new
      <4>2. /\ new.next = old.next /\ new.name = old.name /\ new.type = old.type /\ new.child = old.child
            /\ new.prev = IF i = h THEN last ELSE old.prev
        BY <4>1 DEF Items
      <4>3. QED BY <4>2 DEF old, new
    <3>4. QED BY <3>2, <3>3
  <2>3. QED BY <2>1, <2>2
<1> HIDE DEF linked
<1>5. PICK item : item = [linked[j] EXCEPT !.type = kind, !.child = h]
  OBVIOUS
<1>6. /\ item.type = kind /\ item.child = h /\ item.next = linked[j].next
      /\ item.name = linked[j].name /\ item.prev = linked[j].prev
  <2> DEFINE old == linked[j]
  <2>1. old \in Items /\ item = [old EXCEPT !.type = kind, !.child = h]
    BY <1>3, <1>4, <1>5
  <2> HIDE DEF old
  <2>2. /\ item.type = kind /\ item.child = h /\ item.next = old.next
        /\ item.name = old.name /\ item.prev = old.prev
    BY <2>1 DEF Items
  <2>3. QED BY <2>2 DEF old
<1>7. nodes' = [linked EXCEPT ![j] = item]
  BY <1>1, <1>3, <1>4, <1>5
<1>8. /\ Len(nodes') = N /\ nodes'[j] = item
      /\ \A i \in 1 .. N : i # j => nodes'[i] = linked[i]
  BY <1>3, <1>4, <1>7
<1>9. QED BY <1>3, <1>4, <1>6, <1>8 DEF j, h, last, kind

\* A call ends: its item is finished, and its list with it.
LEMMA CloseTree ==
  ASSUME IInv, MemoryOK, TreeOK, Close
  PROVE  TreeOK'
<1> DEFINE N == Len(nodes)
           L == Len(frames)
           f == frames[L]
           j == f.item
           h == f.head
           last == f.last
           kind == f.kind
           T == Tokens(text)
           new == nodes'
<1>1. at = "close" /\ at' = "after" /\ offset' = offset + 1 /\ frames' = Pop /\ text' = text
  BY DEF Close
<1>2. PICK w \in [1 .. N -> Places] : TreeAt(w)
  BY <1>1 DEF TreeOK
<1>3. /\ N \in Nat /\ Root \in 1 .. N /\ frames \in Seq(Frames) /\ L \in Nat
      /\ L \in 1 .. L /\ Top = f /\ frames # <<>> /\ Sound(nodes)
      /\ text \in Seq(Cells) /\ Len(text) \in Nat /\ offset \in 0 .. Len(text) /\ offset < Len(text)
  <2>1. frames # <<>>
    BY <1>1 DEF IInv, LabelsOK
  <2>2. QED BY <1>1, <2>1, FrameFacts DEF IInv, SequencesOK, OffsetOK
<1>4. /\ \A i \in 1 .. L :
           /\ frames[i].kind \in Kinds
           /\ frames[i].item \in 1 .. N
           /\ frames[i].last = Null => frames[i].head = Null /\ i = L
           /\ frames[i].last # Null =>
                /\ frames[i].last \in 1 .. N /\ nodes[frames[i].last].next = Null
                /\ frames[i].head \in 1 .. N /\ frames[i].head > frames[i].item
      /\ \A i, k \in 1 .. L : i < k => frames[i].item < frames[k].item
  BY <1>1, FrameFacts
<1>5. \A i \in 1 .. L : FramePlace(nodes, frames, w, i)
  BY <1>2 DEF TreeAt, FramePlaces
<1>6. /\ Len(new) = N
      /\ \A i \in 1 .. N :
           /\ new[i].next = nodes[i].next /\ new[i].name = nodes[i].name
           /\ new[i].prev = IF i = h THEN last ELSE nodes[i].prev
           /\ new[i].type = IF i = j THEN kind ELSE nodes[i].type
           /\ new[i].child = IF i = j THEN h ELSE nodes[i].child
  BY CloseNodes
<1> DEFINE b == Behind(w, f) \o <<Closer[kind]>>
           r == [w[j] EXCEPT !.to = b]
<1>7. /\ T[offset'] = b /\ b \in Seq(Cells)
      /\ last = Null => b = w[j].value \o <<Opener[kind]>> \o <<Closer[kind]>>
      /\ last # Null => b = w[last].to \o <<Closer[kind]>>
  <2>1. T[offset + 1] = b
    BY <1>1, <1>2, <1>3 DEF TreeAt, ReadingPlace
  <2>2. offset + 1 \in 0 .. Len(text)
    BY <1>3
  <2>3. T[offset'] = T[offset + 1] /\ T[offset + 1] \in Seq(Cells)
    BY <1>1, <1>3, <2>2, TokensUnfold
  <2>4. QED BY <2>1, <2>3 DEF Behind
<1> HIDE DEF b
<1>8. j \in 1 .. N /\ nodes[j].type = "none" /\ kind \in Kinds
  BY <1>3, <1>4, <1>5 DEF FramePlace
<1>9. /\ r \in Places /\ r.to = b
      /\ r.from = w[j].from /\ r.value = w[j].value /\ r.above = w[j].above
  <2>1. w[j] \in Places
    BY <1>2, <1>8
  <2>2. QED BY <1>7, <2>1 DEF Places
<1> HIDE DEF r
<1>10. PICK v : v = [w EXCEPT ![j] = r]
  OBVIOUS
<1>11. /\ v \in [1 .. N -> Places] /\ v[j] = r
       /\ \A i \in 1 .. N : i # j => v[i] = w[i]
  <2> HIDE DEF j
  <2>1. QED BY <1>2, <1>8, <1>9, <1>10
<1>12. /\ \A i \in 1 .. N : w[i].above \in 0 .. N /\ (w[i].above = Null <=> i = Root)
       /\ w[Root].from = <<>>
       /\ \A m, i \in 1 .. N :
            w[m].above = w[i].above /\ nodes[m].next = Null /\ nodes[i].next = Null => m = i
  BY <1>2 DEF TreeAt, ListPlaces
\* The list that ends.
<1>13. /\ last = Null => h = Null /\ \A i \in 1 .. N : w[i].above # j
       /\ last # Null => /\ last \in 1 .. N /\ w[last].above = j /\ nodes[last].next = Null
                         /\ h \in 1 .. N /\ h # j /\ w[h].above = j /\ nodes[h].prev = Null
                         /\ w[h].from = w[j].value \o <<Opener[kind]>>
  <2>1. FramePlace(nodes, frames, w, L)
    BY <1>3, <1>5
  <2>2. last # Null => last \in 1 .. N /\ nodes[last].next = Null /\ h \in 1 .. N /\ h > j
    BY <1>3, <1>4
  <2>3. last = Null => h = Null
    BY <1>3, <1>4
  <2> HIDE DEF N
  <2>4. last # Null => h # j
    BY <1>3, <1>8, <2>2 DEF N
  <2>5. QED BY <2>1, <2>2, <2>3, <2>4 DEF FramePlace, N
<1>14. ItemPlaces(nodes, w) /\ \A i \in 1 .. N : \A link \in {nodes[i].next, nodes[i].child} :
                                 link = Null \/ link \in i + 1 .. N
  BY <1>2, <1>3, LinksUp DEF TreeAt
\* The list that its item is in goes on.
<1>15. /\ nodes[j].next = Null
       /\ w[j].above # Null => /\ w[j].above \in 1 .. N /\ w[j].above # j
                               /\ nodes[w[j].above].type = "none"
  <2>1. FramePlace(nodes, frames, w, L)
    BY <1>3, <1>5
  <2>2. CASE L = 1
    <3>1. j = Root
      BY <2>1, <2>2 DEF FramePlace
    <3>2. w[j].above = Null
      BY <1>3, <1>12, <3>1
    <3> DEFINE m == nodes[j].next
    <3>3. ASSUME m # Null PROVE FALSE
      <4>1. m \in 1 .. N /\ m # j
        <5>1. m \in j + 1 .. N
          BY <1>8, <1>14, <3>3
        <5>2. QED BY <1>3, <1>8, <5>1
      <4>2. w[m].above = w[j].above
        BY <1>8, <1>14, <3>3 DEF ItemPlaces, NextPlace
      <4>3. QED BY <1>12, <3>1, <3>2, <4>1, <4>2
    <3>4. QED BY <3>2, <3>3
  <2>3. CASE L # 1
    <3> DEFINE k == L - 1
               p == frames[k].item
    <3>1. k \in 1 .. L /\ k # L /\ k < L
      <4>1. L \in Nat /\ L \in 1 .. L /\ L # 1
        BY <1>3, <2>3
      <4> HIDE DEF L
      <4>2. QED BY <4>1
    <3>2. frames[k].last # Null /\ j = frames[k].last
      BY <1>4, <2>1, <2>3, <3>1 DEF FramePlace
    <3>3. nodes[j].next = Null
      BY <1>4, <3>1, <3>2
    <3>4. w[j].above = p /\ nodes[p].type = "none"
      <4>1. FramePlace(nodes, frames, w, k)
        BY <1>5, <3>1
      <4>2. QED BY <3>2, <4>1 DEF FramePlace
    <3>5. p \in 1 .. N /\ p # j
      <4>1. p \in 1 .. N /\ p < j
        BY <1>3, <1>4, <3>1
      <4>2. QED BY <1>3, <1>8, <4>1
    <3>6. QED BY <3>3, <3>4, <3>5
  <2>4. QED BY <2>2, <2>3
<1>16. /\ \A i \in 1 .. N : /\ v[i].from = w[i].from /\ v[i].value = w[i].value /\ v[i].above = w[i].above
                            /\ i # j => v[i] = w[i]
       /\ v[j].to = b
  BY <1>9, <1>11
<1>17. 0 \notin 1 .. N /\ kind # "none" /\ kind \notin {"scalar", "string"}
  BY <1>8 DEF Kinds
<1> HIDE DEF N, j, h, last, kind, f
<1>18. ItemPlaces(new, v)
  <2>1. ASSUME NEW i \in 1 .. N
        PROVE  OwnPlace(new, v, i) /\ ChildPlace(new, v, i) /\ NextPlace(new, v, i) /\ EndPlace(new, v, i)
    <3>1. OwnPlace(nodes, w, i) /\ ChildPlace(nodes, w, i) /\ NextPlace(nodes, w, i) /\ EndPlace(nodes, w, i)
      BY <1>14 DEF ItemPlaces, N
    <3>2. Named(new[i]) = Named(nodes[i])
      BY <1>6 DEF Named
    <3>3. OwnPlace(new, v, i)
      <4>1. CASE i # j
        BY <1>6, <1>16, <3>1, <3>2, <4>1 DEF OwnPlace
      <4>2. CASE i = j
        <5>1. new[i].type = kind /\ new[i].child = h /\ v[i].value = v[i].from \o Named(new[i])
          BY <1>6, <1>16, <3>1, <3>2, <4>2 DEF OwnPlace
        <5>2. h = Null => last = Null
          BY <1>13, <1>17 DEF Null
        <5>3. h = Null => v[i].to = v[i].value \o <<Opener[kind]>> \o <<Closer[kind]>>
          BY <1>7, <1>16, <4>2, <5>2
        <5>4. QED BY <1>8, <1>17, <5>1, <5>3 DEF OwnPlace
      <4>3. QED BY <4>1, <4>2
    <3>4. ChildPlace(new, v, i)
      <4>1. CASE i # j
        <5> DEFINE c == nodes[i].child
        <5> SUFFICES ASSUME c # Null PROVE ChildPlace(new, v, i)
          BY <1>6, <4>1 DEF ChildPlace
        <5> DEFINE l == nodes[c].prev
        <5>1. /\ c \in i + 1 .. N /\ l \in 1 .. N /\ nodes[l].next = Null /\ w[l].above = i
              /\ w[c].above = i /\ w[c].from = w[i].value \o <<Opener[nodes[i].type]>>
          BY <1>14, <3>1 DEF ChildPlace, N
        <5>2. c \in 1 .. N
          BY <1>3, <5>1 DEF N
        <5>3. c # h
          BY <1>13, <1>17, <4>1, <5>1, <5>2 DEF Null
        <5>4. new[i].child = c /\ new[i].type = nodes[i].type /\ new[c].prev = l /\ new[l].next = Null
          BY <1>6, <4>1, <5>1, <5>2, <5>3
        <5> HIDE DEF c, l
        <5>5. QED BY <1>6, <1>16, <5>1, <5>2, <5>4 DEF ChildPlace
      <4>2. CASE i = j
        <5> SUFFICES ASSUME h # Null PROVE ChildPlace(new, v, i)
          BY <1>6, <4>2 DEF ChildPlace
        <5>1. last # Null
          BY <1>13
        <5>2. /\ new[i].child = h /\ new[i].type = kind /\ new[h].prev = last /\ new[last].next = Null
              /\ last \in 1 .. Len(new)
          BY <1>6, <1>13, <4>2, <5>1
        <5>3. /\ v[h].above = i /\ v[last].above = i
              /\ v[h].from = v[i].value \o <<Opener[kind]>>
          BY <1>13, <1>16, <4>2, <5>1
        <5>4. QED BY <5>2, <5>3 DEF ChildPlace
      <4>3. QED BY <4>1, <4>2
    <3>5. NextPlace(new, v, i)
      <4> DEFINE m == nodes[i].next
      <4> SUFFICES ASSUME m # Null PROVE NextPlace(new, v, i)
        BY <1>6 DEF NextPlace
      <4>1. i # j
        BY <1>15
      <4>2. m \in i + 1 .. N /\ nodes[m].prev = i
        BY <1>14, <3>1 DEF NextPlace
      <4>3. m \in 1 .. N
        BY <1>3, <4>2 DEF N
      <4>4. m # h
        BY <1>13, <1>17, <4>2, <4>3 DEF Null
      <4>5. new[i].next = m /\ new[m].prev = i /\ new[i].type = nodes[i].type
        BY <1>6, <4>1, <4>2, <4>3, <4>4
      <4>6. v[m].above = w[m].above /\ v[m].from = w[m].from /\ v[i] = w[i]
        BY <1>16, <4>1, <4>3
      <4>7. QED BY <3>1, <4>5, <4>6 DEF NextPlace
    <3>6. EndPlace(new, v, i)
      <4> DEFINE p == w[i].above
      <4> SUFFICES ASSUME nodes[i].next = Null, p # Null, new[p].type \in Kinds PROVE EndPlace(new, v, i)
        BY <1>6, <1>16 DEF EndPlace
      <4>1. p \in 1 .. N
        BY <1>12 DEF N, Null
      <4>2. i # j
        BY <1>6, <1>15 DEF Kinds
      <4>3. v[i] = w[i] /\ v[i].above = p /\ new[i].next = Null
        BY <1>6, <1>16, <4>2
      <4>4. v[p].to = v[i].to \o <<Closer[new[p].type]>>
        <5>1. CASE p = j
          <6>1. i = last
            BY <1>12, <1>13, <5>1 DEF N
          <6>2. last # Null
            BY <1>17, <6>1 DEF Null
          <6>3. QED BY <1>6, <1>7, <1>16, <4>1, <4>3, <5>1, <6>1, <6>2
        <5>2. CASE p # j
          BY <1>6, <1>16, <3>1, <4>1, <4>3, <5>2 DEF EndPlace
        <5>3. QED BY <5>1, <5>2
      <4>5. QED BY <4>3, <4>4 DEF EndPlace
    <3>7. QED BY <3>3, <3>4, <3>5, <3>6
  <2>2. QED BY <1>6, <2>1 DEF ItemPlaces
<1>19. ListPlaces(new, v)
  <2>1. \A i \in 1 .. N : v[i].above = w[i].above /\ new[i].next = nodes[i].next
    BY <1>6, <1>16
  <2>2. v[Root].from = <<>>
    BY <1>3, <1>12, <1>16 DEF N
  <2>3. /\ \A i \in 1 .. N : w[i].above \in 0 .. N /\ (w[i].above = Null <=> i = Root)
        /\ \A m, i \in 1 .. N :
             w[m].above = w[i].above /\ nodes[m].next = Null /\ nodes[i].next = Null => m = i
    BY <1>12 DEF N
  <2>4. \A i \in 1 .. N : v[i].above \in 0 .. N /\ (v[i].above = Null <=> i = Root)
    BY <2>1, <2>3
  <2>5. \A m, i \in 1 .. N :
          v[m].above = v[i].above /\ new[m].next = Null /\ new[i].next = Null => m = i
    BY <2>1, <2>3
  <2>6. QED BY <1>6, <2>2, <2>4, <2>5 DEF ListPlaces
\* The calls that go on.
<1>20. /\ Len(frames') = L - 1 /\ \A i \in 1 .. L - 1 : frames'[i] = frames[i] /\ i \in 1 .. L
       /\ \A i \in 1 .. L : i \in 1 .. L - 1 \/ i = L
  <2>1. /\ Len(frames') = L - 1 /\ \A i \in 1 .. L - 1 : frames'[i] = frames[i]
    BY <1>1, <1>3, PopFacts
  <2>2. L \in Nat
    BY <1>3
  <2> HIDE DEF L
  <2>3. QED BY <2>1, <2>2
<1>21. \A i \in 1 .. L - 1 : frames[i].item # j /\ frames[i].last # Null
  <2>1. ASSUME NEW i \in 1 .. L - 1 PROVE frames[i].item # j /\ frames[i].last # Null
    <3>1. i \in 1 .. L /\ i < L /\ i # L /\ L \in 1 .. L
      <4>1. L \in Nat /\ L \in 1 .. L
        BY <1>3
      <4> HIDE DEF L
      <4>2. QED BY <2>1, <4>1
    <3>2. frames[i].item < j /\ frames[i].item \in 1 .. N
      BY <1>4, <3>1 DEF j, f, N
    <3>3. QED BY <1>3, <1>4, <1>8, <3>1, <3>2 DEF N
  <2>2. QED BY <2>1
<1>22. FramePlaces(new, frames', v)
  <2>1. ASSUME NEW i \in 1 .. L - 1 PROVE FramePlace(new, frames', v, i)
    <3> DEFINE item == frames[i].item
               end == frames[i].last
               head == frames[i].head
    <3>1. FramePlace(nodes, frames, w, i)
      BY <1>5, <1>20
    <3>2. frames'[i] = frames[i] /\ (i # 1 => frames'[i - 1] = frames[i - 1])
      <4>1. i # 1 => i - 1 \in 1 .. L - 1
        <5>1. L \in Nat
          BY <1>3
        <5> HIDE DEF L
        <5>2. QED BY <5>1
      <4>2. QED BY <1>20, <4>1
    <3>3. item \in 1 .. N /\ item # j /\ end # Null /\ end \in 1 .. N /\ head \in 1 .. N
      BY <1>4, <1>20, <1>21 DEF N
    <3>4. /\ item = IF i = 1 THEN Root ELSE frames[i - 1].last
          /\ nodes[item].type = "none" /\ w[end].above = item /\ w[head].above = item
          /\ w[head].from = w[item].value \o <<Opener[frames[i].kind]>> /\ nodes[head].prev = Null
      BY <3>1, <3>3 DEF FramePlace
    <3>5. head # h
      BY <1>13, <1>17, <3>3, <3>4 DEF Null
    <3>6. /\ new[item].type = "none" /\ v[end].above = item /\ v[head].above = item
          /\ v[head].from = v[item].value \o <<Opener[frames[i].kind]>> /\ new[head].prev = Null
      BY <1>6, <1>16, <3>3, <3>4, <3>5
    <3>7. QED BY <3>2, <3>3, <3>4, <3>6 DEF FramePlace
  <2>2. QED BY <1>20, <2>1 DEF FramePlaces
<1>23. Unfinished(new, frames', {})
  <2>1. Unfinished(nodes, frames, {})
    BY <1>1, <1>2 DEF TreeAt
  <2>2. ASSUME NEW k \in 1 .. Len(new), new[k].type = "none"
        PROVE  \E i \in 1 .. Len(frames') : k = frames'[i].item
    <3>1. k \in 1 .. N /\ k # j /\ nodes[k].type = "none"
      BY <1>6, <1>17, <2>2
    <3>2. PICK i \in 1 .. L : k = frames[i].item
      BY <2>1, <3>1 DEF Unfinished, N
    <3>3. i # L
      BY <3>1, <3>2 DEF j, f
    <3>4. QED BY <1>20, <3>2, <3>3
  <2>3. QED BY <2>2 DEF Unfinished
<1>24. Current' = j
  <2>1. FramePlace(nodes, frames, w, L)
    BY <1>3, <1>5
  <2>2. L \in Nat /\ L \in 1 .. L /\ frames' \in Seq(Frames)
    BY <1>1, <1>3, PopFacts
  <2>3. CASE L = 1
    <3>1. frames' = <<>>
      BY <1>20, <2>2, <2>3
    <3>2. QED BY <2>1, <2>3, <3>1 DEF FramePlace, Current, j, f
  <2>4. CASE L # 1
    <3> HIDE DEF L
    <3>1. L - 1 \in 1 .. L - 1
      BY <2>2, <2>4
    <3>2. frames' # <<>> /\ frames'[Len(frames')] = frames[L - 1]
      BY <1>20, <3>1
    <3>3. j = frames[L - 1].last
      BY <2>1, <2>4 DEF FramePlace, j, f
    <3>4. QED BY <3>2, <3>3 DEF Current, Top
  <2>5. QED BY <2>3, <2>4
<1>25. ReadingPlace(v)'
  <2>1. Tokens(text')[offset'] = v[j].to
    BY <1>1, <1>7, <1>16
  <2>2. QED BY <1>1, <1>24, <2>1 DEF ReadingPlace
<1>26. v \in [1 .. Len(nodes') -> Places]
  BY <1>6, <1>11
<1>27. TreeAt(v)'
  BY <1>1, <1>18, <1>19, <1>22, <1>23, <1>25 DEF TreeAt
<1>28. QED BY <1>26, <1>27 DEF TreeOK

-----------------------------------------------------------------------------
(* Theorems *)

LEMMA ParserInductive == Spec => []IInv
<1>1. Init => IInv
  BY TextsAssumption, LimitAssumption
     DEF Init, IInv, SequencesOK, LinksOK, Linked, LabelsOK, DepthOK, OffsetOK
<1>2. IInv /\ [Next]_vars => IInv'
  <2> SUFFICES ASSUME IInv, [Next]_vars PROVE IInv'
    OBVIOUS
  <2>1. CASE Next
    BY <2>1, FramesStep, LabelsStep, OffsetStep DEF IInv
  <2>2. CASE UNCHANGED vars
    BY <2>2 DEF vars, IInv, SequencesOK, LinksOK, Linked, LabelsOK, DepthOK, OffsetOK
  <2>3. QED BY <2>1, <2>2
<1>3. QED BY <1>1, <1>2, PTL DEF Spec

\* Nothing is lost at any step.
LEMMA MemoryInductive == Spec => []MemoryOK
<1>1. Init => MemoryOK
  BY DEF Init, MemoryOK, Plain
<1>2. IInv /\ IInv' /\ MemoryOK /\ [Next]_vars => MemoryOK'
  <2> SUFFICES ASSUME IInv, IInv', MemoryOK, [Next]_vars PROVE MemoryOK'
    OBVIOUS
  <2>1. CASE Next
    <3>1. CASE Start \/ OutOfMemory \/ NoValue \/ NoName \/ After
      BY <3>1, StartMemory, MoveMemory
    <3>2. CASE ParseScalar \/ ParseString \/ Name
      BY <3>2, FillMemory
    <3>3. CASE (\E kind \in Kinds : Open(kind)) \/ Fail
      BY <3>3, OpenMemory, FailMemory
    <3>4. CASE Element \/ Close
      BY <3>4, ElementMemory, CloseMemory
    <3>5. QED BY <2>1, <3>1, <3>2, <3>3, <3>4 DEF Next, Kinds
  <2>2. CASE UNCHANGED vars
    BY <2>2 DEF vars, MemoryOK, Current, Top
  <2>3. QED BY <2>1, <2>2
<1>3. QED BY <1>1, <1>2, ParserInductive, PTL DEF Spec

\* There is a way to go on at every step, or at none.
LEMMA GrammarInductive == Spec => []GrammarOK
<1>1. Init => GrammarOK
  BY DEF Init, GrammarOK
<1>2. IInv /\ GrammarOK /\ [Next]_vars => GrammarOK'
  <2> SUFFICES ASSUME IInv, GrammarOK, [Next]_vars PROVE GrammarOK'
    OBVIOUS
  <2>1. CASE Next
    <3>1. CASE Start \/ OutOfMemory
      BY <3>1, StartAccepts, OutOfMemoryAccepts
    <3>2. CASE ParseScalar \/ ParseString \/ NoValue \/ (\E kind \in Kinds : Open(kind))
      BY <3>2, ValueAccepts, OpenAccepts
    <3>3. CASE Element \/ Name \/ NoName \/ After
      BY <3>3, ElementAccepts, NameAccepts, AfterAccepts
    <3>4. CASE Close \/ Fail
      BY <3>4, CloseAccepts
    <3>5. QED BY <2>1, <3>1, <3>2, <3>3, <3>4 DEF Next, Kinds
  <2>2. CASE UNCHANGED vars
    <3>1. /\ text' = text /\ frames' = frames /\ offset' = offset /\ at' = at /\ starved' = starved
      BY <2>2 DEF vars
    <3>2. (StartsWithValue' <=> StartsWithValue) /\ Cell(offset)' = Cell(offset) /\ Top' = Top
      BY <3>1 DEF StartsWithValue, Cell, Top
    <3>3. QED BY <3>1, <3>2 DEF GrammarOK
  <2>3. QED BY <2>1, <2>2
<1>3. QED BY <1>1, <1>2, ParserInductive, PTL DEF Spec

\* Every item is where it was read, at every step.
LEMMA TreeInductive == Spec => []TreeOK
<1>1. Init => TreeOK
  BY DEF Init, TreeOK
<1>2. IInv /\ IInv' /\ MemoryOK /\ TreeOK /\ [Next]_vars => TreeOK'
  <2> SUFFICES ASSUME IInv, IInv', MemoryOK, TreeOK, [Next]_vars PROVE TreeOK'
    OBVIOUS
  <2>1. CASE Next
    <3>1. CASE Start \/ OutOfMemory \/ NoValue \/ NoName \/ Fail
      BY <3>1, StartTree, FailTree
    <3>2. CASE ParseScalar \/ ParseString \/ Name
      BY <3>2, ScalarTree, NameTree
    <3>3. CASE (\E kind \in Kinds : Open(kind)) \/ After
      BY <3>3, OpenTree, AfterTree
    <3>4. CASE Element \/ Close
      BY <3>4, ElementTree, CloseTree
    <3>5. QED BY <2>1, <3>1, <3>2, <3>3, <3>4 DEF Next, Kinds
  <2>2. CASE UNCHANGED vars
    <3>1. /\ text' = text /\ frames' = frames /\ offset' = offset /\ at' = at /\ nodes' = nodes
      BY <2>2 DEF vars
    <3>2. Current' = Current /\ Top' = Top
      BY <3>1 DEF Current, Top
    <3>3. ASSUME NEW w \in [1 .. Len(nodes) -> Places], TreeAt(w) PROVE TreeAt(w)'
      BY <3>1, <3>2, <3>3 DEF TreeAt, ReadingPlace
    <3>4. QED BY <3>1, <3>3 DEF TreeOK
  <2>3. QED BY <2>1, <2>2
<1>3. QED BY <1>1, <1>2, ParserInductive, MemoryInductive, PTL DEF Spec

\* For every text and every limit on nesting, frames, items and links are in range and
\* the depth counts the calls in progress, up to the limit (cJSON.c lines 1079 to 1739).
THEOREM ParserTypeCorrect == Spec => []TypeOK
<1>1. IInv => TypeOK
  <2> SUFFICES ASSUME IInv PROVE TypeOK
    OBVIOUS
  <2>1. \A i \in 1 .. Len(frames) : frames[i].kind \in {"array", "object"}
    <3>1. ASSUME NEW i \in 1 .. Len(frames) PROVE frames[i] \in Frames
      BY DEF IInv, SequencesOK
    <3>2. QED BY <3>1 DEF Frames, Kinds
  <2>2. \A i \in 1 .. Len(nodes) : nodes[i].type \in {"none", "scalar", "string", "array", "object"}
    <3>1. ASSUME NEW i \in 1 .. Len(nodes) PROVE nodes[i] \in Items
      BY DEF IInv, SequencesOK
    <3>2. QED BY <3>1 DEF Items, Kinds
  <2>3. QED BY <2>1, <2>2 DEF IInv, SequencesOK, LinksOK, Linked, LabelsOK, DepthOK, TypeOK
<1>2. QED BY <1>1, ParserInductive, PTL

\* For every text the reading position stays in the buffer, although some bytes are
\* passed without a look at its end: where that is done, the terminator is still ahead.
THEOREM ParserInBuffer == Spec => []InBuffer
<1>1. IInv => InBuffer
  BY DEF IInv, SequencesOK, OffsetOK, InBuffer, Length
<1>2. QED BY <1>1, ParserInductive, PTL

\* For every text, whether it is JSON or not, however deep the parser is when it gives up,
\* and whichever allocation fails, cJSON_Parse frees nothing twice, leaves nothing behind
\* when it fails, and when it succeeds what it has allocated is the tree it returns
\* (cJSON.c lines 241 to 283 and 1079 to 1739).
THEOREM ParserFreesTheRest == Spec => []ParserLosesNothing
<1>1. IInv /\ MemoryOK => ParserLosesNothing
  <2> SUFFICES ASSUME IInv, MemoryOK PROVE ParserLosesNothing
    OBVIOUS
  <2>1. at = "parsed" => live = Blocks(nodes, Root)
    <3> SUFFICES ASSUME at = "parsed" PROVE live = Blocks(nodes, Root)
      OBVIOUS
    <3>1. frames = <<>> /\ Spans(nodes, frames, Len(nodes)) /\ live = Made(nodes, Len(nodes))
      BY MemoryFacts DEF MemoryOK
    <3>2. Listed(nodes, Root) = 1 .. Len(nodes)
      BY <3>1 DEF Spans, End
    <3>3. QED BY <3>1, <3>2 DEF Made, Blocks
  <2>2. QED BY <2>1 DEF MemoryOK, ParserLosesNothing
<1>2. QED BY <1>1, ParserInductive, MemoryInductive, PTL

\* For every text, every limit on nesting and every fault, cJSON_Parse accepts exactly the
\* texts that start with a value of the grammar, nested no deeper than the limit, if no
\* allocation fails, and never another one (cJSON.c lines 1051 to 1739).
THEOREM ParserReadsTheGrammar == Spec => []AcceptsTheGrammar
<1>1. GrammarOK => AcceptsTheGrammar
  <2>1. Finishes(text, frames, offset, "parsed") /\ ~Finishes(text, frames, offset, "failed")
    BY DEF Finishes
  <2>2. QED BY <2>1 DEF GrammarOK, AcceptsTheGrammar
<1>2. QED BY <1>1, GrammarInductive, PTL

\* For every text, every limit on nesting and every fault, the tree that cJSON_Parse
\* returns spells the part of the text that was read, cell by cell, and its lists are
\* linked both ways, the first element's prev pointing to the last (cJSON.c lines 1452
\* to 1739).
THEOREM ParserBuildsTheTree == Spec => []TreeIsTheText
<1>1. IInv /\ MemoryOK /\ TreeOK => TreeIsTheText
  <2> SUFFICES ASSUME IInv, MemoryOK, TreeOK, at = "parsed" PROVE TreeIsTheText
    BY DEF TreeIsTheText
  <2> DEFINE N == Len(nodes)
  <2>1. frames = <<>> /\ Sound(nodes) /\ N \in Nat /\ Root \in 1 .. N
    BY MemoryFacts DEF MemoryOK, Root
  <2>2. PICK w \in [1 .. N -> Places] : TreeAt(w)
    BY DEF TreeOK
  <2>3. ItemPlaces(nodes, w) /\ ListPlaces(nodes, w)
    BY <2>2 DEF TreeAt
  <2>4. \A n \in 1 .. N : nodes[n].type # "none"
    <3>1. Unfinished(nodes, frames, {}) /\ Len(frames) = 0
      BY <2>1, <2>2 DEF TreeAt
    <3>2. QED BY <3>1 DEF Unfinished
  <2>5. Spelling = Tokens(text)[offset]
    <3>1. Spelling = w[Root].to
      BY <2>1, <2>3, <2>4, PlacesSpell
    <3>2. QED BY <2>2, <3>1 DEF TreeAt, ReadingPlace
  <2>6. \A n \in 1 .. N : nodes[n].next # Null => nodes[nodes[n].next].prev = n
    BY <2>3 DEF ItemPlaces, NextPlace
  <2>7. ASSUME NEW n \in 1 .. N, nodes[n].child # Null
        PROVE  \E last \in Listed(nodes, nodes[n].child) :
                 nodes[last].next = Null /\ nodes[nodes[n].child].prev = last
    <3> DEFINE c == nodes[n].child
               last == nodes[c].prev
    <3>1. w[c].above = n /\ last \in 1 .. N /\ nodes[last].next = Null /\ w[last].above = n
      BY <2>3, <2>7 DEF ItemPlaces, ChildPlace
    <3>2. c \in 1 .. N
      <4>1. c \in n + 1 .. N
        BY <2>1, <2>7, LinksUp
      <4>2. QED BY <2>1, <4>1
    <3>3. last \in Listed(nodes, c)
      <4> HIDE DEF c, last
      <4>1. QED BY <2>1, <2>3, <3>1, <3>2, EndIsListed
    <3>4. QED BY <3>1, <3>3
  <2>8. QED BY <2>5, <2>6, <2>7 DEF TreeIsTheText
<1>2. QED BY <1>1, ParserInductive, MemoryInductive, TreeInductive, PTL

=============================================================================
