------------------------------- MODULE JsonEdit -------------------------------
(***************************************************************************)
(* The functions of utils/cJSON.c that change a parsed tree: they create,  *)
(* add, insert, detach, replace, duplicate and delete items of doubly      *)
(* linked lists whose first item's prev is the last item.  A caller passes *)
(* what these functions take without a check: an item it adds is a root it *)
(* owns, and an item it detaches or replaces is a child of the parent.     *)
(***************************************************************************)
EXTENDS Json

CONSTANTS
  EditedTexts,  \* the texts whose trees are edited
  Keys,         \* the names a caller gives to members
  CallLimit,    \* bound: calls after cJSON_Parse
  ItemLimit     \* bound: no more items are made when there are so many

VARIABLES
  held,     \* the items the caller owns: the roots of its trees
  lost,     \* items that no one owns any more
  calls,    \* the calls made
  result    \* what the last one returned: an item or Null, TRUE as 1 and FALSE as 0

editor == <<held, lost, calls, result>>
editVars == <<vars, editor>>
parser == <<text, offset, depth, frames>>

EditInit == Init /\ held = {} /\ lost = {} /\ calls = 0 /\ result = Null

\* The parser at work, and the tree it hands over.
Parse ==
  /\ Next
  /\ held' = IF at' = "parsed" THEN {Root} ELSE held
  /\ UNCHANGED <<lost, calls, result>>

-----------------------------------------------------------------------------
(* Reading lists *)

RECURSIVE Chain(_, _, _)

\* The items from n on along next, count of them if that is a ring.
Chain(items, n, count) ==
  IF n = Null \/ count = 0 THEN <<>> ELSE <<n>> \o Chain(items, items[n].next, count - 1)

Children(items, n) == IF items[n].reference THEN <<>> ELSE Chain(items, items[n].child, Len(items))

\* An item and all items below it.
Tree(n) == {n} \cup (IF nodes[n].reference THEN {} ELSE Listed(nodes, nodes[n].child))
Reachable == UNION {Tree(n) : n \in held}
Parents == {n \in Reachable : nodes[n].type \in {"array", "object"} /\ ~nodes[n].reference}
Childs(p) == LET list == Children(nodes, p) IN {list[k] : k \in 1 .. Len(list)}

\* get_array_item
ArrayItem(array, index) ==
  LET list == Children(nodes, array) IN IF index < Len(list) THEN list[index + 1] ELSE Null

Lower == [k \in {"string", "STRING"} |-> "string"]
Fold(k) == IF k \in DOMAIN Lower THEN Lower[k] ELSE k

\* get_object_item: the search by exact name ends at the first item without one, the
\* other one goes on.
ObjectItem(items, object, key, sensitive) ==
  LET list == Children(items, object)
      Matches(k) == IF sensitive THEN items[list[k]].name = key
                    ELSE items[list[k]].name # Unnamed /\ Fold(items[list[k]].name) = Fold(key)
      hits == {k \in 1 .. Len(list) :
                 /\ Matches(k) /\ \A j \in 1 .. k - 1 : ~Matches(j)
                 /\ sensitive => \A j \in 1 .. k - 1 : items[list[j]].name # Unnamed}
  IN IF hits = {} \/ key = Unnamed THEN Null ELSE list[CHOOSE k \in hits : TRUE]

RECURSIVE Compare(_, _, _, _)

\* cJSON_Compare: the members of an object are looked up by name, in both directions.
Compare(items, a, b, sensitive) ==
  LET as == Children(items, a)
      bs == Children(items, b)
      Finds(from, to) ==
        \A k \in 1 .. Len(Children(items, from)) :
          LET m == Children(items, from)[k]
              other == ObjectItem(items, to, items[m].name, sensitive)
          IN other # Null /\ Compare(items, m, other, sensitive)
  IN /\ items[a].type = items[b].type
     /\ \/ a = b
        \/ items[a].type \in {"scalar", "string"}
        \/ /\ items[a].type = "array" /\ Len(as) = Len(bs)
           /\ \A k \in 1 .. Len(as) : Compare(items, as[k], bs[k], sensitive)
        \/ items[a].type = "object" /\ Finds(a, b) /\ Finds(b, a)

-----------------------------------------------------------------------------
(* Changing lists: the items after each of the pointer assignments *)

suffix_object(items, prev, item) == [items EXCEPT ![prev].next = item, ![item].prev = prev]

\* Mutant: the first item still takes the one before for the last.
AddedKeepingPrev(items, array, item) ==
  LET head == items[array].child
  IN IF head = Null THEN [items EXCEPT ![array].child = item, ![item].prev = item, ![item].next = Null]
     ELSE suffix_object(items, items[head].prev, item)

\* add_item_to_array
Added(items, array, item) ==
  LET head == items[array].child
  IN IF head = Null THEN [items EXCEPT ![array].child = item, ![item].prev = item, ![item].next = Null]
     ELSE [suffix_object(items, items[head].prev, item) EXCEPT ![head].prev = item]

\* cJSON_InsertItemInArray, in front of after
Inserted(items, array, after, item) ==
  LET before == items[after].prev
      linked == [items EXCEPT ![item].next = after, ![item].prev = before, ![after].prev = item]
  IN IF after = items[array].child THEN [linked EXCEPT ![array].child = item]
     ELSE [linked EXCEPT ![before].next = item]

\* Mutant: the first item is not told of the new last one.
DetachedFromFront(items, parent, item) ==
  LET i    == items[item]
      past == IF item # items[parent].child THEN [items EXCEPT ![i.prev].next = i.next] ELSE items
      back == IF i.next # Null THEN [past EXCEPT ![i.next].prev = i.prev] ELSE past
      top  == IF item = items[parent].child THEN [back EXCEPT ![parent].child = i.next] ELSE back
  IN [top EXCEPT ![item].prev = Null, ![item].next = Null]

\* cJSON_DetachItemViaPointer
Detached(items, parent, item) ==
  LET i    == items[item]
      past == IF item # items[parent].child THEN [items EXCEPT ![i.prev].next = i.next] ELSE items
      back == IF i.next # Null THEN [past EXCEPT ![i.next].prev = i.prev] ELSE past
      top  == IF item = items[parent].child THEN [back EXCEPT ![parent].child = i.next]
              ELSE IF i.next = Null THEN [back EXCEPT ![back[parent].child].prev = i.prev] ELSE back
  IN [top EXCEPT ![item].prev = Null, ![item].next = Null]

\* The first half of cJSON_ReplaceItemViaPointer: new takes the place of item.
Replaced(items, parent, item, new) ==
  LET i    == items[item]
      head == items[parent].child
      copy == [items EXCEPT ![new].next = i.next, ![new].prev = i.prev]
      back == IF i.next # Null THEN [copy EXCEPT ![i.next].prev = new] ELSE copy
      top  == IF head = item
              THEN [back EXCEPT ![new].prev = IF back[item].prev = item THEN new ELSE @, ![parent].child = new]
              ELSE LET past == IF i.prev # Null THEN [back EXCEPT ![i.prev].next = new] ELSE back
                   IN IF i.next = Null THEN [past EXCEPT ![head].prev = new] ELSE past
  IN [top EXCEPT ![item].next = Null, ![item].prev = Null]

-----------------------------------------------------------------------------
(* Calls *)

Call(r) ==
  /\ at' = "edited" /\ calls' = calls + 1 /\ result' = r
  /\ UNCHANGED parser

\* A heap with its items, live blocks, and whether one has been freed twice.
Heap == [nodes |-> nodes, live |-> live, corrupt |-> corrupt]
Becomes(heap) == nodes' = heap.nodes /\ live' = heap.live /\ corrupt' = heap.corrupt

Freed(heap, n) ==
  LET blocks == Blocks(heap.nodes, n)
  IN [heap EXCEPT !.live = @ \ blocks, !.corrupt = @ \/ ~(blocks \subseteq heap.live)]

\* A heap with one more item. A function that allocates gets the number of allocations
\* that succeed, left, and gives back the heap, the item or Null, and what is left.
Grown(heap, item) ==
  LET n == Len(heap.nodes) + 1
  IN [heap EXCEPT !.nodes = Append(@, item), !.live = @ \cup Own(item, n)]

Out(heap, item, left) == [heap |-> heap, item |-> item, left |-> left]

\* cJSON_CreateNull, .., cJSON_CreateArray, cJSON_CreateObject; a string is allocated after
\* its item, which is deleted without it.
Created(heap, type, left) ==
  IF left = 0 THEN Out(heap, Null, 0)
  ELSE IF type = "string" /\ left = 1
  THEN Out(Freed(Grown(heap, [Item EXCEPT !.type = type]), Len(heap.nodes) + 1), Null, 0)
  ELSE Out(Grown(heap, [Item EXCEPT !.type = type, !.value = (type = "string")]), Len(heap.nodes) + 1,
           left - (IF type = "string" THEN 2 ELSE 1))

RECURSIVE Filled(_, _, _, _, _, _)

\* The loop of cJSON_CreateIntArray, cJSON_CreateStringArray and their like, with count
\* items still to be made; last is the item before.
Filled(heap, a, type, count, last, left) ==
  LET new == Created(heap, type, left)
  IN IF count = 0
     THEN Out(IF last = Null THEN heap ELSE [heap EXCEPT !.nodes[heap.nodes[a].child].prev = last], a, left)
     ELSE IF new.item = Null THEN Out(Freed(new.heap, a), Null, 0)
     ELSE Filled([new.heap EXCEPT !.nodes = IF last = Null THEN [@ EXCEPT ![a].child = new.item]
                                            ELSE suffix_object(@, last, new.item)],
                 a, type, count - 1, new.item, new.left)

CreatedArray(heap, type, count, left) ==
  LET array == Created(heap, "array", left)
  IN IF array.item = Null THEN array ELSE Filled(array.heap, array.item, type, count, Null, array.left)

\* Mutant: the copy takes the constant name, and is taken to own it.
BareOwner(item) == [Item EXCEPT !.type = item.type]

\* The copy of an item before it has any string.
Bare(item) == [Item EXCEPT !.type = item.type, !.constant = item.constant]

RECURSIVE Duplicated(_, _, _, _), Copies(_, _, _, _, _)

\* cJSON_Duplicate of item n.
Duplicated(heap, n, recurse, left) ==
  LET item  == nodes[n]
      new   == Len(heap.nodes) + 1
      bare  == Grown(heap, Bare(item))
      value == [bare EXCEPT !.nodes[new].value = item.value,
                            !.live = IF item.value THEN @ \cup {<<"value", new>>} ELSE @]
      name  == [value EXCEPT !.nodes[new].name = item.name,
                             !.live = IF item.name # Unnamed /\ ~item.constant THEN @ \cup {<<"name", new>>} ELSE @]
      afterValue == left - 1 - (IF item.value THEN 1 ELSE 0)
      afterName  == afterValue - (IF item.name # Unnamed /\ ~item.constant THEN 1 ELSE 0)
  IN IF left = 0 THEN Out(heap, Null, 0)
     ELSE IF afterValue < 0 THEN Out(Freed(bare, new), Null, 0)
     ELSE IF afterName < 0 THEN Out(Freed(value, new), Null, 0)
     ELSE IF ~recurse THEN Out(name, new, afterName)
     ELSE Copies(name, new, Children(nodes, n), Null, afterName)

\* The loop over the children that are still to be copied; last is the copy before.
Copies(heap, new, list, last, left) ==
  LET child == Duplicated(heap, Head(list), TRUE, left)
  IN IF list = <<>>
     THEN Out(IF last = Null THEN heap ELSE [heap EXCEPT !.nodes[heap.nodes[new].child].prev = last], new, left)
     ELSE IF child.item = Null THEN Out(Freed(child.heap, new), Null, 0)
     ELSE Copies([child.heap EXCEPT !.nodes = IF last = Null THEN [@ EXCEPT ![new].child = child.item]
                                              ELSE suffix_object(@, last, child.item)],
                 new, Tail(list), child.item, child.left)

\* item->string gets a new key, or none, and the old one is freed if it was the item's.
Named(heap, item, key, constant) ==
  LET old == Own(heap.nodes[item], item) \cap {<<"name", item>>}
  IN [heap EXCEPT !.nodes[item].name = key, !.nodes[item].constant = constant,
                  !.live = IF constant \/ key = Unnamed THEN @ \ old ELSE (@ \ old) \cup {<<"name", item>>},
                  !.corrupt = @ \/ ~(old \subseteq heap.live)]

-----------------------------------------------------------------------------
(* The calls *)

\* The numbers of allocations that may succeed in a call that makes count of them.
Lefts(count) == IF "malloc" \in Faults THEN 0 .. count ELSE {count}

Types == {"scalar", "string", "array", "object"}

\* Items are made as long as there are fewer than the bound.
Room == Len(nodes) < ItemLimit

\* The functions that return a new root.
Creates(out) ==
  /\ Becomes(out.heap)
  /\ held' = IF out.item = Null THEN held ELSE held \cup {out.item}
  /\ starved' = (starved \/ out.item = Null)
  /\ Call(out.item) /\ UNCHANGED lost

Create(type, left) == Room /\ Creates(Created(Heap, type, left))

CreateArray(type, count, left) == Room /\ Creates(CreatedArray(Heap, type, count, left))

Duplicate(n, recurse, left) ==
  /\ Room
  /\ \A i \in Tree(n) : ~nodes[i].reference
  /\ Creates(Duplicated(Heap, n, recurse, left))

AddItemToArray(p, item) ==
  /\ nodes' = Added(nodes, p, item)
  /\ held' = held \ {item}
  /\ Call(1) /\ UNCHANGED <<live, corrupt, starved, lost>>

\* cJSON_AddItemToObject, and with a constant key cJSON_AddItemToObjectCS.
AddItemToObject(p, key, item, constant) ==
  LET named == Named(Heap, item, key, constant)
  IN /\ Becomes([named EXCEPT !.nodes = Added(@, p, item)])
     /\ held' = held \ {item}
     /\ Call(1) /\ UNCHANGED <<starved, lost>>

\* cJSON_AddItemToObject without memory for the key.
AddItemFails(p, item) ==
  /\ "malloc" \in Faults
  /\ starved' = TRUE
  /\ Call(0) /\ UNCHANGED <<nodes, live, corrupt, held, lost>>

\* cJSON_AddNullToObject, .., cJSON_AddArrayToObject: the item is deleted without its key.
AddNewToObject(p, key, type, left) ==
  LET new == Created(Heap, type, left)
      out == IF new.item = Null THEN new
             ELSE IF new.left = 0 THEN Out(Freed(new.heap, new.item), Null, 0)
             ELSE [new EXCEPT !.heap = [Named(@, new.item, key, FALSE) EXCEPT !.nodes = Added(@, p, new.item)]]
  IN /\ Room
     /\ Becomes(out.heap) /\ starved' = (starved \/ out.item = Null)
     /\ Call(out.item) /\ UNCHANGED <<held, lost>>

\* create_reference: an item that shares the children and the string of another.
Reference(heap, n, left) ==
  IF left = 0 THEN Out(heap, Null, 0)
  ELSE Out(Grown(heap, [heap.nodes[n] EXCEPT !.name = Unnamed, !.reference = TRUE, !.next = Null, !.prev = Null]),
           Len(heap.nodes) + 1, left - 1)

AddItemReferenceToArray(p, n, left) ==
  LET new == Reference(Heap, n, left)
  IN /\ Room
     /\ Becomes(IF new.item = Null THEN new.heap ELSE [new.heap EXCEPT !.nodes = Added(@, p, new.item)])
     /\ starved' = (starved \/ new.item = Null)
     /\ Call(IF new.item = Null THEN 0 ELSE 1) /\ UNCHANGED <<held, lost>>

\* The reference is not freed when its key cannot be had.
AddItemReferenceToObject(p, key, n, left) ==
  LET new == Reference(Heap, n, left)
  IN /\ Room
     /\ IF new.item = Null \/ new.left = 0
        THEN /\ Becomes(new.heap) /\ starved' = TRUE
             /\ lost' = IF new.item = Null THEN lost ELSE lost \cup {new.item}
             /\ Call(0)
        ELSE /\ Becomes([Named(new.heap, new.item, key, FALSE) EXCEPT !.nodes = Added(@, p, new.item)])
             /\ Call(1) /\ UNCHANGED <<starved, lost>>
     /\ UNCHANGED held

InsertItemInArray(p, index, item) ==
  LET after == ArrayItem(p, index)
  IN /\ nodes' = IF after = Null THEN Added(nodes, p, item) ELSE Inserted(nodes, p, after, item)
     /\ held' = held \ {item}
     /\ Call(1) /\ UNCHANGED <<live, corrupt, starved, lost>>

\* cJSON_DetachItemFromArray and cJSON_DetachItemFromObject, of the item found, or Null.
Detach(p, item) ==
  /\ nodes' = IF item = Null THEN nodes ELSE Detached(nodes, p, item)
  /\ held' = IF item = Null THEN held ELSE held \cup {item}
  /\ Call(item) /\ UNCHANGED <<live, corrupt, starved, lost>>

\* cJSON_DeleteItemFromArray and cJSON_DeleteItemFromObject.
DetachAndDelete(p, item) ==
  /\ Becomes(IF item = Null THEN Heap ELSE Freed([Heap EXCEPT !.nodes = Detached(@, p, item)], item))
  /\ Call(1) /\ UNCHANGED <<held, starved, lost>>

\* Mutant: what cannot take any place is deleted.
ReplaceOrDelete(heap, p, item, new) ==
  /\ IF item = Null THEN Becomes(Freed(heap, new))
     ELSE Becomes(Freed([heap EXCEPT !.nodes = Replaced(@, p, item, new)], item))
  /\ held' = held \ {new}
  /\ Call(IF item = Null THEN 0 ELSE 1) /\ UNCHANGED lost

\* Replaces item, which may be Null, in a heap where new has its name.
ReplaceIn(heap, p, item, new) ==
  /\ IF item = Null THEN Becomes(heap) /\ UNCHANGED held
     ELSE /\ Becomes(Freed([heap EXCEPT !.nodes = Replaced(@, p, item, new)], item))
          /\ held' = held \ {new}
  /\ Call(IF item = Null THEN 0 ELSE 1) /\ UNCHANGED lost

ReplaceItemInArray(p, index, new) ==
  /\ ReplaceIn(Heap, p, ArrayItem(p, index), new) /\ UNCHANGED starved

\* replace_item_in_object: the new item gets the key before there is known to be a member
\* to replace, and goes on without one if memory is short.
ReplaceItemInObject(p, key, new, sensitive) ==
  /\ \/ ReplaceIn(Named(Heap, new, key, FALSE), p, ObjectItem(nodes, p, key, sensitive), new) /\ UNCHANGED starved
     \/ /\ "malloc" \in Faults
        /\ ReplaceIn(Named(Heap, new, Unnamed, FALSE), p, ObjectItem(nodes, p, key, sensitive), new)
        /\ starved' = TRUE

Delete(item) ==
  /\ Becomes(Freed(Heap, item)) /\ held' = held \ {item}
  /\ Call(1) /\ UNCHANGED <<starved, lost>>

Finds(p) ==
  {ArrayItem(p, index) : index \in 0 .. 2} \cup {ObjectItem(nodes, p, key, sensitive) : key \in Keys, sensitive \in BOOLEAN}

EditNew ==
  \/ \E type \in Types, left \in Lefts(2) : Create(type, left)
  \/ \E type \in {"scalar", "string"}, count \in 0 .. 2 : \E left \in Lefts(2 * count + 1) : CreateArray(type, count, left)
  \/ \E n \in Reachable, recurse \in BOOLEAN : \E left \in Lefts(Cardinality(Blocks(nodes, n))) : Duplicate(n, recurse, left)

EditBelow(p) ==
  \/ \E key \in Keys, type \in Types, left \in Lefts(3) : AddNewToObject(p, key, type, left)
  \/ \E n \in Reachable, left \in Lefts(2) :
       AddItemReferenceToArray(p, n, left) \/ \E key \in Keys : AddItemReferenceToObject(p, key, n, left)
  \/ \E item \in held :
       /\ p \notin Tree(item)
       /\ \/ AddItemToArray(p, item) \/ AddItemFails(p, item)
          \/ \E index \in 0 .. 2 : InsertItemInArray(p, index, item) \/ ReplaceItemInArray(p, index, item)
          \/ \E key \in Keys, flag \in BOOLEAN :
               AddItemToObject(p, key, item, flag) \/ ReplaceItemInObject(p, key, item, flag)
  \/ \E item \in Finds(p) : Detach(p, item) \/ DetachAndDelete(p, item)

Edit ==
  /\ at \in {"parsed", "edited"} /\ text \in EditedTexts /\ calls < CallLimit
  /\ EditNew \/ (\E p \in Parents : EditBelow(p)) \/ (\E item \in held : Delete(item))

EditNext == Parse \/ Edit

EditSpec == EditInit /\ [][EditNext]_editVars

=============================================================================
