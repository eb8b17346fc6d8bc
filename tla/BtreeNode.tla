------------------------------ MODULE BtreeNode ------------------------------
(***************************************************************************)
(* The nodes of the B+ tree (src/src/core/btree.h): LeafNode and           *)
(* InternalNode, laid out in one page each.                                *)
(*                                                                         *)
(* A node is a record.  `keys' are the keys of the page in slot order; a   *)
(* leaf pairs keys[i] with rows[i], an inner node has children[i] to the   *)
(* left of keys[i] and one child more than keys.  Slots beyond num_cells / *)
(* num_keys are not part of the record: the code never reads them.  Slots  *)
(* are numbered from 1 here and from 0 in the code, so that the -1 which   *)
(* search_key_position returns below the first key is position 0.          *)
(***************************************************************************)
EXTENDS Integers, Sequences, SequencesExt

(***************************************************************************)
(* Node constructors.  The constructors of the code set the node type and  *)
(* the number of keys; the parent pointer and the root byte keep whatever  *)
(* the page held before, so both are parameters.                           *)
(***************************************************************************)
LeafNode(is_root, parent, keys, rows) ==
  [kind |-> "leaf", is_root |-> is_root, parent |-> parent,
   keys |-> keys, rows |-> rows, children |-> <<>>]

InternalNode(is_root, parent, keys, children) ==
  [kind |-> "inner", is_root |-> is_root, parent |-> parent,
   keys |-> keys, rows |-> <<>>, children |-> children]

(***************************************************************************)
(* BtreeNode::search_key_position: pos is the last slot whose key is not   *)
(* above `key', 0 if there is none.  In a sorted node there is exactly one.*)
(***************************************************************************)
IsKeyPositionAtEnds(keys, key, pos) ==   \* `start = mid' never ends in between
  /\ pos \in {0} \cup {i \in 1 .. Len(keys) : keys[i] = key}
  /\ \A i \in 1 .. pos : keys[i] <= key
  /\ \A i \in (pos + 1) .. Len(keys) : key < keys[i]

IsKeyPosition(keys, key, pos) ==
  /\ pos \in 0 .. Len(keys)
  /\ \A i \in 1 .. pos : keys[i] <= key
  /\ \A i \in (pos + 1) .. Len(keys) : key < keys[i]

HasKeyAt(keys, key, pos) == pos > 0 /\ keys[pos] = key

(***************************************************************************)
(* The child that find descends into: a key equal to a separator lives on  *)
(* the left of it.                                                         *)
(***************************************************************************)
ChildSlotRightOfEqual(keys, key, pos) == pos + 1

ChildSlot(keys, key, pos) == IF HasKeyAt(keys, key, pos) THEN pos ELSE pos + 1

(***************************************************************************)
(* LeafNode::insert and the insertion half of LeafNode::insert_and_split:  *)
(* later cells move up by one slot.                                        *)
(***************************************************************************)
LeafWithCell(node, key, row, pos) ==
  [node EXCEPT !.keys = InsertAt(@, pos + 1, key),
               !.rows = InsertAt(@, pos + 1, row)]

(***************************************************************************)
(* The two halves of an overfull leaf of n + 1 cells: n/2 + 1 stay, n/2    *)
(* move to the new page, whose parent pointer is not written yet.  The     *)
(* largest key that stays is the one that goes up.                         *)
(***************************************************************************)
LeftLoad(n) == n \div 2 + 1

LeftLeaf(over, n) ==
  [over EXCEPT !.keys = SubSeq(@, 1, LeftLoad(n)),
               !.rows = SubSeq(@, 1, LeftLoad(n))]

KeyUpwardOfRight(over, n) == over.keys[LeftLoad(n) + 1]

KeyUpward(over, n) == over.keys[LeftLoad(n)]

RightLeaf(over, n, is_root, parent) ==
  LeafNode(is_root, parent,
           SubSeq(over.keys, LeftLoad(n) + 1, n + 1),
           SubSeq(over.rows, LeftLoad(n) + 1, n + 1))

(***************************************************************************)
(* InternalNode::insert and the insertion half of its insert_and_split:    *)
(* `key' goes to slot pos + 1 and `right' becomes the child after it.      *)
(***************************************************************************)
InnerWithKey(node, key, right, pos) ==
  [node EXCEPT !.keys     = InsertAt(@, pos + 1, key),
               !.children = InsertAt(@, pos + 2, right)]

(***************************************************************************)
(* The halves of an overfull inner node of n + 1 keys: n/2 keys stay, the  *)
(* next one is the pivot that moves up, n/2 keys go to the new page.       *)
(***************************************************************************)
PivotSlotLow(n) == n \div 2

PivotSlot(n) == n \div 2 + 1

Pivot(over, n) == over.keys[PivotSlot(n)]

LeftInnerShort(over, n) ==
  [over EXCEPT !.keys     = SubSeq(@, 1, PivotSlot(n) - 1),
               !.children = SubSeq(@, 1, PivotSlot(n) - 1)]

LeftInner(over, n) ==
  [over EXCEPT !.keys     = SubSeq(@, 1, PivotSlot(n) - 1),
               !.children = SubSeq(@, 1, PivotSlot(n))]

RightInnerFromPivot(over, n, is_root, parent) ==
  InternalNode(is_root, parent,
               SubSeq(over.keys, PivotSlot(n) + 1, n + 1),
               SubSeq(over.children, PivotSlot(n), n + 1))

RightInner(over, n, is_root, parent) ==
  InternalNode(is_root, parent,
               SubSeq(over.keys, PivotSlot(n) + 1, n + 1),
               SubSeq(over.children, PivotSlot(n) + 1, n + 2))

(***************************************************************************)
(* BtreeNode::is_key_monotonic_increasing.                                 *)
(***************************************************************************)
IsIncreasing(keys) == \A i \in 1 .. Len(keys) - 1 : keys[i] < keys[i + 1]
==============================================================================
