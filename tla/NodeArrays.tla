----------------------------- MODULE NodeArrays ------------------------------
(***************************************************************************)
(* The loops of LeafNode and InternalNode (src/src/core/btree.h) that move *)
(* cells within a page and between two pages, and the binary search, one   *)
(* turn of a loop at a time.  Module BtreeNode says what their results     *)
(* are; this module shows that the loops compute them.                     *)
(*                                                                         *)
(* A page is an array of slots, numbered from 0 as in the code.  Slot j of *)
(* a leaf holds a key and its row; slot j of an inner node holds key j and *)
(* child j + 1, which the loops move together, and child 0 is the page's   *)
(* `head'.  What a row or a child is does not matter here: the old ones    *)
(* are numbered, the one that is inserted is New.                          *)
(***************************************************************************)
EXTENDS BtreeNode, FiniteSets

CONSTANTS
  Loads,   \* the loads of the nodes, num_max_cell or num_max_keys
  Key,
  New,     \* the row or right child that is inserted
  Junk     \* memory nothing was written to

ASSUME LoadsAssumption == Loads \subseteq {n \in Nat : n > 0 /\ n % 2 = 0}
ASSUME KeyAssumption == Key \subseteq Nat /\ IsFiniteSet(Key)

VARIABLES
  call,        \* the function, its arguments and the keys of its node
  pc,          \* where it is
  page,        \* the page it works on
  right,       \* new_page
  i,           \* the loop variable
  key_pos,     \* where the key belongs
  start, end,  \* the bounds of the binary search
  result       \* what it returned

search == <<start, end>>
vars == <<call, pc, page, right, i, key_pos, search, result>>

Cell(key, val) == [key |-> key, val |-> val]

(***************************************************************************)
(* A page with the keys of a set in order; the page of an empty set is as  *)
(* malloc returned it.                                                     *)
(***************************************************************************)
SortedKeys(keys) ==
  CHOOSE s \in [1 .. Cardinality(keys) -> keys] :
    \A a, b \in 1 .. Cardinality(keys) : a < b => s[a] < s[b]

PageOf(keys, load) ==
  LET sorted == SortedKeys(keys) IN
  [num |-> Len(sorted), head |-> IF keys = {} THEN Junk ELSE 0,
   cells |-> [j \in 0 .. load - 1 |->
     IF j < Len(sorted) THEN Cell(sorted[j + 1], j + 1) ELSE Cell(Junk, Junk)]]

(***************************************************************************)
(* Who calls what on which nodes: an insert on a node with room, a split   *)
(* on a full one, neither with a key that is there; a search on any node   *)
(* that is not empty.                                                      *)
(***************************************************************************)
Inserts == {"leaf_insert", "inner_insert"}
Splits == {"leaf_split", "inner_split"}

Call(fn, load, keys, key) == [fn |-> fn, load |-> load, keys |-> keys, key |-> key]

IsCall(c) ==
  \/ c.fn \in Inserts /\ Cardinality(c.keys) < c.load /\ c.key \notin c.keys
  \/ c.fn \in Splits  /\ Cardinality(c.keys) = c.load /\ c.key \notin c.keys
  \/ c.fn = "search"  /\ Cardinality(c.keys) \in 1 .. c.load

Calls ==
  {c \in [fn : Inserts \cup Splits \cup {"search"}, load : Loads,
          keys : SUBSET Key, key : Key] : IsCall(c)}

Init ==
  /\ call \in Calls
  /\ pc = "call"
  /\ page = PageOf(call.keys, call.load)
  /\ right = PageOf({}, call.load)
  /\ i = 0 /\ key_pos = 0 /\ start = 0 /\ end = 0 /\ result = 0

IsInner == call.fn \in {"inner_insert", "inner_split"}
KeyAt(j) == page.cells[j].key
ChildAt(p, j) == IF j = 0 THEN p.head ELSE p.cells[j - 1].val
LeftChild == Cardinality({k \in call.keys : k < call.key})

(***************************************************************************)
(* An assertion of the code is a guard: a call that fails one does not     *)
(* return.  get_cell wants a cell below num_cells, get_key of an inner     *)
(* node any id below num_max_keys.                                         *)
(***************************************************************************)
Accessible(p, j) == j \in 0 .. (IF IsInner THEN call.load ELSE p.num) - 1

(***************************************************************************)
(* insert of either node: one cell more, and cells move up one by one      *)
(* until slot i is the new key's.  (The inner node counts i from one lower.) *)
(***************************************************************************)
FillEmptyNode ==
  /\ pc = "call" /\ call.fn = "inner_insert" /\ page.num = 0
  /\ page' = [page EXCEPT !.num = 1, !.head = LeftChild,
                          !.cells[0] = Cell(call.key, New)]
  /\ pc' = "done"
  /\ UNCHANGED <<call, right, i, key_pos, search, result>>

CountCell ==
  /\ pc = "call" /\ call.fn \in Inserts
  /\ IsInner => page.num > 0
  /\ page' = [page EXCEPT !.num = @ + 1]
  /\ i' = page.num
  /\ pc' = "shift"
  /\ UNCHANGED <<call, right, key_pos, search, result>>

LargerBelow(j) == j >= 1 /\ KeyAt(j - 1) > call.key

ShiftCell ==
  /\ pc = "shift" /\ LargerBelow(i)
  /\ Accessible(page, i)
  /\ page' = [page EXCEPT !.cells[i] = page.cells[i - 1]]
  /\ i' = i - 1
  /\ UNCHANGED <<call, pc, right, key_pos, search, result>>

PlaceCell ==
  /\ pc = "shift" /\ ~LargerBelow(i)
  /\ Accessible(page, i)
  /\ IsInner => ChildAt(page, i) = LeftChild
  /\ page' = [page EXCEPT !.cells[i] = Cell(call.key, New)]
  /\ pc' = "done"
  /\ UNCHANGED <<call, right, i, key_pos, search, result>>

(***************************************************************************)
(* LeafNode::insert_and_split looks for the key's place from above.        *)
(***************************************************************************)
RightLoad(n) == n \div 2

StartMoving ==
  /\ i' = page.num - 1
  /\ right' = [right EXCEPT !.num = RightLoad(page.num)]
  /\ pc' = "move"
  /\ UNCHANGED <<call, page, search, result>>

ScanFromEnd ==
  /\ pc = "call" /\ call.fn = "leaf_split"
  /\ key_pos' = page.num
  /\ pc' = "scan"
  /\ UNCHANGED <<call, page, right, i, search, result>>

ScanDown ==
  /\ pc = "scan" /\ LargerBelow(key_pos)
  /\ key_pos' = key_pos - 1
  /\ UNCHANGED <<call, pc, page, right, i, search, result>>

ScanEnds ==
  /\ pc = "scan" /\ ~LargerBelow(key_pos)
  /\ IF key_pos = 0 THEN call.key < KeyAt(0) ELSE KeyAt(key_pos - 1) < call.key
  /\ StartMoving
  /\ UNCHANGED key_pos

(***************************************************************************)
(* BtreeNode::search_key_position, called by find and, through             *)
(* search_insert_location, by InternalNode::insert_and_split.              *)
(***************************************************************************)
StartSearch ==
  /\ pc = "call" /\ call.fn \in {"search", "inner_split"}
  /\ start' = 0
  /\ end' = page.num - 1
  /\ pc' = "search"
  /\ UNCHANGED <<call, page, right, i, key_pos, result>>

Mid == start + (end - start) \div 2
AboveMidSkipping == Mid + 2
AboveMid == Mid + 1
BelowMidIncluded == Mid
BelowMid == Mid - 1

SearchOn ==
  /\ pc = "search" /\ start <= end
  /\ \/ KeyAt(Mid) < call.key /\ start' = AboveMid /\ UNCHANGED end
     \/ KeyAt(Mid) > call.key /\ end' = BelowMid /\ UNCHANGED start
  /\ UNCHANGED <<call, pc, page, right, i, key_pos, result>>

SearchHit ==
  /\ pc = "search" /\ start <= end
  /\ KeyAt(Mid) = call.key
  /\ result' = Mid
  /\ pc' = "done"
  /\ UNCHANGED <<call, page, right, i, key_pos, search>>

NotFoundStart == start
NotFound == end

SearchMiss ==
  /\ pc = "search" /\ start = end + 1
  /\ \/ /\ call.fn = "search"
        /\ result' = NotFound
        /\ pc' = "done"
        /\ UNCHANGED <<call, page, right, i, key_pos, search>>
     \/ /\ call.fn = "inner_split"
        /\ key_pos' = NotFound + 1
        /\ StartMoving

(***************************************************************************)
(* insert_and_split of either node: every cell, the last one first, moves  *)
(* to the slot it has after the insertion, in this page or in the new one. *)
(* In an inner node the cell of the pivot leaves its key in the slot, and  *)
(* its child becomes the first one of the new page.                        *)
(***************************************************************************)
SlotAfterInsertLate == IF key_pos < i THEN i + 1 ELSE i
SlotAfterInsert == IF key_pos <= i THEN i + 1 ELSE i

IsPivot(idx) == IsInner /\ idx = LeftLoad(call.load) - 1

PutInHalf(idx, cell) ==
  LET left_load == LeftLoad(call.load) IN
  IF IsPivot(idx)
  THEN /\ page' = [page EXCEPT !.cells[idx].key = cell.key]
       /\ right' = [right EXCEPT !.head = cell.val]
  ELSE IF idx < left_load
  THEN /\ Accessible(page, idx)
       /\ page' = [page EXCEPT !.cells[idx] = cell]
       /\ UNCHANGED right
  ELSE /\ Accessible(right, idx - left_load)
       /\ right' = [right EXCEPT !.cells[idx - left_load] = cell]
       /\ UNCHANGED page

MoveCell ==
  /\ pc = "move" /\ i >= 0
  /\ PutInHalf(SlotAfterInsert, page.cells[i])
  /\ i' = i - 1
  /\ UNCHANGED <<call, pc, key_pos, search, result>>

(***************************************************************************)
(* Then the new cell; `left' must be the child before it.                  *)
(***************************************************************************)
PlaceInHalf ==
  /\ pc = "move" /\ i < 0
  /\ PutInHalf(key_pos, Cell(call.key, New))
  /\ LET left_load == LeftLoad(call.load) IN
     IsInner => LeftChild =
       IF key_pos < left_load THEN ChildAt(page', key_pos)
                              ELSE ChildAt(right', key_pos - left_load)
  /\ pc' = "cut"
  /\ UNCHANGED <<call, i, key_pos, search, result>>

Cut ==
  /\ pc = "cut"
  /\ LET left_load == LeftLoad(call.load) IN
     /\ page' = [page EXCEPT !.num = IF IsInner THEN left_load - 1 ELSE left_load]
     /\ result' = KeyAt(left_load - 1)
  /\ pc' = "done"
  /\ UNCHANGED <<call, right, i, key_pos, search>>

Next ==
  \/ FillEmptyNode \/ CountCell \/ ShiftCell \/ PlaceCell
  \/ ScanFromEnd \/ ScanDown \/ ScanEnds
  \/ StartSearch \/ SearchOn \/ SearchHit \/ SearchMiss
  \/ MoveCell \/ PlaceInHalf \/ Cut

(***************************************************************************)
(* The calls are loops on memory in the only thread of the program.        *)
(***************************************************************************)
Spec == Init /\ [][Next]_vars /\ WF_vars(Next)
------------------------------------------------------------------------------
(***************************************************************************)
(* Types: counters and indices stay within the page they index.            *)
(***************************************************************************)
Page(load) ==
  [num : 0 .. load, head : 0 .. load \cup {New, Junk},
   cells : [0 .. load - 1 -> [key : Key \cup {Junk},
                              val : 1 .. load \cup {New, Junk}]]]

NodeArraysTypeOK ==
  /\ call \in Calls
  /\ pc \in {"call", "shift", "scan", "search", "move", "cut", "done"}
  /\ page \in Page(call.load) /\ right \in Page(call.load)
  /\ i \in -1 .. call.load - 1
  /\ key_pos \in 0 .. call.load
  /\ start \in 0 .. call.load /\ end \in -1 .. call.load - 1

(***************************************************************************)
(* What is in the pages when a call returns is what module BtreeNode says, *)
(* for every place the key may belong: each key with its row or its right  *)
(* child, none lost, none twice, none taken from memory that was never     *)
(* written, and the right key goes up.                                     *)
(***************************************************************************)
Keys(p) == [j \in 1 .. p.num |-> p.cells[j - 1].key]
Rows(p) == [j \in 1 .. p.num |-> p.cells[j - 1].val]

Leaf(p) == LeafNode(FALSE, 0, Keys(p), Rows(p))
Children(p) == [j \in 1 .. p.num + 1 |-> ChildAt(p, j - 1)]
Inner(p) == InternalNode(FALSE, 0, Keys(p), Children(p))

Before == PageOf(call.keys, call.load)
PositionIn(keys) ==
  CHOOSE pos \in 0 .. Len(keys) : IsKeyPosition(keys, call.key, pos)

ComputesReference ==
  pc = "done" =>
    LET n == call.load
        pos == PositionIn(Keys(Before))
        over_leaf == LeafWithCell(Leaf(Before), call.key, New, pos)
        over_inner == InnerWithKey(Inner(Before), call.key, New, pos)
    IN  /\ call.fn = "leaf_insert" => Leaf(page) = over_leaf
        /\ call.fn = "leaf_split" =>
             /\ Leaf(page) = LeftLeaf(over_leaf, n)
             /\ Leaf(right) = RightLeaf(over_leaf, n, FALSE, 0)
             /\ result = KeyUpward(over_leaf, n)
        /\ call.fn = "inner_insert" =>
             Inner(page) = IF call.keys = {}
                           THEN InternalNode(FALSE, 0, <<call.key>>, <<0, New>>)
                           ELSE over_inner
        /\ call.fn = "inner_split" =>
             /\ Inner(page) = LeftInner(over_inner, n)
             /\ Inner(right) = RightInner(over_inner, n, FALSE, 0)
             /\ result = Pivot(over_inner, n)

(***************************************************************************)
(* search_key_position returns the slot of the key or, if it is not there, *)
(* the one before its place: -1 below the first key.                       *)
(***************************************************************************)
SearchFinds ==
  pc = "done" /\ call.fn = "search" => IsKeyPosition(Keys(page), call.key, result + 1)

(***************************************************************************)
(* Every call returns: its loops come to an end, the binary search for     *)
(* every key, and none of its assertions stops it: get_cell's (btree.h:251), *)
(* that a search that missed ends with start == end + 1 (btree.h:94), that *)
(* the scan found the key's place (btree.h:341), and that `left' is the    *)
(* child before the one inserted (btree.h:558, 645, 651).                  *)
(***************************************************************************)
Returns == <>(pc = "done")
==============================================================================
