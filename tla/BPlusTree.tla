------------------------------ MODULE BPlusTree ------------------------------
(***************************************************************************)
(* class BPlusTree (src/src/core/btree.h, btree.cpp): a B+ tree of pages,  *)
(* with insert, find and select_cell.  Keys are never deleted.             *)
(*                                                                         *)
(* insert is one call of a single thread, but it is modelled step by step: *)
(* one step per level it descends and one per level the overflow climbs.   *)
(* Between two steps the tree is in exactly the intermediate form the code *)
(* leaves it in, which is what allocate_page writes metadata against and   *)
(* what a process that dies half way leaves behind.                        *)
(*                                                                         *)
(* pages[p] is the content of page p as get_page(p) would return it;       *)
(* module Pager is about where that content lives.                         *)
(***************************************************************************)
EXTENDS BtreeNode, FiniteSets

CONSTANTS
  UINT32_MAX,          \* the largest key
  Row,                 \* what a cell stores beside its key
  SelectRange,         \* the <<min_val, max_val>> pairs clients select
  TABLE_MAX_PAGES,     \* bound: slots of the pager's page array
  num_max_cell,        \* cells that fit a leaf page
  num_max_keys,        \* keys that fit an inner page
  leaf_load,           \* BPlusTree's constructor arguments: the number of
  inner_node_load,     \*   cells / keys at which a node counts as full
  FreshRootByte,       \* what the root byte of a malloc'ed page may read as
  NODE_PARENT_INVALID, \* the root's parent pointer
  Unwritten,           \* a parent pointer nothing was written to
  NoPage               \* the content of a page that holds no node

(***************************************************************************)
(* Loads and capacities are positive and even: both node constructors      *)
(* round down to even, and set_node_load asserts it.                       *)
(***************************************************************************)
LoadType == {n \in Nat : n > 0 /\ n % 2 = 0}

ASSUME LoadAssumption ==
  /\ num_max_cell \in LoadType /\ num_max_keys \in LoadType
  /\ leaf_load \in LoadType /\ inner_node_load \in LoadType

ASSUME PageAssumption ==
  /\ TABLE_MAX_PAGES \in Nat \ {0}
  /\ NODE_PARENT_INVALID \notin 0 .. TABLE_MAX_PAGES - 1
  /\ Unwritten \notin 0 .. TABLE_MAX_PAGES - 1
  /\ Unwritten # NODE_PARENT_INVALID

ASSUME InputAssumption ==
  /\ UINT32_MAX \in Nat
  /\ SelectRange \subseteq (0 .. UINT32_MAX) \X (0 .. UINT32_MAX)
  /\ FreshRootByte \subseteq BOOLEAN

VARIABLES
  pages,      \* the content of every page
  root_pid,   \* BtreeMetaData::root_pid
  num_pages,  \* BtreeMetaData::num_pages
  call,       \* the locals of the insert in progress
  reply       \* what the last finished call returned, and for which range

vars == <<pages, root_pid, num_pages, call, reply>>

Key == 0 .. UINT32_MAX
PageId == 0 .. TABLE_MAX_PAGES - 1
ParentPointer == PageId \cup {NODE_PARENT_INVALID, Unwritten}

\* The pages that hold a node.  A page that an earlier session only counted
\* holds none (module Database).
Allocated == {p \in PageId : pages[p] # NoPage}

LeafLoad == IF num_max_cell < leaf_load THEN num_max_cell ELSE leaf_load
InnerLoad ==
  IF num_max_keys < inner_node_load THEN num_max_keys ELSE inner_node_load

Idle == [pc |-> "idle"]
Find(key, row, page_id) ==
  [pc |-> "find", key |-> key, row |-> row, page_id |-> page_id]
Climb(key_upward, left, right, parent) ==
  [pc |-> "climb", key_upward |-> key_upward,
   left |-> left, right |-> right, parent |-> parent]

Reply(status) == [status |-> status]
NoReply == Reply("NONE")
Selected(min_val, max_val, cells) ==
  [status |-> "SELECTED", range |-> <<min_val, max_val>>, cells |-> cells]

(***************************************************************************)
(* The state after the constructor with mode 'c': one empty leaf, which is *)
(* the root.                                                               *)
(***************************************************************************)
Init ==
  /\ pages = [p \in PageId |-> IF p = 0
                THEN LeafNode(TRUE, NODE_PARENT_INVALID, <<>>, <<>>)
                ELSE NoPage]
  /\ root_pid = 0
  /\ num_pages = 1
  /\ call = Idle
  /\ reply = NoReply

(***************************************************************************)
(* A client calls insert(key, row); find starts at the root.               *)
(***************************************************************************)
Insert(key, row) ==
  /\ call = Idle
  /\ call' = Find(key, row, root_pid)
  /\ reply' = NoReply
  /\ UNCHANGED <<pages, root_pid, num_pages>>

(***************************************************************************)
(* One turn of find's loop.                                                *)
(***************************************************************************)
Descend ==
  /\ call.pc = "find"
  /\ LET node == pages[call.page_id] IN
     /\ node.kind = "inner"
     /\ \E pos \in 0 .. Len(node.keys) :
          /\ IsKeyPosition(node.keys, call.key, pos)
          /\ call' = [call EXCEPT
               !.page_id = node.children[ChildSlot(node.keys, call.key, pos)]]
  /\ UNCHANGED <<pages, root_pid, num_pages, reply>>

(***************************************************************************)
(* The end of find: `pos' is where the key is, or after which it belongs.  *)
(***************************************************************************)
AtLeaf(pos) ==
  /\ call.pc = "find"
  /\ pages[call.page_id].kind = "leaf"
  /\ IsKeyPosition(pages[call.page_id].keys, call.key, pos)

LeafPositions ==
  IF call.pc = "find" THEN 0 .. Len(pages[call.page_id].keys) ELSE {}

IsDuplicate(pos) == HasKeyAt(pages[call.page_id].keys, call.key, pos)
LeafIsFull == Len(pages[call.page_id].keys) = LeafLoad

Return(status) ==
  /\ call' = Idle
  /\ reply' = Reply(status)

RejectDuplicate ==
  /\ \E pos \in LeafPositions : AtLeaf(pos) /\ IsDuplicate(pos)
  /\ Return("FAIL_DUPLICATE_KEY")
  /\ UNCHANGED <<pages, root_pid, num_pages>>

LeafInsert ==
  /\ \E pos \in LeafPositions :
       /\ AtLeaf(pos) /\ ~IsDuplicate(pos) /\ ~LeafIsFull
       /\ pages' = [pages EXCEPT
            ![call.page_id] = LeafWithCell(@, call.key, call.row, pos)]
  /\ Return("SUCCESS")
  /\ UNCHANGED <<root_pid, num_pages>>

(***************************************************************************)
(* The leaf is full: half of its cells move to a new page.  The largest    *)
(* key that stays goes up, between the two leaves.                         *)
(***************************************************************************)
LeafSplit ==
  /\ num_pages < TABLE_MAX_PAGES
  /\ \E pos \in LeafPositions, byte \in FreshRootByte :
       /\ AtLeaf(pos) /\ ~IsDuplicate(pos) /\ LeafIsFull
       /\ LET page == call.page_id
              over == LeafWithCell(pages[page], call.key, call.row, pos)
          IN  /\ pages' = [pages EXCEPT
                   ![page]      = LeftLeaf(over, LeafLoad),
                   ![num_pages] = RightLeaf(over, LeafLoad, byte, Unwritten)]
              /\ call' = Climb(KeyUpward(over, LeafLoad), page, num_pages,
                               pages[page].parent)
  /\ num_pages' = num_pages + 1
  /\ UNCHANGED <<root_pid, reply>>

(***************************************************************************)
(* insert's while loop: <<left, key_upward, right>> enters the parent of   *)
(* the page that was split.                                                *)
(***************************************************************************)
AtParent(pos) ==
  /\ call.pc = "climb"
  /\ call.parent # NODE_PARENT_INVALID
  /\ IsKeyPosition(pages[call.parent].keys, call.key_upward, pos)

ParentPositions ==
  IF call.pc = "climb" /\ call.parent # NODE_PARENT_INVALID
  THEN 0 .. Len(pages[call.parent].keys) ELSE {}

ParentIsFull == Len(pages[call.parent].keys) = InnerLoad

ParentInsert ==
  /\ \E pos \in ParentPositions :
       /\ AtParent(pos) /\ ~ParentIsFull
       /\ pages' = [pages EXCEPT
            ![call.parent] = InnerWithKey(@, call.key_upward, call.right, pos),
            ![call.right].parent = call.parent]
  /\ Return("SUCCESS")
  /\ UNCHANGED <<root_pid, num_pages>>

(***************************************************************************)
(* Which half of a split parent the two children belong to, decided by     *)
(* comparing the inserted key with the pivot, and the loop after it that   *)
(* points every child of the new page back at the new page.                *)
(***************************************************************************)
LeftHome(pivot, new) == IF call.key_upward > pivot THEN new ELSE call.parent
RightHomeNew(pivot, new) == new
RightHome(pivot, new) == IF call.key_upward < pivot THEN call.parent ELSE new

RelinkedNone(ps, new) == ps

RelinkedButLast(ps, new) ==   \* r < num_keys()
  LET moved == {ps[new].children[i] : i \in 1 .. Len(ps[new].keys)}
  IN  [p \in PageId |-> IF p \in moved THEN [ps[p] EXCEPT !.parent = new]
                                       ELSE ps[p]]

Relinked(ps, new) ==
  LET moved == {ps[new].children[i] : i \in 1 .. Len(ps[new].children)}
  IN  [p \in PageId |-> IF p \in moved THEN [ps[p] EXCEPT !.parent = new]
                                       ELSE ps[p]]

(***************************************************************************)
(* The end of the loop's body: the halves of the parent are the next pair. *)
(***************************************************************************)
NextLevelOldRight(ps, pivot, new) ==
  Climb(pivot, call.parent, call.right, ps[call.parent].parent)

NextLevel(ps, pivot, new) ==
  Climb(pivot, call.parent, new, ps[call.parent].parent)

ParentSplit ==
  /\ num_pages < TABLE_MAX_PAGES
  /\ \E pos \in ParentPositions, byte \in FreshRootByte :
       /\ AtParent(pos) /\ ParentIsFull
       /\ LET parent == call.parent
              over  == InnerWithKey(pages[parent], call.key_upward,
                                    call.right, pos)
              pivot == Pivot(over, InnerLoad)
              split == [pages EXCEPT
                 ![parent]    = LeftInner(over, InnerLoad),
                 ![num_pages] = RightInner(over, InnerLoad, byte, Unwritten)]
              linked == [split EXCEPT
                 ![call.left].parent  = LeftHome(pivot, num_pages),
                 ![call.right].parent = RightHome(pivot, num_pages)]
          IN  /\ pages' = Relinked(linked, num_pages)
              /\ call' = NextLevel(pages', pivot, num_pages)
  /\ num_pages' = num_pages + 1
  /\ UNCHANGED <<root_pid, reply>>

(***************************************************************************)
(* The root itself was split: a new root gets the two halves as children.  *)
(* UpdateRoot is BPlusTree::update_root.                                   *)
(***************************************************************************)
UpdateRootKeepOld(ps, page_id) ==
  [ps EXCEPT ![page_id].is_root = TRUE,
             ![page_id].parent  = NODE_PARENT_INVALID]

UpdateRootNoByte(ps, page_id) ==
  [ps EXCEPT ![root_pid].is_root = FALSE,
             ![page_id].parent   = NODE_PARENT_INVALID]

UpdateRoot(ps, page_id) ==
  [ps EXCEPT ![root_pid].is_root = FALSE,
             ![page_id].is_root  = TRUE,
             ![page_id].parent   = NODE_PARENT_INVALID]

NewRoot ==
  /\ call.pc = "climb"
  /\ call.parent = NODE_PARENT_INVALID
  /\ num_pages < TABLE_MAX_PAGES
  /\ \E byte \in FreshRootByte :
       LET linked == [pages EXCEPT
             ![num_pages] = InternalNode(byte, Unwritten, <<call.key_upward>>,
                                         <<call.left, call.right>>),
             ![call.left].parent  = num_pages,
             ![call.right].parent = num_pages]
       IN  pages' = UpdateRoot(linked, num_pages)
  /\ root_pid' = num_pages
  /\ num_pages' = num_pages + 1
  /\ Return("SUCCESS")

(***************************************************************************)
(* select_cell: post_order_visit with an action for leaf cells.  The loops *)
(* over the keys of an inner node leave out the children whose keys are    *)
(* all below min_key or all above max_key.  The recursion is a function of *)
(* the level: a visit never goes deeper than there are pages.              *)
(***************************************************************************)
FirstChild(keys, min_key) ==
  1 + Cardinality({i \in 1 .. Len(keys) : keys[i] < min_key})

LastChildStrict(keys, max_key) ==
  Cardinality({i \in 1 .. Len(keys) : keys[i] < max_key})

LastChild(keys, max_key) ==
  1 + Cardinality({i \in 1 .. Len(keys) : keys[i] < max_key})

Cell(key, row) == [key |-> key, row |-> row]

CellsInLeaf(node, min_key, max_key) ==
  FlattenSeq([i \in 1 .. Len(node.keys) |->
    IF min_key <= node.keys[i] /\ node.keys[i] <= max_key
    THEN <<Cell(node.keys[i], node.rows[i])>> ELSE <<>>])

CellsInChildren(node, min_key, max_key, deeper) ==
  LET first == FirstChild(node.keys, min_key)
      last  == LastChild(node.keys, max_key)
  IN  FlattenSeq([i \in 1 .. last - first + 1 |->
                    deeper[node.children[first + i - 1]]])

CellsFrom(min_key, max_key, deeper) ==
  [p \in Allocated |->
     IF pages[p].keys = <<>> THEN <<>>
     ELSE IF pages[p].kind = "leaf" THEN CellsInLeaf(pages[p], min_key, max_key)
     ELSE CellsInChildren(pages[p], min_key, max_key, deeper)]

CellsBelow(min_key, max_key) ==
  LET cells[level \in 0 .. num_pages] ==
        IF level = 0 THEN [p \in Allocated |-> <<>>]
        ELSE CellsFrom(min_key, max_key, cells[level - 1])
  IN  cells[num_pages]

SelectCell(min_val, max_val) ==
  IF min_val > max_val THEN <<>> ELSE CellsBelow(min_val, max_val)[root_pid]

Select(min_val, max_val) ==
  /\ call = Idle
  /\ reply' = Selected(min_val, max_val, SelectCell(min_val, max_val))
  /\ UNCHANGED <<pages, root_pid, num_pages, call>>

Step ==
  \/ Descend \/ RejectDuplicate \/ LeafInsert \/ LeafSplit
  \/ ParentInsert \/ ParentSplit \/ NewRoot

Next ==
  \/ \E key \in Key, row \in Row : Insert(key, row)
  \/ \E range \in SelectRange : Select(range[1], range[2])
  \/ Step

Spec == Init /\ [][Next]_vars

(***************************************************************************)
(* insert runs in the only thread of the program and waits for nothing, so *)
(* its next step is always taken.  Clients may stop calling at any time.   *)
(***************************************************************************)
FairSpec == Spec /\ WF_vars(Step)
------------------------------------------------------------------------------
(***************************************************************************)
(* BPlusTree::check_valid: TRUE where it returns true, FALSE where it      *)
(* throws.  It looks at inner nodes only.                                  *)
(***************************************************************************)
InnerPages == {p \in Allocated : pages[p].kind = "inner"}
LeafPages == {p \in Allocated : pages[p].kind = "leaf"}

CheckValidNode(p) ==
  LET node == pages[p] IN
  /\ IF p = root_pid
     THEN node.is_root /\ node.parent = NODE_PARENT_INVALID
     ELSE ~node.is_root /\ node.parent # NODE_PARENT_INVALID
  /\ ~node.is_root => Len(node.keys) * 2 >= inner_node_load
  /\ IsIncreasing(node.keys)
  /\ \A i \in 1 .. Len(node.keys) :
       LET lchild == pages[node.children[i]]
           rchild == pages[node.children[i + 1]]
       IN  /\ lchild.parent = p /\ rchild.parent = p
           /\ Last(lchild.keys) <= node.keys[i]
           /\ node.keys[i] < Head(rchild.keys)

CheckValid == \A p \in InnerPages : CheckValidNode(p)
------------------------------------------------------------------------------
(***************************************************************************)
(* Types.  An inner node has one child more than keys.                     *)
(***************************************************************************)
Node ==
  [kind : {"leaf", "inner"}, is_root : BOOLEAN, parent : ParentPointer,
   keys : Seq(Key), rows : Seq(Row), children : Seq(PageId)]

IsNode(node, allocated) ==
  /\ node \in Node
  /\ node.children \in Seq(allocated)
  /\ node.kind = "leaf"  => Len(node.rows) = Len(node.keys)
  /\ node.kind = "inner" => Len(node.children) = Len(node.keys) + 1

ASSUME NoPageAssumption == NoPage \notin Node

ArePages(ps, n) ==
  /\ ps \in [PageId -> Node \cup {NoPage}]
  /\ \A p \in PageId : IF p < n THEN IsNode(ps[p], 0 .. n - 1)
                               ELSE ps[p] = NoPage

Call ==
  [pc : {"idle"}]
    \cup [pc : {"find"}, key : Key, row : Row, page_id : Allocated]
    \cup [pc : {"climb"}, key_upward : Key, left : Allocated, right : Allocated,
          parent : Allocated \cup {NODE_PARENT_INVALID}]

(***************************************************************************)
(* Type invariant: pages below num_pages hold well-formed nodes, the       *)
(* others nothing, and every page number in use is an allocated one.       *)
(***************************************************************************)
TypeOK ==
  /\ num_pages \in 1 .. TABLE_MAX_PAGES
  /\ root_pid \in Allocated
  /\ ArePages(pages, num_pages)
  /\ call \in Call
  /\ reply.status \in {"NONE", "SUCCESS", "FAIL_DUPLICATE_KEY", "SELECTED"}
------------------------------------------------------------------------------
(***************************************************************************)
(* Safety.  The tree is reachable from root_pid, except that while an      *)
(* insert climbs, the page that was split off last (and what is below it)  *)
(* hangs in the air: its id is only in the local variable `right'.         *)
(***************************************************************************)
Pending == IF call.pc = "climb" THEN {call.right} ELSE {}

ChildLinks ==
  UNION {{p} \X (1 .. Len(pages[p].children)) : p \in InnerPages}
ChildAt(link) == pages[link[1]].children[link[2]]

(***************************************************************************)
(* Every allocated page except the root and the pending one is the child   *)
(* of exactly one slot of one node: no page is lost by a split and none is *)
(* shared (insert_and_split, allocate_page).                               *)
(***************************************************************************)
EveryPageLinkedOnce ==
  /\ {ChildAt(link) : link \in ChildLinks} = Allocated \ ({root_pid} \cup Pending)
  /\ \A l1, l2 \in ChildLinks : ChildAt(l1) = ChildAt(l2) => l1 = l2

(***************************************************************************)
(* Between any two steps of an insert each child points back at the node   *)
(* that holds it, the root alone has an invalid parent, and the climb      *)
(* continues exactly where the parent pointer of the left half says.  The  *)
(* next overflow finds its way up through these pointers only              *)
(* (btree.cpp:121, 175).                                                   *)
(***************************************************************************)
ParentLinks ==
  /\ \A link \in ChildLinks : pages[ChildAt(link)].parent = link[1]
  /\ call.pc # "climb" => pages[root_pid].parent = NODE_PARENT_INVALID
  /\ call.pc = "climb" => /\ pages[call.left].parent = call.parent
                          /\ call.left = root_pid
                               <=> call.parent = NODE_PARENT_INVALID

(***************************************************************************)
(* Only the root page has its root byte set, if malloc'ed pages start with *)
(* a zero byte there (check_valid, btree.cpp:358-359).                     *)
(***************************************************************************)
RootByteOnlyOnRoot ==
  {p \in Allocated : pages[p].is_root} = {root_pid}

(***************************************************************************)
(* The distances of the leaves below every page, and the keys below it.    *)
(* Both are computed level by level, from the pages one level down; no     *)
(* path is longer than there are pages, so num_pages levels reach every    *)
(* leaf, and they are defined for a malformed tree as well.                *)
(***************************************************************************)
ChildPages(p) == {pages[p].children[i] : i \in 1 .. Len(pages[p].children)}

DepthsFrom(deeper) ==
  [p \in Allocated |->
     IF pages[p].kind = "leaf" THEN {0}
     ELSE UNION {{d + 1 : d \in deeper[c]} : c \in ChildPages(p)}]

LeafDepths ==
  LET depths[level \in 0 .. num_pages] ==
        IF level = 0 THEN [p \in Allocated |-> {}] ELSE DepthsFrom(depths[level - 1])
  IN  depths[num_pages]

KeysFrom(deeper) ==
  [p \in Allocated |->
     IF pages[p].kind = "leaf" THEN ToSet(pages[p].keys)
     ELSE UNION {deeper[c] : c \in ChildPages(p)}]

KeysBelow ==
  LET below[level \in 0 .. num_pages] ==
        IF level = 0 THEN [p \in Allocated |-> {}] ELSE KeysFrom(below[level - 1])
  IN  below[num_pages]

(***************************************************************************)
(* The tree is balanced: all leaves are equally far from the root, and the *)
(* pending half is exactly as high as its sibling (insert, btree.cpp:123). *)
(***************************************************************************)
Balanced ==
  /\ Cardinality(LeafDepths[root_pid]) = 1
  /\ call.pc = "climb" => LeafDepths[call.left] = LeafDepths[call.right]

(***************************************************************************)
(* No node ever holds more than its load, which is what `isFull' (an       *)
(* equality test) and the assertions num_cells() < num_max_cell and        *)
(* id < num_max_keys rely on (btree.h:290, 311, 488), and every node but   *)
(* the root is at least half full (is_half_loaded, btree.h:122).           *)
(***************************************************************************)
LoadOf(p) == IF pages[p].kind = "leaf" THEN LeafLoad ELSE InnerLoad

LoadsWithinBounds ==
  \A p \in Allocated :
    /\ Len(pages[p].keys) <= LoadOf(p)
    /\ p # root_pid => 2 * Len(pages[p].keys) >= LoadOf(p)

(***************************************************************************)
(* "for each inner node max(child_i) <= key_i < min(child_(i+1))"          *)
(* (btree.h:750), for whole subtrees and between the steps of an insert:   *)
(* the key on its way up separates the two halves, and the pending half    *)
(* already respects the separator that will follow it.                     *)
(***************************************************************************)
Separates(below, key, left, right) ==
  /\ \A k \in below[left]  : k <= key
  /\ \A k \in below[right] : key < k

SeparatorsBound ==
  LET below == KeysBelow IN
  /\ \A p \in InnerPages : \A i \in 1 .. Len(pages[p].keys) :
       Separates(below, pages[p].keys[i],
                 pages[p].children[i], pages[p].children[i + 1])
  /\ call.pc = "climb" =>
       /\ Separates(below, call.key_upward, call.left, call.right)
       /\ \A link \in ChildLinks :
            ChildAt(link) = call.left /\ link[2] <= Len(pages[link[1]].keys)
              => \A k \in below[call.right] : k <= pages[link[1]].keys[link[2]]

(***************************************************************************)
(* The assertions of the code never fail: find never searches an empty     *)
(* node (btree.h:75); the left half still has the parent that is being     *)
(* updated (btree.cpp:134); the key moving up is not in the parent yet     *)
(* (btree.h:543, 586), and the slot it goes to is right after the left     *)
(* half (btree.h:558, 645, 651).                                           *)
(***************************************************************************)
AssertionsHold ==
  /\ call.pc = "find" =>
       call.page_id = root_pid \/ pages[call.page_id].keys # <<>>
  /\ call.pc = "climb" /\ call.parent # NODE_PARENT_INVALID =>
       LET node == pages[call.parent] IN
       /\ node.kind = "inner"
       /\ pages[call.left].parent = call.parent
       /\ \A i \in 1 .. Len(node.keys) : node.keys[i] # call.key_upward
       /\ \A pos \in 0 .. Len(node.keys) :
            IsKeyPosition(node.keys, call.key_upward, pos)
              => node.children[pos + 1] = call.left

(***************************************************************************)
(* Whenever no insert is running, the program's own check_valid returns    *)
(* true, as the tests expect after every insertion (btree_logic_tests.cpp).  *)
(***************************************************************************)
CheckValidAccepts == call = Idle => CheckValid

(***************************************************************************)
(* Every insert that was called comes back with an answer.                 *)
(***************************************************************************)
InsertReturns == call.pc # "idle" ~> call = Idle
------------------------------------------------------------------------------
(***************************************************************************)
(* The tree is an ordered map: a row is stored the moment its leaf is      *)
(* written, even while the split that followed is still on its way up.     *)
(***************************************************************************)
CellsOf(node) == {Cell(node.keys[i], node.rows[i]) : i \in 1 .. Len(node.keys)}

StoredRows == UNION {CellsOf(pages[p]) : p \in LeafPages}

MapRequest ==
  CASE call.pc = "idle"  -> [state |-> "none"]
    [] call.pc = "find"  -> [state |-> "asked", cell |-> Cell(call.key, call.row)]
    [] call.pc = "climb" -> [state |-> "stored"]

Map == INSTANCE OrderedMap WITH rows <- StoredRows, request <- MapRequest

(***************************************************************************)
(* The tree implements the map: no insertion order, duplicate or split     *)
(* loses a row, stores a key twice, makes a key unreachable for find, or   *)
(* makes select_cell miss a row, return one twice or out of order.         *)
(***************************************************************************)
ImplementsOrderedMap == Map!Spec
==============================================================================
