--------------------------- MODULE BPlusTreeTheorems ---------------------------
(***************************************************************************)
(* What follows from the order of the tree (BPlusTreeOrderProofs), for any *)
(* keys, loads and number of pages: the invariants of BPlusTree, and that  *)
(* the tree implements OrderedMap.                                         *)
(***************************************************************************)
EXTENDS BPlusTreeOrderProofs, FiniteSetTheorems

\* What a shape says of the links of a node, and what it says of a page.
LEMMA Links ==
  ASSUME IndInv, NEW s, IsShape(s), NEW p \in InnerPages,
         NEW i \in 1 .. Len(pages[p].children)
  PROVE  LET c == pages[p].children[i] IN
         /\ p \in Allocated /\ pages[p].kind = "inner"
         /\ i \in 1 .. Len(pages[p].keys) + 1
         /\ c \in Allocated /\ c # p /\ c # root_pid
         /\ pages[c].parent = p /\ pages[c].parent # Unwritten
         /\ s.lo[c] = Lower(pages[p].keys, s.lo[p], i)
         /\ s.up[c] = Upper(pages[p].keys, s.hi[p], i)
<1>1. WellLinked(pages, Allocated, root_pid)
  BY PagesAreWellLinked DEF IndInv
<1>2. p \in Allocated /\ pages[p].kind = "inner"
  BY DEF InnerPages
<1>3. s \in Shapes /\ TreeShape(pages, Allocated, root_pid, s)
  BY DEF IsShape
<1>4. i \in 1 .. Len(pages[p].keys) + 1
  BY <1>1, <1>2, LinkedPage
<1> QED
  BY <1>1, <1>2, <1>3, <1>4, ShapeOfLink

LEMMA InvalidParent ==
  ASSUME IndInv, NEW s, IsShape(s)
  PROVE  pages[root_pid].parent = NODE_PARENT_INVALID
BY DEF IsShape, TreeShape, RootShape

(***************************************************************************)
(* Each child points back at the node that holds it, and a climb goes on   *)
(* at the parent of the left half, in every state of every insert, so that *)
(* an overflow always finds its way up (btree.cpp:121, 175).               *)
(***************************************************************************)
THEOREM ParentsLinked == Spec => []ParentLinks
<1>1. IndInv /\ ShapeInv => ParentLinks
  <2> SUFFICES ASSUME IndInv, ShapeInv PROVE ParentLinks
    OBVIOUS
  <2>1. PICK s : IsShape(s)
    BY DEF ShapeInv, IsShape
  <2>2. ASSUME NEW link \in ChildLinks
        PROVE  pages[ChildAt(link)].parent = link[1]
    <3>1. PICK p \in InnerPages : link \in {p} \X (1 .. Len(pages[p].children))
      BY DEF ChildLinks
    <3>2. link[1] = p /\ link[2] \in 1 .. Len(pages[p].children)
      BY <3>1
    <3> QED
      BY <2>1, <3>2, Links DEF ChildAt
  <2>3. pages[root_pid].parent = NODE_PARENT_INVALID
    BY <2>1, InvalidParent
  <2>4. ASSUME call.pc = "climb"
        PROVE  /\ pages[call.left].parent = call.parent
               /\ call.left = root_pid <=> call.parent = NODE_PARENT_INVALID
    <3>1. pages[call.left].parent = call.parent
      BY <2>1, <2>4 DEF IsShape, CallShape, ClimbShape
    <3> QED
      BY <2>3, <2>4, <3>1 DEF IndInv, ClimbInv
  <2> QED
    BY <2>2, <2>3, <2>4 DEF ParentLinks
<1> QED
  BY <1>1, Ordered, PTL

(***************************************************************************)
(* No page is lost by a split and none is shared: every allocated page but *)
(* the root and the pending one is in exactly one slot of one node         *)
(* (insert_and_split, allocate_page).                                      *)
(***************************************************************************)
THEOREM LinkedOnce == Spec => []EveryPageLinkedOnce
<1>1. IndInv /\ ShapeInv => EveryPageLinkedOnce
  <2> SUFFICES ASSUME IndInv, ShapeInv PROVE EveryPageLinkedOnce
    OBVIOUS
  <2>1. PICK s : IsShape(s)
    BY DEF ShapeInv, IsShape
  <2>2. /\ WellLinked(pages, Allocated, root_pid)
        /\ s \in Shapes /\ TreeShape(pages, Allocated, root_pid, s)
    BY <2>1, PagesAreWellLinked DEF IndInv, IsShape
  <2>3. ASSUME NEW link \in ChildLinks
        PROVE  /\ link = <<link[1], link[2]>> /\ link[1] \in InnerPages
               /\ link[2] \in 1 .. Len(pages[link[1]].children)
               /\ ChildAt(link) = pages[link[1]].children[link[2]]
    BY DEF ChildLinks, ChildAt
  <2>4. ASSUME NEW link \in ChildLinks
        PROVE  /\ ChildAt(link) \in Allocated \ ({root_pid} \cup Pending)
               /\ pages[ChildAt(link)].parent = link[1]
    <3>1. /\ ChildAt(link) \in Allocated /\ ChildAt(link) # root_pid
          /\ pages[ChildAt(link)].parent = link[1]
          /\ pages[ChildAt(link)].parent # Unwritten
      BY <2>1, <2>3, Links
    <3>2. call.pc = "climb" => pages[call.right].parent = Unwritten
      BY <2>1 DEF IsShape, CallShape, ClimbShape
    <3> QED
      BY <3>1, <3>2 DEF Pending
  <2>5. ASSUME NEW q \in Allocated \ ({root_pid} \cup Pending)
        PROVE  \E link \in ChildLinks : ChildAt(link) = q
    <3>1. q \in Allocated /\ q # root_pid /\ pages[q].parent # Unwritten
      BY DEF IndInv, OnlyPendingUnwritten
    <3>2. pages[q].parent \in InnerPages
      BY <2>2, <3>1, LinkedPage DEF InnerPages
    <3>3. PageShape(pages, root_pid, s, q)
      BY <2>2, <3>1, ShapeOfPage
    <3>4. PICK i \in 1 .. Len(pages[pages[q].parent].children) :
            pages[pages[q].parent].children[i] = q
      BY <3>1, <3>3 DEF PageShape, IsChild
    <3>5. <<pages[q].parent, i>> \in ChildLinks
      BY <3>2 DEF ChildLinks
    <3> QED
      BY <3>4, <3>5 DEF ChildAt
  <2>6. ASSUME NEW l1 \in ChildLinks, NEW l2 \in ChildLinks, ChildAt(l1) = ChildAt(l2)
        PROVE  l1 = l2
    <3>1. l1[1] = l2[1]
      BY <2>4, <2>6
    <3>2. l1[2] = l2[2]
      <4> DEFINE p == l1[1]
      <4>1. /\ p \in Allocated /\ pages[p].kind = "inner"
            /\ l1[2] \in 1 .. Len(pages[p].keys) + 1
            /\ l2[2] \in 1 .. Len(pages[p].keys) + 1
            /\ pages[p].children[l1[2]] = pages[p].children[l2[2]]
        BY <2>1, <2>3, <2>6, <3>1, Links
      <4> QED
        BY <2>2, <4>1, ChildOnce
    <3> QED
      BY <2>3, <3>1, <3>2
  <2> QED
    BY <2>4, <2>5, <2>6 DEF EveryPageLinkedOnce
<1> QED
  BY <1>1, Ordered, PTL

(***************************************************************************)
(* No assertion of the code fails in any insert: find never searches an    *)
(* empty node but the root, and the key on its way up is missing in the    *)
(* parent and belongs right after the left half (btree.h:75, 543, 586,     *)
(* 558, 645, 651; btree.cpp:134).                                          *)
(***************************************************************************)
THEOREM Assertions == Spec => []AssertionsHold
<1>1. IndInv /\ ShapeInv => AssertionsHold
  <2> SUFFICES ASSUME IndInv, ShapeInv PROVE AssertionsHold
    OBVIOUS
  <2>1. PICK s : IsShape(s)
    BY DEF ShapeInv, IsShape
  <2>2. ASSUME call.pc = "find", call.page_id # root_pid
        PROVE  pages[call.page_id].keys # <<>>
    <3>1. call.page_id \in Allocated
      BY <2>2, FindCall DEF IndInv
    <3>2. HalfLoaded(pages[call.page_id])
      BY <2>2, <3>1, PageFacts DEF PageInv
    <3>3. LoadOfKind(pages[call.page_id].kind) > 0
      BY LoadsAreEven, Halves DEF LoadOfKind
    <3>4. LoadOfKind(pages[call.page_id].kind) \in Nat
      BY LoadsAreEven, Halves DEF LoadOfKind
    <3>5. Len(pages[call.page_id].keys) # 0
      BY <3>2, <3>3, <3>4 DEF HalfLoaded
    <3> QED
      BY <3>5
  <2>3. ASSUME call.pc = "climb", call.parent # NODE_PARENT_INVALID
        PROVE  EntersAfterLeft(call, pages, root_pid, s)
               /\ pages[call.left].parent = call.parent
    <3>1. /\ s \in Shapes /\ ClimbShape(call, pages, s)
          /\ TreeShape(pages, Allocated, root_pid, s)
          /\ WellLinked(pages, Allocated, root_pid)
          /\ call.left \in Allocated /\ call.right \in Allocated
          /\ call.parent \in Allocated /\ call.key_upward \in Key
      BY <2>1, <2>3, ClimbingShape, ClimbCall DEF IndInv
    <3>2. EntersAfterLeft(call, pages, root_pid, s)
      BY <3>1, ClimbSlot
    <3> QED
      BY <3>1, <3>2 DEF ClimbShape
  <2> QED
    BY <2>2, <2>3 DEF AssertionsHold, EntersAfterLeft
<1> QED
  BY <1>1, Ordered, PTL

------------------------------------------------------------------------------
(***************************************************************************)
(* The root byte.  The constructors of the nodes do not write it, so the   *)
(* following holds only if malloc'ed pages start with a zero byte there;   *)
(* without that check_valid may refuse a correct tree.                     *)
(***************************************************************************)
RootByte == \A p \in Allocated : pages[p].is_root = (p = root_pid)

\* A node that is rewritten, and a list of children that is relinked, keep
\* their root bytes (the insert functions of btree.h never touch it).
LEMMA SameRootByte ==
  ASSUME NEW node \in Node
  PROVE  /\ \A key, row, pos : LeafWithCell(node, key, row, pos).is_root = node.is_root
         /\ \A n : LeftLeaf(node, n).is_root = node.is_root
         /\ \A key, right, pos : InnerWithKey(node, key, right, pos).is_root = node.is_root
         /\ \A n : LeftInner(node, n).is_root = node.is_root
BY DEF Node, LeafWithCell, LeftLeaf, InnerWithKey, LeftInner

LEMMA RelinkedRootByte ==
  ASSUME NEW ps, NEW new, NEW q \in PageId, "is_root" \in DOMAIN ps[q]
  PROVE  Relinked(ps, new)[q].is_root = ps[q].is_root
BY DEF Relinked

LEMMA InitRootByte ==
  ASSUME Init
  PROVE  RootByte
<1> DEFINE root == LeafNode(TRUE, NODE_PARENT_INVALID, <<>>, <<>>)
<1>1. 0 \in PageId /\ num_pages = 1 /\ root_pid = 0
  BY PageAssumption DEF Init, PageId
<1>2. pages = [p \in PageId |-> IF p = 0 THEN root ELSE NoPage]
  BY DEF Init
<1>3. root.is_root = TRUE
  BY DEF LeafNode
<1> HIDE DEF root
<1>4. pages[0].is_root = (0 = root_pid)
  <2>1. pages[0].is_root = TRUE
    BY <1>1, <1>2, <1>3
  <2>2. (0 = root_pid) = TRUE
    BY <1>1
  <2> QED
    BY <2>1, <2>2
<1>5. \A p \in Allocated : p = 0
  BY InitIndInv
<1> QED
  BY <1>4, <1>5 DEF RootByte

(***************************************************************************)
(* What a step does to the root bytes: nothing, or nothing but what is in  *)
(* the page it allocates, or the root moves to that page.                  *)
(***************************************************************************)
RootBytesKept == \A q \in Allocated : pages'[q].is_root = pages[q].is_root

SameRoot == PagesKept /\ root_pid' = root_pid /\ RootBytesKept

FreshPage ==
  /\ PageAdded /\ root_pid' = root_pid /\ RootBytesKept
  /\ pages'[num_pages].is_root \in FreshRootByte

RootMoved ==
  /\ PageAdded /\ root_pid' = num_pages
  /\ pages'[num_pages].is_root = TRUE
  /\ \A q \in Allocated :
       pages'[q].is_root = IF q = root_pid THEN FALSE ELSE pages[q].is_root

LEMMA RootByteKept ==
  ASSUME RootByte, SameRoot
  PROVE  RootByte'
BY DEF RootByte, SameRoot, RootBytesKept, PagesKept

LEMMA RootByteExtended ==
  ASSUME RootByte, IndInv, FreshPage, FreshRootByte = {FALSE}
  PROVE  RootByte'
<1> USE DEF FreshPage, RootBytesKept
<1>1. /\ root_pid \in Allocated /\ root_pid # num_pages
      /\ Allocated' = Allocated \cup {num_pages}
  BY NextPage DEF PageAdded
<1>2. SUFFICES ASSUME NEW q \in Allocated'
               PROVE  pages'[q].is_root = (q = root_pid')
  BY DEF RootByte
<1>3. CASE q = num_pages
  <2>1. pages'[q].is_root = FALSE
    BY <1>3
  <2>2. (q = root_pid') = FALSE
    BY <1>1, <1>3
  <2> QED
    BY <2>1, <2>2
<1>4. CASE q # num_pages
  <2>1. q \in Allocated
    BY <1>1, <1>4
  <2>2. pages'[q].is_root = pages[q].is_root
    BY <2>1
  <2> QED
    BY <2>1, <2>2 DEF RootByte
<1> QED
  BY <1>3, <1>4

LEMMA LeafInsertSameRoot ==
  ASSUME IndInv, LeafInsert
  PROVE  SameRoot
<1>1. PICK pos \in LeafPositions :
        /\ AtLeaf(pos)
        /\ pages' = [pages EXCEPT
             ![call.page_id] = LeafWithCell(@, call.key, call.row, pos)]
  BY DEF LeafInsert
<1>2. call.page_id \in Allocated
  BY <1>1, FindCall DEF AtLeaf, IndInv
<1>3. ASSUME NEW q \in Allocated
      PROVE  pages'[q].is_root = pages[q].is_root
  <2>1. q \in Allocated /\ pages[q] \in Node
    BY PageFacts
  <2>2. q = call.page_id => pages'[q] = LeafWithCell(pages[q], call.key, call.row, pos)
    BY <1>1, <2>1, PageFacts DEF IndInv, PagesInv
  <2>3. q # call.page_id => pages'[q] = pages[q]
    BY <1>1
  <2> QED
    BY <2>1, <2>2, <2>3, SameRootByte
<1> QED
  BY <1>3, LeafInsertStep DEF LeafInsert, SameRoot, RootBytesKept

LEMMA LeafSplitFreshPage ==
  ASSUME IndInv, LeafSplit
  PROVE  FreshPage
<1> DEFINE page == call.page_id
<1>1. PICK pos \in LeafPositions, byte \in FreshRootByte :
        LET over == LeafWithCell(pages[page], call.key, call.row, pos) IN
        /\ AtLeaf(pos)
        /\ pages' = [pages EXCEPT
             ![page]      = LeftLeaf(over, LeafLoad),
             ![num_pages] = RightLeaf(over, LeafLoad, byte, Unwritten)]
  BY DEF LeafSplit
<1> DEFINE over  == LeafWithCell(pages[page], call.key, call.row, pos)
           left  == LeftLeaf(over, LeafLoad)
           right == RightLeaf(over, LeafLoad, byte, Unwritten)
<1>2. /\ page \in Allocated /\ pages[page] \in Node
      /\ num_pages \in PageId /\ DOMAIN pages = PageId
      /\ \A q \in Allocated : q \in PageId /\ q # num_pages
  BY <1>1, FindCall, PageFacts, NextPage
     DEF AtLeaf, IndInv, PagesInv, LeafSplit
<1>3. left.is_root = pages[page].is_root
  BY <1>2 DEF LeafWithCell, LeftLeaf, Node
<1>4. right.is_root = byte
  BY DEF RightLeaf, LeafNode
<1>5. pages' = [pages EXCEPT ![page] = left, ![num_pages] = right]
  BY <1>1
<1> HIDE DEF left, right, over
<1>6. /\ pages'[num_pages].is_root = byte
      /\ \A q \in Allocated : pages'[q].is_root = pages[q].is_root
  BY <1>2, <1>3, <1>4, <1>5
<1> QED
  BY <1>6, LeafSplitStep DEF LeafSplit, FreshPage, RootBytesKept

LEMMA ParentInsertSameRoot ==
  ASSUME IndInv, ParentInsert
  PROVE  SameRoot
<1> DEFINE p == call.parent
           r == call.right
<1>1. PICK pos \in ParentPositions :
        /\ AtParent(pos)
        /\ pages' = [pages EXCEPT
             ![p] = InnerWithKey(@, call.key_upward, r, pos), ![r].parent = p]
  BY DEF ParentInsert
<1>2. /\ p \in Allocated /\ r \in Allocated
      /\ DOMAIN pages = PageId /\ p \in PageId /\ r \in PageId
  BY <1>1, ClimbCall, PageFacts DEF AtParent, IndInv, PagesInv
<1> DEFINE new == InnerWithKey(pages[p], call.key_upward, r, pos)
           mid == [pages EXCEPT ![p] = new]
<1>3. ASSUME NEW q \in Allocated
      PROVE  /\ q \in PageId /\ pages[q] \in Node
             /\ mid[q].is_root = pages[q].is_root /\ "is_root" \in DOMAIN mid[q]
  <2>1. q \in Allocated /\ q \in PageId /\ pages[q] \in Node
    BY PageFacts
  <2>2. q # p => mid[q] = pages[q]
    OBVIOUS
  <2>3. q = p => mid[q] = new
    BY <1>2
  <2> QED
    BY <2>1, <2>2, <2>3 DEF InnerWithKey, Node
<1>4. pages' = [mid EXCEPT ![r].parent = p]
  BY <1>1, <1>2
<1> HIDE DEF new, mid
<1>5. ASSUME NEW q \in Allocated
      PROVE  pages'[q].is_root = pages[q].is_root
  BY <1>2, <1>3, <1>4
<1> QED
  BY <1>5, ParentInsertStep DEF ParentInsert, SameRoot, RootBytesKept

LEMMA ParentSplitFreshPage ==
  ASSUME IndInv, ParentSplit
  PROVE  FreshPage
<1> DEFINE p == call.parent
           l == call.left
           r == call.right
           n == num_pages
<1>1. PICK pos \in ParentPositions, byte \in FreshRootByte :
        /\ AtParent(pos)
        /\ LET over  == InnerWithKey(pages[p], call.key_upward, r, pos)
               pivot == Pivot(over, InnerLoad)
               split == [pages EXCEPT
                  ![p] = LeftInner(over, InnerLoad),
                  ![n] = RightInner(over, InnerLoad, byte, Unwritten)]
               linked == [split EXCEPT ![l].parent = LeftHome(pivot, n),
                                       ![r].parent = RightHome(pivot, n)]
           IN  pages' = Relinked(linked, n)
  BY DEF ParentSplit
<1> DEFINE over  == InnerWithKey(pages[p], call.key_upward, r, pos)
           pivot == Pivot(over, InnerLoad)
           left  == LeftInner(over, InnerLoad)
           right == RightInner(over, InnerLoad, byte, Unwritten)
           toL   == LeftHome(pivot, n)
           toR   == RightHome(pivot, n)
           split == [pages EXCEPT ![p] = left, ![n] = right]
           half  == [split EXCEPT ![l].parent = toL]
           linked == [half EXCEPT ![r].parent = toR]
<1>2. /\ p \in Allocated /\ l \in Allocated /\ r \in Allocated /\ n \in PageId
      /\ pages[p] \in Node /\ DOMAIN pages = PageId
      /\ \A q \in Allocated : q \in PageId /\ q # n /\ pages[q] \in Node
  <2>1. p \in Allocated /\ l \in Allocated /\ r \in Allocated
    BY <1>1, ClimbCall DEF AtParent, IndInv
  <2>2. \A q \in Allocated : q \in PageId /\ pages[q] \in Node
    BY PageFacts
  <2>3. DOMAIN pages = PageId
    BY DEF IndInv, PagesInv
  <2>4. n \in PageId /\ \A q \in Allocated : q # n
    BY NextPage DEF ParentSplit
  <2>5. pages[p] \in Node
    BY <2>1, <2>2
  <2> HIDE DEF p, l, r, n
  <2> QED
    BY <2>1, <2>2, <2>3, <2>4, <2>5
<1>3. left.is_root = pages[p].is_root /\ "is_root" \in DOMAIN left
  BY <1>2 DEF InnerWithKey, LeftInner, Node
<1>4. right.is_root = byte /\ "is_root" \in DOMAIN right
  BY DEF RightInner, InternalNode
<1>5. pages' = Relinked(linked, n)
  BY <1>1
<1> HIDE DEF left, right, toL, toR
<1>6. /\ DOMAIN split = PageId /\ split[n] = right /\ split[p] = left
      /\ \A q \in Allocated : q # p => split[q] = pages[q]
  BY <1>2
<1> HIDE DEF split
<1>7. /\ DOMAIN half = PageId
      /\ \A q \in PageId : half[q] = IF q = l THEN [split[q] EXCEPT !.parent = toL]
                                              ELSE split[q]
  BY <1>6
<1> HIDE DEF half
<1>8. \A q \in PageId : linked[q] = IF q = r THEN [half[q] EXCEPT !.parent = toR]
                                            ELSE half[q]
  BY <1>7
<1> HIDE DEF linked
<1>9. ASSUME NEW q \in PageId, "is_root" \in DOMAIN split[q]
      PROVE  pages'[q].is_root = split[q].is_root
  <2>1. half[q].is_root = split[q].is_root /\ "is_root" \in DOMAIN half[q]
    BY <1>7, <1>9
  <2>2. linked[q].is_root = half[q].is_root /\ "is_root" \in DOMAIN linked[q]
    BY <1>8, <2>1
  <2> QED
    BY <1>5, <2>1, <2>2, RelinkedRootByte
<1>10. \A q \in Allocated : pages'[q].is_root = pages[q].is_root
  <2> TAKE q \in Allocated
  <2>1. "is_root" \in DOMAIN pages[q]
    BY <1>2 DEF Node
  <2> QED
    BY <1>2, <1>3, <1>6, <1>9, <2>1
<1>11. pages'[n].is_root = byte
  BY <1>2, <1>4, <1>6, <1>9
<1> QED
  BY <1>10, <1>11, ParentSplitStep DEF ParentSplit, FreshPage, RootBytesKept

LEMMA NewRootRootMoved ==
  ASSUME IndInv, NewRoot
  PROVE  RootMoved
<1> DEFINE l == call.left
           r == call.right
           n == num_pages
<1>1. PICK byte \in FreshRootByte :
        LET linked == [pages EXCEPT
              ![n] = InternalNode(byte, Unwritten, <<call.key_upward>>, <<l, r>>),
              ![l].parent = n, ![r].parent = n]
        IN  pages' = UpdateRoot(linked, n)
  BY DEF NewRoot
<1> DEFINE top    == InternalNode(byte, Unwritten, <<call.key_upward>>, <<l, r>>)
           more   == [pages EXCEPT ![n] = top]
           half   == [more EXCEPT ![l].parent = n]
           linked == [half EXCEPT ![r].parent = n]
           old    == [linked EXCEPT ![root_pid].is_root = FALSE]
           new    == [old EXCEPT ![n].is_root = TRUE]
<1>2. /\ root_pid \in Allocated /\ n \in PageId /\ root_pid' = n /\ DOMAIN pages = PageId
      /\ \A q \in Allocated : q \in PageId /\ q # n /\ pages[q] \in Node
  <2>1. \A q \in Allocated : q \in PageId /\ pages[q] \in Node
    BY PageFacts
  <2> QED
    BY <2>1, NextPage DEF IndInv, PagesInv, NewRoot
<1>3. pages' = [new EXCEPT ![n].parent = NODE_PARENT_INVALID]
  BY <1>1 DEF UpdateRoot
<1>4. "is_root" \in DOMAIN top
  BY DEF InternalNode
<1> HIDE DEF top
<1>5. \A q \in PageId : more[q] = IF q = n THEN top ELSE pages[q]
  BY <1>2
<1>6. DOMAIN more = PageId
  BY <1>2
<1> HIDE DEF more
<1>7. /\ DOMAIN half = PageId
      /\ \A q \in PageId : half[q] = IF q = l THEN [more[q] EXCEPT !.parent = n]
                                              ELSE more[q]
  BY <1>6
<1> HIDE DEF half
<1>8. /\ DOMAIN linked = PageId
      /\ \A q \in PageId : linked[q] = IF q = r THEN [half[q] EXCEPT !.parent = n]
                                                ELSE half[q]
  BY <1>7
<1> HIDE DEF linked
<1>9. /\ DOMAIN old = PageId
      /\ \A q \in PageId : old[q] = IF q = root_pid THEN [linked[q] EXCEPT !.is_root = FALSE]
                                                    ELSE linked[q]
  BY <1>8
<1> HIDE DEF old
<1>10. /\ DOMAIN new = PageId
       /\ \A q \in PageId : new[q] = IF q = n THEN [old[q] EXCEPT !.is_root = TRUE]
                                              ELSE old[q]
  BY <1>9
<1> HIDE DEF new
<1>11. \A q \in PageId : pages'[q] = IF q = n THEN [new[q] EXCEPT !.parent = NODE_PARENT_INVALID]
                                              ELSE new[q]
  BY <1>3, <1>10
<1>12. ASSUME NEW q \in PageId, "is_root" \in DOMAIN more[q]
       PROVE  pages'[q].is_root = IF q = n THEN TRUE
                                  ELSE IF q = root_pid THEN FALSE ELSE more[q].is_root
  <2>1. half[q].is_root = more[q].is_root /\ "is_root" \in DOMAIN half[q]
    BY <1>7, <1>12
  <2>2. linked[q].is_root = half[q].is_root /\ "is_root" \in DOMAIN linked[q]
    BY <1>8, <2>1
  <2>3. /\ old[q].is_root = IF q = root_pid THEN FALSE ELSE linked[q].is_root
        /\ "is_root" \in DOMAIN old[q]
    BY <1>9, <2>2
  <2>4. /\ new[q].is_root = IF q = n THEN TRUE ELSE old[q].is_root
        /\ "is_root" \in DOMAIN new[q]
    BY <1>10, <2>3
  <2>5. pages'[q].is_root = new[q].is_root
    BY <1>11, <2>4
  <2> QED
    BY <2>1, <2>2, <2>3, <2>4, <2>5
<1>13. pages'[n].is_root = TRUE
  BY <1>2, <1>4, <1>5, <1>12
<1>14. ASSUME NEW q \in Allocated
       PROVE  pages'[q].is_root = IF q = root_pid THEN FALSE ELSE pages[q].is_root
  <2>1. q \in PageId /\ q # n /\ more[q] = pages[q] /\ "is_root" \in DOMAIN more[q]
    BY <1>2, <1>5 DEF Node
  <2> QED
    BY <1>12, <2>1
<1> QED
  BY <1>2, <1>13, <1>14, NewRootStep DEF RootMoved

LEMMA RootByteMoved ==
  ASSUME RootByte, IndInv, RootMoved
  PROVE  RootByte'
<1> USE DEF RootMoved
<1>1. /\ root_pid # num_pages /\ \A q \in Allocated : q # num_pages
      /\ Allocated' = Allocated \cup {num_pages}
  BY NextPage DEF PageAdded
<1>2. SUFFICES ASSUME NEW q \in Allocated'
               PROVE  pages'[q].is_root = (q = root_pid')
  BY DEF RootByte
<1>3. CASE q = num_pages
  BY <1>3
<1>4. CASE q # num_pages
  <2>1. q \in Allocated
    BY <1>1, <1>4
  <2>2. pages'[q].is_root = FALSE
    BY <2>1 DEF RootByte
  <2>3. (q = root_pid') = FALSE
    BY <1>4
  <2> QED
    BY <2>2, <2>3
<1> QED
  BY <1>3, <1>4

(***************************************************************************)
(* Every step of the tree is one of the three.                             *)
(***************************************************************************)
LEMMA StepRoot ==
  ASSUME IndInv, [Next]_vars
  PROVE  SameRoot \/ FreshPage \/ RootMoved
<1>1. ASSUME UNCHANGED <<pages, root_pid, num_pages>>
      PROVE  SameRoot
  BY <1>1 DEF SameRoot, RootBytesKept, PagesKept, Allocated, PageId
<1>2. ASSUME NEW key \in Key, NEW row \in Row, Insert(key, row)
      PROVE  SameRoot
  BY <1>1, <1>2 DEF Insert
<1>3. ASSUME NEW range \in SelectRange, Select(range[1], range[2])
      PROVE  SameRoot
  BY <1>1, <1>3 DEF Select
<1>4. CASE Descend
  BY <1>1, <1>4 DEF Descend
<1>5. CASE RejectDuplicate
  BY <1>1, <1>5 DEF RejectDuplicate
<1>6. CASE LeafInsert
  BY <1>6, LeafInsertSameRoot
<1>7. CASE LeafSplit
  BY <1>7, LeafSplitFreshPage
<1>8. CASE ParentInsert
  BY <1>8, ParentInsertSameRoot
<1>9. CASE ParentSplit
  BY <1>9, ParentSplitFreshPage
<1>10. CASE NewRoot
  BY <1>10, NewRootRootMoved
<1>11. CASE UNCHANGED vars
  BY <1>1, <1>11 DEF vars
<1> QED
  BY <1>2, <1>3, <1>4, <1>5, <1>6, <1>7, <1>8, <1>9, <1>10, <1>11 DEF Next, Step

LEMMA StepRootByte ==
  ASSUME IndInv, RootByte, [Next]_vars, FreshRootByte = {FALSE}
  PROVE  RootByte'
BY StepRoot, RootByteKept, RootByteExtended, RootByteMoved

LEMMA RootByteInvariance ==
  ASSUME FreshRootByte = {FALSE}
  PROVE  Spec => []RootByte
<1>1. Init => RootByte
  BY InitRootByte
<1>2. IndInv /\ RootByte /\ [Next]_vars => RootByte'
  BY StepRootByte
<1> QED
  BY <1>1, <1>2, Invariance, PTL DEF Spec

(***************************************************************************)
(* If malloc'ed pages start with a zero root byte, exactly the root page   *)
(* has it set, before and after every update_root (btree.h:122,            *)
(* btree.cpp:194, 358-359).                                                *)
(***************************************************************************)
THEOREM RootBytes ==
  ASSUME FreshRootByte = {FALSE}
  PROVE  Spec => []RootByteOnlyOnRoot
<1>1. IndInv /\ RootByte => RootByteOnlyOnRoot
  <2> SUFFICES ASSUME IndInv, RootByte PROVE RootByteOnlyOnRoot
    OBVIOUS
  <2>1. root_pid \in Allocated
    BY DEF IndInv, PagesInv
  <2>2. \A p \in Allocated : pages[p].is_root = (p = root_pid)
    BY DEF RootByte
  <2>3. \A p \in Allocated : pages[p].is_root <=> p = root_pid
    BY <2>2
  <2> QED
    BY <2>1, <2>3 DEF RootByteOnlyOnRoot
<1> QED
  BY <1>1, RootByteInvariance, Invariance, PTL

\* What check_valid looks at in a child of an inner node.
LEMMA ChildIsValid ==
  ASSUME IndInv, NEW s, IsShape(s), call.pc # "climb", NEW p \in InnerPages,
         NEW i \in 1 .. Len(pages[p].keys) + 1
  PROVE  LET c == pages[p].children[i] IN
         /\ pages[c].parent = p
         /\ i <= Len(pages[p].keys) => Last(pages[c].keys) <= pages[p].keys[i]
         /\ i > 1 => pages[p].keys[i - 1] < Head(pages[c].keys)
<1> DEFINE c    == pages[p].children[i]
           keys == pages[c].keys
<1>1. WellLinked(pages, Allocated, root_pid)
  BY PagesAreWellLinked DEF IndInv
<1>2. p \in Allocated /\ pages[p].kind = "inner"
  BY DEF InnerPages
<1>3. /\ c \in Allocated /\ c # root_pid /\ pages[c].parent = p
      /\ s.lo[c] = Lower(pages[p].keys, s.lo[p], i)
      /\ s.up[c] = Upper(pages[p].keys, s.hi[p], i)
  <2>1. i \in 1 .. Len(pages[p].children)
    BY <1>1, <1>2, LinkedPage
  <2> QED
    BY <2>1, Links
<1>4. s \in Shapes /\ TreeShape(pages, Allocated, root_pid, s) /\ s.up = s.hi
  BY DEF IsShape, CallShape
<1>5. keys \in Seq(Key) /\ Len(keys) \in Nat /\ Len(keys) > 0
  <2>1. keys \in Seq(Key) /\ Len(keys) \in Nat
    BY <1>3, PageFacts DEF Node
  <2>2. 2 * Len(keys) >= LoadOfKind(pages[c].kind)
    BY <1>3, PageFacts DEF PageInv, HalfLoaded
  <2>3. LoadOfKind(pages[c].kind) \in Nat /\ LoadOfKind(pages[c].kind) > 0
    BY LoadsAreEven, Halves DEF LoadOfKind
  <2> QED
    BY <2>1, <2>2, <2>3
<1>6. /\ \A j \in 1 .. Len(keys) : s.lo[c] < keys[j] /\ keys[j] <= s.up[c]
  <2>1. PageShape(pages, root_pid, s, c)
    BY <1>1, <1>3, <1>4, ShapeOfPage
  <2> QED
    BY <1>4, <2>1 DEF PageShape, NodeOrdered, Within
<1>7. Head(keys) = keys[1] /\ Last(keys) = keys[Len(keys)]
  BY <1>5 DEF Last
<1> HIDE DEF keys, c
<1>8. s.lo[c] < Head(keys) /\ Last(keys) <= s.up[c]
  BY <1>5, <1>6, <1>7
<1>9. Len(pages[p].keys) \in Nat
  BY <1>1, <1>2, LinkedPage
<1>10. i <= Len(pages[p].keys) => s.up[c] = pages[p].keys[i]
  BY <1>3, <1>9 DEF Upper
<1>11. i > 1 => s.lo[c] = pages[p].keys[i - 1]
  BY <1>3 DEF Lower
<1> QED
  BY <1>3, <1>8, <1>10, <1>11 DEF keys, c

(***************************************************************************)
(* Whenever no insert is running, check_valid returns true: for any        *)
(* insertions, if inner_node_load is not above num_max_keys and malloc'ed  *)
(* pages start with a zero root byte (btree.cpp:349-408).  The runs show   *)
(* that both hypotheses are needed.                                        *)
(***************************************************************************)
THEOREM CheckValidHolds ==
  ASSUME FreshRootByte = {FALSE}, inner_node_load <= num_max_keys
  PROVE  Spec => []CheckValidAccepts
<1>1. IndInv /\ ShapeInv /\ RootByte => CheckValidAccepts
  <2> SUFFICES ASSUME IndInv, ShapeInv, RootByte, call = Idle, NEW p \in InnerPages
               PROVE  CheckValidNode(p)
    BY DEF CheckValidAccepts, CheckValid
  <2> DEFINE keys == pages[p].keys
  <2>1. PICK s : IsShape(s)
    BY DEF ShapeInv, IsShape
  <2>2. /\ p \in Allocated /\ pages[p].kind = "inner"
        /\ p \in PageId /\ pages[p] \in Node /\ Len(keys) \in Nat
    BY PageFacts DEF InnerPages
  <2>3. call.pc = "idle"
    BY DEF Idle
  <2>4. pages[p].is_root = (p = root_pid)
    BY <2>2 DEF RootByte
  <2>5. pages[root_pid].parent = NODE_PARENT_INVALID
    BY <2>1, InvalidParent
  <2>6. p # root_pid => pages[p].parent # NODE_PARENT_INVALID
    BY <2>2, PageFacts DEF PageInv
  <2>7. p # root_pid => Len(keys) * 2 >= inner_node_load
    <3>1. InnerLoad = inner_node_load
      BY LoadAssumption DEF InnerLoad, LoadType
    <3>2. p # root_pid => 2 * Len(keys) >= InnerLoad
      BY <2>2, PageFacts DEF PageInv, HalfLoaded, LoadOfKind
    <3> QED
      BY <2>2, <3>1, <3>2
  <2>8. IsIncreasing(keys)
    <3>1. PageShape(pages, root_pid, s, p)
      BY <2>1, <2>2 DEF IsShape, TreeShape
    <3>2. Ascending(keys)
      BY <3>1 DEF PageShape, NodeOrdered
    <3> HIDE DEF keys
    <3>3. \A i \in 1 .. Len(keys) - 1 :
            i \in 1 .. Len(keys) /\ i + 1 \in 1 .. Len(keys) /\ i < i + 1
      BY <2>2
    <3> QED
      BY <3>2, <3>3 DEF IsIncreasing, Ascending
  <2>9. ASSUME NEW i \in 1 .. Len(keys)
        PROVE  LET lchild == pages[pages[p].children[i]]
                   rchild == pages[pages[p].children[i + 1]]
               IN  /\ lchild.parent = p /\ rchild.parent = p
                   /\ Last(lchild.keys) <= keys[i]
                   /\ keys[i] < Head(rchild.keys)
    <3>1. /\ i \in 1 .. Len(keys) + 1 /\ i <= Len(keys)
          /\ pages[pages[p].children[i]].parent = p
          /\ Last(pages[pages[p].children[i]].keys) <= keys[i]
      <4>1. i \in 1 .. Len(keys) + 1 /\ i <= Len(keys)
        BY <2>2
      <4> QED
        BY <2>1, <2>3, <4>1, ChildIsValid
    <3>2. /\ pages[pages[p].children[i + 1]].parent = p
          /\ keys[i] < Head(pages[pages[p].children[i + 1]].keys)
      <4> DEFINE j == i + 1
      <4>1. j \in 1 .. Len(keys) + 1 /\ j > 1 /\ j - 1 = i
        BY <2>2
      <4> HIDE DEF j
      <4>2. /\ pages[pages[p].children[j]].parent = p
            /\ keys[j - 1] < Head(pages[pages[p].children[j]].keys)
        BY <2>1, <2>3, <4>1, ChildIsValid
      <4> QED
        BY <4>1, <4>2 DEF j
    <3> QED
      BY <3>1, <3>2
  <2>10. IF p = root_pid
         THEN pages[p].is_root /\ pages[p].parent = NODE_PARENT_INVALID
         ELSE ~pages[p].is_root /\ pages[p].parent # NODE_PARENT_INVALID
    BY <2>4, <2>5, <2>6
  <2>11. ~pages[p].is_root => Len(keys) * 2 >= inner_node_load
    BY <2>7, <2>10
  <2> QED
    BY <2>8, <2>9, <2>10, <2>11 DEF CheckValidNode
<1> QED
  BY <1>1, Ordered, RootByteInvariance, PTL

------------------------------------------------------------------------------
(***************************************************************************)
(* The keys and the leaves below a page.                                   *)
(***************************************************************************)
\* A node above never believes less of a page than the page covers.
LEMMA IsShapeUpper ==
  ASSUME IndInv, NEW s, IsShape(s), NEW q \in Allocated
  PROVE  s.hi[q] \in Int /\ s.hi[q] <= s.up[q]
<1>1. /\ WellLinked(pages, Allocated, root_pid) /\ q \in Allocated
      /\ s \in Shapes /\ TreeShape(pages, Allocated, root_pid, s)
  BY PagesAreWellLinked DEF IndInv, IsShape
<1>2. q \in PageId /\ s.hi[q] \in Int
  BY <1>1, LinkedPage, ShapeOfPage
<1>3. CASE call.pc # "climb"
  <2>1. s.up = s.hi
    BY <1>3 DEF IsShape, CallShape
  <2> QED
    BY <1>2, <2>1
<1>4. CASE call.pc = "climb"
  <2>1. ClimbShape(call, pages, s) /\ call.left \in Allocated
        /\ call.right \in Allocated
    BY <1>4, ClimbingShape
  <2>2. s.hi[call.right] \in Int /\ s.hi[call.left] \in Int
    BY <1>1, <2>1, ShapeOfPage
  <2>3. s.hi[call.left] < s.hi[call.right] /\ s.up = [s.hi EXCEPT ![call.left] = s.hi[call.right]]
    BY <2>1 DEF ClimbShape
  <2>4. s.hi \in [PageId -> Int]
    BY <1>1 DEF Shapes
  <2> QED
    BY <1>2, <2>2, <2>3, <2>4
<1> QED
  BY <1>2, <1>3, <1>4

\* The interval of a child lies within its parent's, and it is one level lower.
LEMMA ChildOfPage ==
  ASSUME IndInv, NEW s, IsShape(s), NEW p \in Allocated, pages[p].kind # "leaf",
         NEW c \in ChildPages(p)
  PROVE  /\ c \in Allocated
         /\ s.lo[p] <= s.lo[c] /\ s.hi[c] <= s.hi[p]
         /\ s.height[p] = s.height[c] + 1
<1>1. PICK i \in 1 .. Len(pages[p].children) : c = pages[p].children[i]
  BY DEF ChildPages
<1> DEFINE keys == pages[p].keys
<1>2. /\ WellLinked(pages, Allocated, root_pid) /\ p \in Allocated
      /\ s \in Shapes /\ TreeShape(pages, Allocated, root_pid, s)
  BY PagesAreWellLinked DEF IndInv, IsShape
<1>3. /\ pages[p].kind = "inner" /\ Len(keys) \in Nat /\ i \in 1 .. Len(keys) + 1
      /\ \A k \in 1 .. Len(keys) : keys[k] \in Int
  BY <1>2, LinkedPage
<1>4. /\ c \in Allocated
      /\ s.lo[c] = Lower(keys, s.lo[p], i) /\ s.up[c] = Upper(keys, s.hi[p], i)
      /\ s.height[p] = s.height[c] + 1
  <2>1. /\ i \in 1 .. Len(pages[p].keys) + 1 /\ pages[p].kind = "inner"
        /\ c = pages[p].children[i]
    BY <1>1, <1>3
  <2> HIDE DEF keys
  <2>2. /\ c \in Allocated
        /\ s.lo[c] = Lower(pages[p].keys, s.lo[p], i)
        /\ s.up[c] = Upper(pages[p].keys, s.hi[p], i)
        /\ s.height[p] = s.height[c] + 1
    BY <1>2, <2>1, ShapeOfChild
  <2> QED
    BY <2>2 DEF keys
<1>5. /\ s.lo[p] \in Int /\ s.hi[p] \in Int /\ s.hi[c] \in Int /\ s.up[c] \in Int
      /\ NodeOrdered(pages[p], s.lo[p], s.hi[p])
  BY <1>2, <1>4, ShapeOfPage DEF PageShape
<1>6. \A k \in 1 .. Len(keys) : s.lo[p] < keys[k] /\ keys[k] <= s.hi[p]
  BY <1>5 DEF NodeOrdered, Within
<1> HIDE DEF keys
<1>7. s.lo[p] <= s.lo[c]
  <2>1. CASE i = 1
    BY <1>4, <1>5, <2>1 DEF Lower
  <2>2. CASE i # 1
    <3>1. i - 1 \in 1 .. Len(keys)
      BY <1>3, <2>2
    <3>2. s.lo[c] = keys[i - 1]
      BY <1>4, <2>2 DEF Lower
    <3>3. keys[i - 1] \in Int /\ s.lo[p] < keys[i - 1]
      BY <1>3, <1>6, <3>1
    <3> QED
      BY <1>5, <3>2, <3>3
  <2> QED
    BY <2>1, <2>2
<1>8. s.up[c] <= s.hi[p]
  <2>1. CASE i = Len(keys) + 1
    BY <1>4, <1>5, <2>1 DEF Upper
  <2>2. CASE i # Len(keys) + 1
    <3>1. i \in 1 .. Len(keys)
      BY <1>3, <2>2
    <3> QED
      BY <1>4, <1>6, <2>2, <3>1 DEF Upper
  <2> QED
    BY <2>1, <2>2
<1>9. s.hi[c] <= s.up[c]
  BY <1>4, IsShapeUpper
<1> QED
  BY <1>4, <1>5, <1>7, <1>8, <1>9

\* KeysBelow is the last of a chain of functions, each made from the one before.
KeyLevels(below) ==
  /\ KeysBelow = below[num_pages]
  /\ below[0] = [p \in Allocated |-> {}]
  /\ \A k \in 1 .. num_pages : below[k] = KeysFrom(below[k - 1])

LEMMA KeysByLevel ==
  ASSUME IndInv
  PROVE  \E below : KeyLevels(below)
<1> DEFINE D       == [Allocated -> SUBSET Key]
           step    == [d \in D |-> KeysFrom(d)]
           z       == [p \in Allocated |-> {}]
           Body(g) == [level \in 0 .. num_pages |->
                         IF level = 0 THEN z ELSE KeysFrom(g[level - 1])]
<1>1. num_pages \in Nat /\ z \in D
  BY PageAssumption DEF IndInv, PagesInv
<1>2. ASSUME NEW d \in D
      PROVE  KeysFrom(d) \in D
  <2>1. ASSUME NEW p \in Allocated, pages[p].kind = "leaf"
        PROVE  ToSet(pages[p].keys) \in SUBSET Key
    <3>1. pages[p].keys \in Seq(Key)
      BY <2>1, PageFacts DEF PageInv, IsNode, Node, IndInv
    <3> QED
      BY <3>1, ElementOfSeq, LenProperties DEF ToSet
  <2>2. ASSUME NEW p \in Allocated, pages[p].kind # "leaf"
        PROVE  UNION {d[c] : c \in ChildPages(p)} \in SUBSET Key
    <3>1. ASSUME NEW c \in ChildPages(p)
          PROVE  c \in Allocated
      <4>1. IsNode(pages[p], Allocated)
        BY PageFacts DEF PageInv, IndInv
      <4>2. pages[p].children \in Seq(Allocated)
        BY <2>2, <4>1 DEF IsNode, Node
      <4> QED
        BY <4>2, ElementOfSeq DEF ChildPages
    <3> QED
      BY <3>1
  <2> QED
    BY <2>1, <2>2 DEF KeysFrom
<1>3. step \in [D -> D]
  BY <1>2
<1> HIDE DEF D, step, z
<1>4. PICK g : IsChain(g, num_pages, D, step, z)
  BY <1>1, <1>3, ChainExists
<1>5. g \in [0 .. num_pages -> D] /\ g[0] = z /\ \A k \in 1 .. num_pages : g[k] = step[g[k - 1]]
  BY <1>4 DEF IsChain
<1>6. g = Body(g)
  <2>1. ASSUME NEW k \in 0 .. num_pages
        PROVE  g[k] = IF k = 0 THEN z ELSE KeysFrom(g[k - 1])
    <3>1. CASE k = 0
      BY <1>5, <3>1
    <3>2. CASE k # 0
      <4>1. k \in 1 .. num_pages /\ k - 1 \in 0 .. num_pages
        BY <1>1, <3>2
      <4>2. g[k - 1] \in D /\ g[k] = step[g[k - 1]]
        BY <1>5, <4>1
      <4> QED
        BY <3>2, <4>2 DEF step
    <3> QED
      BY <3>1, <3>2
  <2> QED
    BY <1>5, <2>1
<1> DEFINE below == CHOOSE f : f = Body(f)
<1>7. below = Body(below)
  <2> HIDE DEF Body
  <2> QED
    BY <1>6
<1>8. KeysBelow = below[num_pages]
  BY DEF KeysBelow, z
<1> HIDE DEF below
<1>9. below[0] = z /\ \A k \in 1 .. num_pages : below[k] = KeysFrom(below[k - 1])
  BY <1>1, <1>7
<1> QED
  BY <1>8, <1>9 DEF KeyLevels, z

\* The bounds of a page are numbers, and so is its height.
LEMMA IntervalsAreNumbers ==
  ASSUME IndInv, NEW s, IsShape(s), NEW q \in Allocated
  PROVE  s.lo[q] \in Int /\ s.hi[q] \in Int /\ s.height[q] \in Nat
<1>1. /\ WellLinked(pages, Allocated, root_pid) /\ q \in Allocated
      /\ s \in Shapes /\ TreeShape(pages, Allocated, root_pid, s)
  BY PagesAreWellLinked DEF IndInv, IsShape
<1> QED
  BY <1>1, ShapeOfPage

\* Every key below a page is in the page's interval.
LEMMA KeysAreWithin ==
  ASSUME IndInv, NEW s, IsShape(s), NEW p \in Allocated, NEW x \in KeysBelow[p]
  PROVE  x \in Int /\ s.lo[p] < x /\ x <= s.hi[p]
<1> DEFINE Covered(q) == {y \in Int : s.lo[q] < y /\ y <= s.hi[q]}
<1>1. PICK below : KeyLevels(below)
  BY KeysByLevel
<1> DEFINE T == {k \in Nat : k <= num_pages =>
                   \A q \in Allocated : below[k][q] \subseteq Covered(q)}
<1>2. 0 \in T
  BY <1>1 DEF KeyLevels
<1>3. ASSUME NEW k \in Nat, k \in T
      PROVE  k + 1 \in T
  <2> SUFFICES ASSUME k + 1 <= num_pages, NEW q \in Allocated
               PROVE  below[k + 1][q] \subseteq Covered(q)
    OBVIOUS
  <2>1. num_pages \in Nat
    BY PageAssumption DEF IndInv, PagesInv
  <2>2. /\ \A c \in Allocated : below[k][c] \subseteq Covered(c)
        /\ below[k + 1] = KeysFrom(below[k])
    <3>1. k <= num_pages /\ k + 1 \in 1 .. num_pages /\ (k + 1) - 1 = k
      BY <2>1
    <3> QED
      BY <1>1, <1>3, <3>1 DEF KeyLevels
  <2>3. CASE pages[q].kind = "leaf"
    <3>1. below[k + 1][q] = ToSet(pages[q].keys)
      BY <2>2, <2>3 DEF KeysFrom
    <3>2. /\ WellLinked(pages, Allocated, root_pid) /\ q \in Allocated
          /\ s \in Shapes /\ TreeShape(pages, Allocated, root_pid, s)
      BY PagesAreWellLinked DEF IndInv, IsShape
    <3>3. /\ pages[q].keys \in Seq(Key)
          /\ \A i \in 1 .. Len(pages[q].keys) : pages[q].keys[i] \in Int
          /\ PageShape(pages, root_pid, s, q)
      BY <3>2, LinkedPage, ShapeOfPage
    <3>4. \A i \in 1 .. Len(pages[q].keys) : pages[q].keys[i] \in Covered(q)
      BY <3>3 DEF PageShape, NodeOrdered, Within
    <3>5. DOMAIN pages[q].keys = 1 .. Len(pages[q].keys)
      BY <3>3, LenProperties
    <3> QED
      BY <3>1, <3>4, <3>5 DEF ToSet
  <2>4. CASE pages[q].kind # "leaf"
    <3>1. below[k + 1][q] = UNION {below[k][c] : c \in ChildPages(q)}
      BY <2>2, <2>4 DEF KeysFrom
    <3>2. ASSUME NEW c \in ChildPages(q)
          PROVE  below[k][c] \subseteq Covered(q)
      <4>1. c \in Allocated /\ s.lo[q] <= s.lo[c] /\ s.hi[c] <= s.hi[q]
        BY <2>4, ChildOfPage
      <4>2. /\ s.lo[q] \in Int /\ s.lo[c] \in Int
            /\ s.hi[q] \in Int /\ s.hi[c] \in Int
        BY <4>1, IntervalsAreNumbers
      <4>3. below[k][c] \subseteq Covered(c)
        BY <2>2, <4>1
      <4>4. \A y \in Covered(c) : y \in Covered(q)
        BY <4>1, <4>2
      <4> HIDE DEF Covered
      <4> QED
        BY <4>3, <4>4
    <3> HIDE DEF Covered
    <3> QED
      BY <3>1, <3>2
  <2> QED
    BY <2>3, <2>4
<1> HIDE DEF T
<1>4. Nat \subseteq T
  BY <1>2, <1>3, NatSetInduction
<1>5. num_pages \in Nat /\ num_pages \in T
  BY <1>4, PageAssumption DEF IndInv, PagesInv
<1>6. below[num_pages][p] \subseteq Covered(p)
  BY <1>5 DEF T
<1> QED
  BY <1>1, <1>6 DEF KeyLevels

(***************************************************************************)
(* Each key of an inner node separates everything below the child on its   *)
(* left from everything below the child on its right, also while an insert *)
(* climbs (btree.h:750).                                                   *)
(***************************************************************************)
THEOREM Separators == Spec => []SeparatorsBound
<1>1. IndInv /\ ShapeInv => SeparatorsBound
  <2> SUFFICES ASSUME IndInv, ShapeInv PROVE SeparatorsBound
    OBVIOUS
  <2>1. PICK s : IsShape(s)
    BY DEF ShapeInv, IsShape
  <2>2. ASSUME NEW p \in InnerPages, NEW i \in 1 .. Len(pages[p].keys)
        PROVE  Separates(KeysBelow, pages[p].keys[i],
                         pages[p].children[i], pages[p].children[i + 1])
    <3> DEFINE left  == pages[p].children[i]
               right == pages[p].children[i + 1]
               key   == pages[p].keys[i]
    <3>1. /\ WellLinked(pages, Allocated, root_pid) /\ p \in Allocated
          /\ s \in Shapes /\ TreeShape(pages, Allocated, root_pid, s)
          /\ pages[p].kind = "inner"
      BY <2>1, PagesAreWellLinked DEF IndInv, IsShape, InnerPages
    <3>2. /\ Len(pages[p].keys) \in Nat /\ key \in Int
          /\ Len(pages[p].children) = Len(pages[p].keys) + 1
      BY <3>1, LinkedPage
    <3>3. /\ i \in 1 .. Len(pages[p].keys) + 1 /\ i + 1 \in 1 .. Len(pages[p].keys) + 1
          /\ i # Len(pages[p].keys) + 1 /\ i + 1 # 1 /\ (i + 1) - 1 = i
      BY <3>2
    <3>4. left \in Allocated /\ s.up[left] = key
      BY <3>1, <3>3, ShapeOfLink DEF Upper
    <3>5. right \in Allocated /\ s.lo[right] = key
      <4> DEFINE j == i + 1
      <4>1. j \in 1 .. Len(pages[p].keys) + 1 /\ j # 1 /\ j - 1 = i
        BY <3>3
      <4> HIDE DEF j
      <4>2. /\ pages[p].children[j] \in Allocated
            /\ s.lo[pages[p].children[j]] = Lower(pages[p].keys, s.lo[p], j)
        BY <3>1, <4>1, ShapeOfLink
      <4>3. Lower(pages[p].keys, s.lo[p], j) = key
        BY <4>1 DEF Lower
      <4> QED
        BY <4>2, <4>3 DEF j
    <3> HIDE DEF left, right, key
    <3>6. \A k \in KeysBelow[left] : k <= key
      <4> TAKE k \in KeysBelow[left]
      <4>1. k \in Int /\ k <= s.hi[left]
        BY <2>1, <3>4, KeysAreWithin
      <4>2. s.hi[left] \in Int /\ s.hi[left] <= key
        BY <2>1, <3>4, IsShapeUpper
      <4> QED
        BY <3>2, <4>1, <4>2
    <3>7. \A k \in KeysBelow[right] : key < k
      BY <2>1, <3>5, KeysAreWithin
    <3> QED
      BY <3>6, <3>7 DEF Separates, left, right, key
  <2>3. ASSUME call.pc = "climb"
        PROVE  /\ Separates(KeysBelow, call.key_upward, call.left, call.right)
               /\ \A link \in ChildLinks :
                    ChildAt(link) = call.left /\ link[2] <= Len(pages[link[1]].keys)
                      => \A k \in KeysBelow[call.right] : k <= pages[link[1]].keys[link[2]]
    <3>1. /\ ClimbShape(call, pages, s)
          /\ call.left \in Allocated /\ call.right \in Allocated
      BY <2>1, <2>3, ClimbingShape
    <3>2. s.hi[call.left] = call.key_upward /\ s.lo[call.right] = call.key_upward
      BY <3>1 DEF ClimbShape
    <3>3. Separates(KeysBelow, call.key_upward, call.left, call.right)
      BY <2>1, <3>1, <3>2, KeysAreWithin DEF Separates
    <3>4. s.up[call.left] = s.hi[call.right]
      <4>1. call.left \in PageId /\ s.hi \in [PageId -> Int]
        BY <2>1, <3>1 DEF IsShape, Shapes, IndInv, PagesInv
      <4> QED
        BY <3>1, <4>1 DEF ClimbShape
    <3>5. ASSUME NEW link \in ChildLinks, ChildAt(link) = call.left,
                 link[2] <= Len(pages[link[1]].keys), NEW k \in KeysBelow[call.right]
          PROVE  k <= pages[link[1]].keys[link[2]]
      <4>1. PICK p \in InnerPages : link \in {p} \X (1 .. Len(pages[p].children))
        BY DEF ChildLinks
      <4>2. /\ link[1] = p /\ link[2] \in 1 .. Len(pages[p].children)
            /\ pages[p].children[link[2]] = call.left
        BY <3>5, <4>1 DEF ChildAt
      <4>3. s.up[call.left] = Upper(pages[p].keys, s.hi[p], link[2])
        BY <2>1, <4>2, Links
      <4>4. Len(pages[p].keys) \in Nat
        BY PagesAreWellLinked, LinkedPage DEF InnerPages, IndInv
      <4>5. link[2] # Len(pages[p].keys) + 1
        BY <3>5, <4>2, <4>4
      <4>6. s.up[call.left] = pages[p].keys[link[2]]
        BY <4>3, <4>5 DEF Upper
      <4>7. k <= s.hi[call.right]
        BY <2>1, <3>1, <3>5, KeysAreWithin
      <4> QED
        BY <3>4, <4>2, <4>6, <4>7
    <3> QED
      BY <3>3, <3>5
  <2> QED
    BY <2>2, <2>3 DEF SeparatorsBound
<1> QED
  BY <1>1, Ordered, PTL

------------------------------------------------------------------------------
\* A page that is h levels above the leaves has a page below it on each of the
\* levels; so no page is as many levels high as there are pages.
LEMMA HeightsBelow ==
  ASSUME NEW ps, NEW A, NEW root, NEW s \in Shapes, WellLinked(ps, A, root),
         TreeShape(ps, A, root, s), NEW n \in Nat, A \subseteq 0 .. n - 1, NEW p \in A
  PROVE  s.height[p] < n
<1> DEFINE h == s.height[p]
<1>1. h \in Nat
  BY ShapeOfPage
<1> DEFINE T == {k \in Nat : k <= h => \E q \in A : s.height[q] = h - k}
<1>2. 0 \in T
  BY <1>1
<1> HIDE DEF h
<1>3. ASSUME NEW k \in Nat, k \in T
      PROVE  k + 1 \in T
  <2> SUFFICES ASSUME k + 1 <= h
               PROVE  \E q \in A : s.height[q] = h - (k + 1)
    OBVIOUS
  <2>1. PICK q \in A : s.height[q] = h - k
    BY <1>1, <1>3
  <2>2. ps[q].kind = "inner"
    <3>1. PageShape(ps, root, s, q) /\ ps[q].kind \in {"leaf", "inner"}
      BY ShapeOfPage, LinkedPage
    <3>2. s.height[q] # 0
      BY <1>1, <2>1
    <3> QED
      BY <3>1, <3>2 DEF PageShape
  <2>3. 1 \in 1 .. Len(ps[q].keys) + 1
    BY LinkedPage
  <2> DEFINE c == ps[q].children[1]
  <2>4. c \in A /\ s.height[q] = s.height[c] + 1
    BY <2>2, <2>3, ShapeOfLink
  <2> HIDE DEF c
  <2>5. s.height[c] \in Nat
    BY <2>4, ShapeOfPage
  <2>6. s.height[c] = h - (k + 1)
    BY <1>1, <2>1, <2>4, <2>5
  <2> QED
    BY <2>4, <2>6
<1> HIDE DEF T
<1>4. Nat \subseteq T
  BY <1>2, <1>3, NatSetInduction
<1>5. \A l \in 0 .. h : \E q \in A : s.height[q] = l
  <2> TAKE l \in 0 .. h
  <2> DEFINE k == h - l
  <2>1. k \in Nat /\ k <= h /\ h - k = l
    BY <1>1
  <2> HIDE DEF k
  <2>2. k \in T
    BY <1>4, <2>1
  <2> QED
    BY <2>1, <2>2 DEF T
<1> DEFINE S == 0 .. h
           f == [l \in S |-> CHOOSE q \in A : s.height[q] = l]
<1>6. f \in [S -> A] /\ \A l \in S : s.height[f[l]] = l
  BY <1>5
<1> HIDE DEF f
<1>7. /\ IsFiniteSet(S) /\ Cardinality(S) = h + 1
      /\ IsFiniteSet(A) /\ Cardinality(A) \in Nat /\ Cardinality(A) <= n
  <2>1. /\ IsFiniteSet(S) /\ Cardinality(S) = IF 0 > h THEN 0 ELSE h - 0 + 1
    BY <1>1, FS_Interval
  <2> DEFINE e == n - 1
  <2>2. e \in Int /\ A \subseteq 0 .. e
    OBVIOUS
  <2> HIDE DEF e
  <2>3. IsFiniteSet(0 .. e) /\ Cardinality(0 .. e) = IF 0 > e THEN 0 ELSE e - 0 + 1
    BY <2>2, FS_Interval
  <2>4. /\ IsFiniteSet(A) /\ Cardinality(A) <= Cardinality(0 .. e)
        /\ Cardinality(A) \in Nat
    BY <2>2, <2>3, FS_Subset, FS_CardinalityType
  <2>5. /\ (IF 0 > e THEN 0 ELSE e - 0 + 1) = n
        /\ ~(0 > h) /\ h - 0 + 1 = h + 1
    BY <1>1 DEF e
  <2> QED
    BY <2>1, <2>3, <2>4, <2>5
<1> HIDE DEF S
<1>8. ~(n < h + 1)
  <2> SUFFICES ASSUME n < h + 1 PROVE FALSE
    OBVIOUS
  <2>1. Cardinality(A) < Cardinality(S)
    BY <1>1, <1>7
  <2>2. \E x, y \in S : x # y /\ f[x] = f[y]
    BY <1>6, <1>7, <2>1, FS_PigeonHole
  <2> QED
    BY <1>6, <2>2
<1> QED
  BY <1>1, <1>8 DEF h

LEMMA HeightsAreBounded ==
  ASSUME IndInv, NEW s, IsShape(s), NEW p \in Allocated
  PROVE  s.height[p] < num_pages
<1>1. /\ WellLinked(pages, Allocated, root_pid) /\ p \in Allocated
      /\ s \in Shapes /\ TreeShape(pages, Allocated, root_pid, s)
  BY PagesAreWellLinked DEF IndInv, IsShape
<1>2. num_pages \in Nat /\ Allocated \subseteq 0 .. num_pages - 1
  BY PageAssumption DEF IndInv
<1> QED
  BY <1>1, <1>2, HeightsBelow

\* LeafDepths, too, is the last of a chain of functions.
DepthLevels(depths) ==
  /\ LeafDepths = depths[num_pages]
  /\ depths[0] = [p \in Allocated |-> {}]
  /\ \A k \in 1 .. num_pages : depths[k] = DepthsFrom(depths[k - 1])

LEMMA DepthsByLevel ==
  ASSUME IndInv
  PROVE  \E depths : DepthLevels(depths)
<1> DEFINE D       == [Allocated -> SUBSET Nat]
           step    == [d \in D |-> DepthsFrom(d)]
           z       == [p \in Allocated |-> {}]
           Body(g) == [level \in 0 .. num_pages |->
                         IF level = 0 THEN z ELSE DepthsFrom(g[level - 1])]
<1>1. num_pages \in Nat /\ z \in D
  BY PageAssumption DEF IndInv, PagesInv
<1>2. ASSUME NEW d \in D
      PROVE  DepthsFrom(d) \in D
  <2>1. ASSUME NEW p \in Allocated, pages[p].kind # "leaf"
        PROVE  UNION {{x + 1 : x \in d[c]} : c \in ChildPages(p)} \in SUBSET Nat
    <3>1. ASSUME NEW c \in ChildPages(p)
          PROVE  c \in Allocated
      <4>1. IsNode(pages[p], Allocated)
        BY PageFacts DEF PageInv, IndInv
      <4>2. pages[p].children \in Seq(Allocated)
        BY <2>1, <4>1 DEF IsNode, Node
      <4> QED
        BY <4>2, ElementOfSeq DEF ChildPages
    <3> QED
      BY <3>1
  <2>2. {0} \in SUBSET Nat
    OBVIOUS
  <2> QED
    BY <2>1, <2>2 DEF DepthsFrom
<1>3. step \in [D -> D]
  BY <1>2
<1> HIDE DEF D, step, z
<1>4. PICK g : IsChain(g, num_pages, D, step, z)
  BY <1>1, <1>3, ChainExists
<1>5. g \in [0 .. num_pages -> D] /\ g[0] = z /\ \A k \in 1 .. num_pages : g[k] = step[g[k - 1]]
  BY <1>4 DEF IsChain
<1>6. g = Body(g)
  <2>1. ASSUME NEW k \in 0 .. num_pages
        PROVE  g[k] = IF k = 0 THEN z ELSE DepthsFrom(g[k - 1])
    <3>1. CASE k = 0
      BY <1>5, <3>1
    <3>2. CASE k # 0
      <4>1. k \in 1 .. num_pages /\ k - 1 \in 0 .. num_pages
        BY <1>1, <3>2
      <4>2. g[k - 1] \in D /\ g[k] = step[g[k - 1]]
        BY <1>5, <4>1
      <4> QED
        BY <3>2, <4>2 DEF step
    <3> QED
      BY <3>1, <3>2
  <2> QED
    BY <1>5, <2>1
<1> DEFINE depths == CHOOSE f : f = Body(f)
<1>7. depths = Body(depths)
  <2> HIDE DEF Body
  <2> QED
    BY <1>6
<1>8. LeafDepths = depths[num_pages]
  BY DEF LeafDepths, z
<1> HIDE DEF depths
<1>9. depths[0] = z /\ \A k \in 1 .. num_pages : depths[k] = DepthsFrom(depths[k - 1])
  BY <1>1, <1>7
<1> QED
  BY <1>8, <1>9 DEF DepthLevels, z

\* All leaves below a page are as far away as the page is high.
LEMMA DepthIsHeight ==
  ASSUME IndInv, NEW s, IsShape(s), NEW p \in Allocated
  PROVE  LeafDepths[p] = {s.height[p]}
<1>1. PICK depths : DepthLevels(depths)
  BY DepthsByLevel
<1> DEFINE T == {k \in Nat : k <= num_pages =>
                   \A q \in Allocated : s.height[q] < k => depths[k][q] = {s.height[q]}}
<1>2. 0 \in T
  <2>1. \A q \in Allocated : ~(s.height[q] < 0)
    BY IntervalsAreNumbers
  <2> QED
    BY <2>1
<1>3. ASSUME NEW k \in Nat, k \in T
      PROVE  k + 1 \in T
  <2> SUFFICES ASSUME k + 1 <= num_pages, NEW q \in Allocated, s.height[q] < k + 1
               PROVE  depths[k + 1][q] = {s.height[q]}
    OBVIOUS
  <2>1. num_pages \in Nat
    BY PageAssumption DEF IndInv, PagesInv
  <2>2. /\ \A c \in Allocated : s.height[c] < k => depths[k][c] = {s.height[c]}
        /\ depths[k + 1] = DepthsFrom(depths[k])
    <3>1. k <= num_pages /\ k + 1 \in 1 .. num_pages /\ (k + 1) - 1 = k
      BY <2>1
    <3> QED
      BY <1>1, <1>3, <3>1 DEF DepthLevels
  <2>3. /\ WellLinked(pages, Allocated, root_pid) /\ q \in Allocated
        /\ s \in Shapes /\ TreeShape(pages, Allocated, root_pid, s)
    BY PagesAreWellLinked DEF IndInv, IsShape
  <2>4. CASE pages[q].kind = "leaf"
    <3>1. depths[k + 1][q] = {0}
      BY <2>2, <2>4 DEF DepthsFrom
    <3>2. PageShape(pages, root_pid, s, q)
      BY <2>3, ShapeOfPage
    <3> QED
      BY <2>4, <3>1, <3>2 DEF PageShape
  <2>5. CASE pages[q].kind # "leaf"
    <3> DEFINE h == s.height[q]
    <3>1. depths[k + 1][q] = UNION {{d + 1 : d \in depths[k][c]} : c \in ChildPages(q)}
      BY <2>2, <2>5 DEF DepthsFrom
    <3>2. ASSUME NEW c \in ChildPages(q)
          PROVE  {d + 1 : d \in depths[k][c]} = {h}
      <4>1. c \in Allocated /\ h = s.height[c] + 1
        BY <2>5, ChildOfPage
      <4>2. s.height[c] \in Nat /\ h < k + 1
        BY <4>1, IntervalsAreNumbers
      <4>3. s.height[c] < k
        BY <4>1, <4>2
      <4>4. depths[k][c] = {s.height[c]}
        BY <2>2, <4>1, <4>3
      <4> QED
        BY <4>1, <4>4
    <3>3. ChildPages(q) # {}
      <4>1. Len(pages[q].children) = Len(pages[q].keys) + 1 /\ Len(pages[q].keys) \in Nat
        BY <2>3, <2>5, LinkedPage
      <4>2. 1 \in 1 .. Len(pages[q].children)
        BY <4>1
      <4> QED
        BY <4>2 DEF ChildPages
    <3> HIDE DEF h
    <3>4. depths[k + 1][q] = {h}
      BY <3>1, <3>2, <3>3
    <3> QED
      BY <3>4 DEF h
  <2> QED
    BY <2>4, <2>5
<1> HIDE DEF T
<1>4. Nat \subseteq T
  BY <1>2, <1>3, NatSetInduction
<1>5. num_pages \in Nat /\ num_pages \in T
  BY <1>4, PageAssumption DEF IndInv, PagesInv
<1>6. s.height[p] < num_pages
  BY HeightsAreBounded
<1>7. depths[num_pages][p] = {s.height[p]}
  BY <1>5, <1>6 DEF T
<1> QED
  BY <1>1, <1>7 DEF DepthLevels

(***************************************************************************)
(* The tree is balanced in every state of every insert: all leaves are     *)
(* equally far from the root, and a pending page is exactly as high as the *)
(* half it was split from (insert, btree.cpp:123).                         *)
(***************************************************************************)
THEOREM IsBalanced == Spec => []Balanced
<1>1. IndInv /\ ShapeInv => Balanced
  <2> SUFFICES ASSUME IndInv, ShapeInv PROVE Balanced
    OBVIOUS
  <2>1. PICK s : IsShape(s)
    BY DEF ShapeInv, IsShape
  <2>2. root_pid \in Allocated
    BY DEF IndInv, PagesInv
  <2>3. LeafDepths[root_pid] = {s.height[root_pid]}
    BY <2>1, <2>2, DepthIsHeight
  <2>4. Cardinality(LeafDepths[root_pid]) = 1
    BY <2>3, FS_Singleton
  <2>5. ASSUME call.pc = "climb"
        PROVE  LeafDepths[call.left] = LeafDepths[call.right]
    <3>1. /\ ClimbShape(call, pages, s)
          /\ call.left \in Allocated /\ call.right \in Allocated
      BY <2>1, <2>5, ClimbingShape
    <3>2. s.height[call.left] = s.height[call.right]
      BY <3>1 DEF ClimbShape
    <3> QED
      BY <2>1, <3>1, <3>2, DepthIsHeight
  <2> QED
    BY <2>4, <2>5 DEF Balanced
<1> QED
  BY <1>1, Ordered, PTL

------------------------------------------------------------------------------
(***************************************************************************)
(* Answers of a query.  A part of the tree that covers the keys in         *)
(* lo < key <= hi answers a query for the cells in `set' with those that   *)
(* have such a key, in order.                                              *)
(***************************************************************************)
Cells == [key : Key, row : Row]

Sorted(cells) ==
  \A i, j \in 1 .. Len(cells) : i < j => cells[i].key < cells[j].key

Occurs(cell, cells) == \E i \in 1 .. Len(cells) : cells[i] = cell

Covers(cell, lo, hi) == lo < cell.key /\ cell.key <= hi

Answers(cells, lo, hi, set) ==
  /\ cells \in Seq(Cells)
  /\ Sorted(cells)
  /\ \A c \in Cells : Occurs(c, cells) <=> c \in set /\ Covers(c, lo, hi)

LEMMA CellKeys ==
  ASSUME NEW cells \in Seq(Cells)
  PROVE  /\ Len(cells) \in Nat
         /\ \A i \in 1 .. Len(cells) : cells[i] \in Cells /\ cells[i].key \in Int
<1>1. Len(cells) \in Nat /\ \A i \in 1 .. Len(cells) : cells[i] \in Cells
  BY LenProperties, ElementOfSeq
<1>2. \A c \in Cells : c.key \in Int
  BY InputAssumption DEF Cells, Key
<1> QED
  BY <1>1, <1>2

\* Concatenation: what occurs in it, and where.
LEMMA OccursInConcat ==
  ASSUME NEW S, NEW a \in Seq(S), NEW b \in Seq(S), NEW c
  PROVE  Occurs(c, a \o b) <=> Occurs(c, a) \/ Occurs(c, b)
<1>1. Len(a) \in Nat /\ Len(b) \in Nat
  BY LenProperties
<1> DEFINE ab == a \o b
<1>2. /\ Len(ab) = Len(a) + Len(b)
      /\ \A i \in 1 .. Len(a) + Len(b) :
           ab[i] = IF i <= Len(a) THEN a[i] ELSE b[i - Len(a)]
  BY ConcatProperties
<1> HIDE DEF ab
<1>3. ASSUME NEW i \in 1 .. Len(a)
      PROVE  i \in 1 .. Len(ab) /\ ab[i] = a[i]
  BY <1>1, <1>2
<1>4. ASSUME NEW i \in 1 .. Len(b)
      PROVE  Len(a) + i \in 1 .. Len(ab) /\ ab[Len(a) + i] = b[i]
  BY <1>1, <1>2
<1>5. ASSUME NEW i \in 1 .. Len(ab)
      PROVE  \/ i \in 1 .. Len(a) /\ ab[i] = a[i]
             \/ i - Len(a) \in 1 .. Len(b) /\ ab[i] = b[i - Len(a)]
  BY <1>1, <1>2
<1>6. Occurs(c, a) => Occurs(c, ab)
  BY <1>3 DEF Occurs
<1>7. Occurs(c, b) => Occurs(c, ab)
  BY <1>4 DEF Occurs
<1>8. Occurs(c, ab) => Occurs(c, a) \/ Occurs(c, b)
  BY <1>5 DEF Occurs
<1> QED
  BY <1>6, <1>7, <1>8 DEF ab

LEMMA SortedConcat ==
  ASSUME NEW a \in Seq(Cells), NEW b \in Seq(Cells), NEW mid \in Int, Sorted(a), Sorted(b),
         \A i \in 1 .. Len(a) : a[i].key <= mid,
         \A i \in 1 .. Len(b) : mid < b[i].key
  PROVE  Sorted(a \o b)
<1>1. /\ Len(a) \in Nat /\ Len(b) \in Nat
      /\ \A i \in 1 .. Len(a) : a[i].key \in Int
      /\ \A i \in 1 .. Len(b) : b[i].key \in Int
  BY CellKeys
<1> DEFINE ab == a \o b
<1>2. /\ Len(ab) = Len(a) + Len(b)
      /\ \A i \in 1 .. Len(a) + Len(b) :
           ab[i] = IF i <= Len(a) THEN a[i] ELSE b[i - Len(a)]
  BY ConcatProperties
<1> HIDE DEF ab
<1>3. SUFFICES ASSUME NEW i \in 1 .. Len(ab), NEW j \in 1 .. Len(ab), i < j
               PROVE  ab[i].key < ab[j].key
  BY DEF Sorted, ab
<1>4. CASE j <= Len(a)
  <2>1. i \in 1 .. Len(a) /\ j \in 1 .. Len(a) /\ ab[i] = a[i] /\ ab[j] = a[j]
    BY <1>1, <1>2, <1>3, <1>4
  <2> QED
    BY <1>3, <2>1 DEF Sorted
<1>5. CASE i > Len(a)
  <2> DEFINE x == i - Len(a)
             y == j - Len(a)
  <2>1. x \in 1 .. Len(b) /\ y \in 1 .. Len(b) /\ ab[i] = b[x] /\ ab[j] = b[y] /\ x < y
    BY <1>1, <1>2, <1>3, <1>5
  <2> HIDE DEF x, y
  <2> QED
    BY <2>1 DEF Sorted
<1>6. CASE i <= Len(a) /\ j > Len(a)
  <2> DEFINE y == j - Len(a)
  <2>1. i \in 1 .. Len(a) /\ y \in 1 .. Len(b) /\ ab[i] = a[i] /\ ab[j] = b[y]
    BY <1>1, <1>2, <1>3, <1>6
  <2> HIDE DEF y
  <2> QED
    BY <1>1, <2>1
<1> QED
  BY <1>1, <1>4, <1>5, <1>6

\* The answers of two neighbours, one after the other.
LEMMA AnswersJoin ==
  ASSUME NEW a, NEW b, NEW lo \in Int, NEW mid \in Int, NEW hi \in Int, NEW set,
         lo <= mid, mid <= hi, Answers(a, lo, mid, set), Answers(b, mid, hi, set)
  PROVE  Answers(a \o b, lo, hi, set)
<1>1. a \in Seq(Cells) /\ b \in Seq(Cells) /\ Sorted(a) /\ Sorted(b)
  BY DEF Answers
<1>2. /\ \A i \in 1 .. Len(a) : a[i] \in Cells /\ a[i].key \in Int /\ Occurs(a[i], a)
      /\ \A i \in 1 .. Len(b) : b[i] \in Cells /\ b[i].key \in Int /\ Occurs(b[i], b)
  BY <1>1, CellKeys DEF Occurs
<1>3. /\ \A i \in 1 .. Len(a) : a[i].key <= mid
      /\ \A i \in 1 .. Len(b) : mid < b[i].key
  BY <1>2 DEF Answers, Covers
<1>4. Sorted(a \o b)
  BY <1>1, <1>3, SortedConcat
<1>5. a \o b \in Seq(Cells)
  BY <1>1, ConcatProperties
<1>6. \A c \in Cells : Occurs(c, a \o b) <=> Occurs(c, a) \/ Occurs(c, b)
  BY <1>1, OccursInConcat
<1>7. \A c \in Cells : Covers(c, lo, hi) <=> Covers(c, lo, mid) \/ Covers(c, mid, hi)
  <2> TAKE c \in Cells
  <2>1. c.key \in Int
    BY InputAssumption DEF Cells, Key
  <2> QED
    BY <2>1 DEF Covers
<1> QED
  BY <1>4, <1>5, <1>6, <1>7 DEF Answers

LEMMA EmptyAnswer ==
  ASSUME NEW lo, NEW hi, NEW set, \A c \in Cells : ~(c \in set /\ Covers(c, lo, hi))
  PROVE  Answers(<<>>, lo, hi, set)
<1>1. <<>> \in Seq(Cells) /\ Len(<<>>) = 0
  OBVIOUS
<1>2. Sorted(<<>>) /\ \A c : ~Occurs(c, <<>>)
  BY <1>1 DEF Sorted, Occurs
<1> QED
  BY <1>1, <1>2 DEF Answers

\* The answers of any number of neighbours, flattened.
LEMMA FlattenAnswers ==
  ASSUME NEW n \in Nat \ {0}, NEW seqs, Len(seqs) = n, NEW bound \in [0 .. n -> Int], NEW set,
         \A k \in 1 .. n : bound[k - 1] <= bound[k]
                           /\ Answers(seqs[k], bound[k - 1], bound[k], set)
  PROVE  Answers(FlattenSeq(seqs), bound[0], bound[n], set)
<1>1. \A k \in 1 .. n : seqs[k] \in Seq(Cells)
  BY DEF Answers
<1>2. PICK g : IsFlattening(g, seqs, n)
  BY <1>1, FlattenByParts
<1> DEFINE T == {k \in Nat : k + 1 \in 1 .. n =>
                   bound[0] <= bound[k + 1] /\ Answers(g[k + 1], bound[0], bound[k + 1], set)}
<1>3. 0 \in T
  <2>1. 1 \in 1 .. n /\ 1 - 1 = 0 /\ 0 + 1 = 1
    OBVIOUS
  <2>2. bound[0] <= bound[1] /\ Answers(seqs[1], bound[0], bound[1], set)
    BY <2>1
  <2>3. g[1] = seqs[1]
    BY <1>2 DEF IsFlattening
  <2> QED
    BY <2>1, <2>2, <2>3
<1>4. ASSUME NEW k \in Nat, k \in T
      PROVE  k + 1 \in T
  <2> DEFINE j == k + 1
             m == k + 2
  <2>1. SUFFICES ASSUME m \in 1 .. n
                 PROVE  bound[0] <= bound[m] /\ Answers(g[m], bound[0], bound[m], set)
    <3>1. (k + 1) + 1 = k + 2
      OBVIOUS
    <3> QED
      BY <3>1
  <2>2. j \in 1 .. n /\ m \in 2 .. n /\ m - 1 = j /\ 0 \in 0 .. n /\ j \in 0 .. n /\ m \in 0 .. n
    BY <2>1
  <2>3. bound[0] <= bound[j] /\ Answers(g[j], bound[0], bound[j], set)
    BY <1>4, <2>2
  <2> HIDE DEF j, m
  <2>4. bound[j] <= bound[m] /\ Answers(seqs[m], bound[j], bound[m], set)
    BY <2>1, <2>2
  <2>5. g[m] = g[j] \o seqs[m]
    BY <1>2, <2>2 DEF IsFlattening
  <2>6. bound[0] \in Int /\ bound[j] \in Int /\ bound[m] \in Int
    BY <2>2
  <2>7. Answers(g[j] \o seqs[m], bound[0], bound[m], set)
    BY <2>3, <2>4, <2>6, AnswersJoin
  <2> QED
    BY <2>3, <2>4, <2>5, <2>6, <2>7
<1> HIDE DEF T
<1>5. Nat \subseteq T
  BY <1>3, <1>4, NatSetInduction
<1> DEFINE k == n - 1
<1>6. k \in Nat /\ k \in T /\ k + 1 = n /\ n \in 1 .. n
  BY <1>5
<1> HIDE DEF k
<1>7. Answers(g[n], bound[0], bound[n], set)
  BY <1>6 DEF T
<1> QED
  BY <1>2, <1>7 DEF IsFlattening

------------------------------------------------------------------------------
(***************************************************************************)
(* The cells of the tree.  The key intervals of two leaves are disjoint,   *)
(* so a stored key can be in one leaf only, and that is where find ends.   *)
(***************************************************************************)
CellFacts(p) ==
  /\ p \in Allocated /\ pages[p].kind = "leaf"
  /\ Len(pages[p].keys) \in Nat /\ pages[p].keys \in Seq(Key)
  /\ \A i \in 1 .. Len(pages[p].keys) :
       /\ pages[p].keys[i] \in Key /\ pages[p].keys[i] \in Int
       /\ pages[p].rows[i] \in Row

LEMMA LeafFacts ==
  ASSUME IndInv, NEW p \in LeafPages
  PROVE  CellFacts(p)
<1>1. p \in Allocated /\ pages[p].kind = "leaf"
  BY DEF LeafPages
<1>2. IsNode(pages[p], Allocated) /\ Len(pages[p].keys) \in Nat
  BY <1>1, PageFacts
<1>3. /\ pages[p].keys \in Seq(Key) /\ pages[p].rows \in Seq(Row)
      /\ Len(pages[p].rows) = Len(pages[p].keys)
  BY <1>1, <1>2 DEF IsNode, Node
<1>4. \A i \in 1 .. Len(pages[p].keys) :
        pages[p].keys[i] \in Key /\ pages[p].rows[i] \in Row
  BY <1>3, ElementOfSeq
<1>5. \A k \in Key : k \in Int
  BY InputAssumption DEF Key
<1> QED
  BY <1>1, <1>2, <1>3, <1>4, <1>5 DEF CellFacts

LEMMA StoredCell ==
  ASSUME IndInv, NEW c
  PROVE  /\ c \in StoredRows <=>
              \E p \in LeafPages : \E i \in 1 .. Len(pages[p].keys) :
                c = Cell(pages[p].keys[i], pages[p].rows[i])
         /\ c \in StoredRows => c \in Cells /\ c.key \in Int
<1>1. c \in StoredRows <=> \E p \in LeafPages : c \in CellsOf(pages[p])
  BY DEF StoredRows
<1>2. c \in StoredRows <=>
        \E p \in LeafPages : \E i \in 1 .. Len(pages[p].keys) :
          c = Cell(pages[p].keys[i], pages[p].rows[i])
  BY <1>1 DEF CellsOf
<1>3. ASSUME NEW p \in LeafPages, NEW i \in 1 .. Len(pages[p].keys)
      PROVE  LET d == Cell(pages[p].keys[i], pages[p].rows[i]) IN d \in Cells /\ d.key \in Int
  BY <1>3, LeafFacts DEF CellFacts, Cells, Cell
<1> QED
  BY <1>2, <1>3

\* A stored cell whose key is in the interval of a leaf is in that leaf.
LEMMA OwnCells ==
  ASSUME IndInv, NEW s, IsShape(s), NEW p \in LeafPages, NEW c \in StoredRows,
         Covers(c, s.lo[p], s.hi[p])
  PROVE  \E i \in 1 .. Len(pages[p].keys) : c = Cell(pages[p].keys[i], pages[p].rows[i])
<1>1. PICK q \in LeafPages : \E i \in 1 .. Len(pages[q].keys) :
        c = Cell(pages[q].keys[i], pages[q].rows[i])
  BY StoredCell
<1>2. PICK i \in 1 .. Len(pages[q].keys) : c = Cell(pages[q].keys[i], pages[q].rows[i])
  BY <1>1
<1>3. c.key = pages[q].keys[i]
  BY <1>2 DEF Cell
<1>4. /\ WellLinked(pages, Allocated, root_pid) /\ s \in Shapes
      /\ TreeShape(pages, Allocated, root_pid, s)
      /\ p \in Allocated /\ q \in Allocated
      /\ pages[p].kind = "leaf" /\ pages[q].kind = "leaf"
  BY PagesAreWellLinked DEF IndInv, IsShape, LeafPages
<1>5. /\ s.lo[p] \in Int /\ s.hi[p] \in Int /\ s.lo[q] \in Int /\ s.hi[q] \in Int
      /\ PageShape(pages, root_pid, s, q)
  BY <1>4, ShapeOfPage
<1>6. s.lo[q] < c.key /\ c.key <= s.hi[q] /\ c.key \in Int
  BY <1>2, <1>3, <1>5, LeafFacts DEF PageShape, NodeOrdered, Within, CellFacts
<1>7. p = q
  <2>1. p # q => s.hi[p] <= s.lo[q] \/ s.hi[q] <= s.lo[p]
    BY <1>4 DEF TreeShape, LeavesApart
  <2> QED
    BY <1>5, <1>6, <2>1 DEF Covers
<1> QED
  BY <1>2, <1>7

InRange(min_key, max_key) ==
  {c \in StoredRows : c.key >= min_key /\ c.key <= max_key}

LeafPart(node, min_key, max_key, i) ==
  IF min_key <= node.keys[i] /\ node.keys[i] <= max_key
  THEN <<Cell(node.keys[i], node.rows[i])>> ELSE <<>>

\* What a leaf contributes with one of its cells.
LEMMA PartAnswers ==
  ASSUME IndInv, NEW s, IsShape(s), NEW p \in LeafPages,
         NEW min_key \in Int, NEW max_key \in Int, NEW i \in 1 .. Len(pages[p].keys),
         NEW lo \in Int, s.lo[p] <= lo, lo < pages[p].keys[i],
         \A j \in 1 .. Len(pages[p].keys) : j < i => pages[p].keys[j] <= lo
  PROVE  Answers(LeafPart(pages[p], min_key, max_key, i), lo, pages[p].keys[i],
                 InRange(min_key, max_key))
<1> DEFINE keys == pages[p].keys
           d    == Cell(keys[i], pages[p].rows[i])
           set  == InRange(min_key, max_key)
<1>1. /\ Len(keys) \in Nat /\ \A j \in 1 .. Len(keys) : keys[j] \in Int
      /\ d \in Cells /\ d.key = keys[i]
  BY LeafFacts DEF CellFacts, Cells, Cell
<1>2. /\ Ascending(keys) /\ s.lo[p] \in Int /\ s.hi[p] \in Int
      /\ \A j \in 1 .. Len(keys) : keys[j] <= s.hi[p]
  <2>1. /\ WellLinked(pages, Allocated, root_pid) /\ s \in Shapes
        /\ TreeShape(pages, Allocated, root_pid, s) /\ p \in Allocated
    BY PagesAreWellLinked DEF IndInv, IsShape, LeafPages
  <2> QED
    BY <2>1, ShapeOfPage DEF PageShape, NodeOrdered, Within
<1>3. d \in StoredRows
  BY StoredCell
<1>4. ASSUME NEW c \in StoredRows, Covers(c, lo, keys[i])
      PROVE  c = d
  <2>1. c.key \in Int
    BY <1>4, StoredCell
  <2>2. Covers(c, s.lo[p], s.hi[p])
    BY <1>1, <1>2, <1>4, <2>1 DEF Covers
  <2>3. PICK j \in 1 .. Len(keys) : c = Cell(keys[j], pages[p].rows[j])
    BY <2>2, <1>4, OwnCells
  <2>4. c.key = keys[j]
    BY <2>3 DEF Cell
  <2>5. ~(j < i)
    BY <1>1, <1>4, <2>1, <2>4 DEF Covers
  <2>6. ~(i < j)
    BY <1>1, <1>2, <1>4, <2>1, <2>4 DEF Covers, Ascending
  <2>7. i = j
    BY <1>1, <2>5, <2>6
  <2> QED
    BY <2>3, <2>7
<1>5. CASE min_key <= keys[i] /\ keys[i] <= max_key
  <2>1. LeafPart(pages[p], min_key, max_key, i) = <<d>>
    BY <1>5 DEF LeafPart
  <2>2. d \in set /\ Covers(d, lo, keys[i])
    BY <1>1, <1>3, <1>5 DEF InRange, Covers
  <2>3. \A c \in Cells : c \in set /\ Covers(c, lo, keys[i]) <=> c = d
    BY <1>4, <2>2 DEF InRange
  <2> HIDE DEF d, set
  <2>4. <<d>> \in Seq(Cells) /\ Len(<<d>>) = 1 /\ <<d>>[1] = d
    BY <1>1
  <2>5. Sorted(<<d>>) /\ \A c : Occurs(c, <<d>>) <=> c = d
    BY <2>4 DEF Sorted, Occurs
  <2> QED
    BY <2>1, <2>3, <2>4, <2>5 DEF Answers, set
<1>6. CASE ~(min_key <= keys[i] /\ keys[i] <= max_key)
  <2>1. LeafPart(pages[p], min_key, max_key, i) = <<>>
    BY <1>6 DEF LeafPart
  <2>2. \A c \in Cells : ~(c \in set /\ Covers(c, lo, keys[i]))
    BY <1>1, <1>4, <1>6 DEF InRange
  <2> QED
    BY <2>1, <2>2, EmptyAnswer
<1> QED
  BY <1>5, <1>6

\* An answer for an interval is one for a larger interval where nothing more is stored.
LEMMA WidenAnswer ==
  ASSUME NEW cells, NEW lo \in Int, NEW hi \in Int, NEW from \in Int, NEW to \in Int, NEW set,
         lo <= from, to <= hi, Answers(cells, from, to, set),
         \A c \in Cells : c \in set /\ Covers(c, lo, hi) => Covers(c, from, to)
  PROVE  Answers(cells, lo, hi, set)
<1>1. \A c \in Cells : Covers(c, from, to) => Covers(c, lo, hi)
  <2> TAKE c \in Cells
  <2>1. c.key \in Int
    BY InputAssumption DEF Cells, Key
  <2> QED
    BY <2>1 DEF Covers
<1> QED
  BY <1>1 DEF Answers

LEMMA LeafAnswers ==
  ASSUME IndInv, NEW s, IsShape(s), NEW p \in LeafPages, pages[p].keys # <<>>,
         NEW min_key \in Int, NEW max_key \in Int
  PROVE  Answers(CellsInLeaf(pages[p], min_key, max_key), s.lo[p], s.hi[p],
                 InRange(min_key, max_key))
<1> DEFINE keys  == pages[p].keys
           n     == Len(keys)
           lo    == s.lo[p]
           hi    == s.hi[p]
           set   == InRange(min_key, max_key)
           bound == [k \in 0 .. n |-> IF k = 0 THEN lo ELSE keys[k]]
           seqs  == [k \in 1 .. n |-> LeafPart(pages[p], min_key, max_key, k)]
<1>1. /\ n \in Nat \ {0} /\ \A j \in 1 .. n : keys[j] \in Int
  <2>1. n \in Nat /\ keys \in Seq(Key) /\ \A j \in 1 .. n : keys[j] \in Int
    BY LeafFacts DEF CellFacts
  <2>2. n # 0
    BY <2>1, EmptySeq
  <2> QED
    BY <2>1, <2>2
<1>2. /\ Ascending(keys) /\ lo \in Int /\ hi \in Int
      /\ \A j \in 1 .. n : lo < keys[j] /\ keys[j] <= hi
  <2>1. /\ WellLinked(pages, Allocated, root_pid) /\ s \in Shapes
        /\ TreeShape(pages, Allocated, root_pid, s) /\ p \in Allocated
    BY PagesAreWellLinked DEF IndInv, IsShape, LeafPages
  <2> QED
    BY <2>1, ShapeOfPage DEF PageShape, NodeOrdered, Within
<1>3. Len(seqs) = n
  BY <1>1
<1>4. \A k \in 1 .. n : seqs[k] = LeafPart(pages[p], min_key, max_key, k)
  OBVIOUS
<1>5. CellsInLeaf(pages[p], min_key, max_key) = FlattenSeq(seqs)
  BY DEF CellsInLeaf, LeafPart
<1>6. bound \in [0 .. n -> Int] /\ bound[0] = lo /\ \A k \in 1 .. n : bound[k] = keys[k]
  BY <1>1, <1>2
<1> HIDE DEF seqs, bound, set
<1>7. ASSUME NEW k \in 1 .. n
      PROVE  bound[k - 1] <= bound[k] /\ Answers(seqs[k], bound[k - 1], bound[k], set)
  <2> DEFINE below == bound[k - 1]
  <2>1. /\ below \in Int /\ lo <= below /\ below < keys[k]
        /\ \A j \in 1 .. n : j < k => keys[j] <= below
    <3>1. CASE k = 1
      <4>1. below = lo
        BY <1>6, <3>1
      <4> QED
        BY <1>1, <1>2, <3>1, <4>1
    <3>2. CASE k # 1
      <4> DEFINE i == k - 1
      <4>1. i \in 1 .. n /\ i < k /\ below = keys[i] /\ \A j \in 1 .. n : j < k => j < i \/ j = i
        BY <1>1, <1>6, <3>2
      <4> HIDE DEF i, below
      <4>2. below \in Int /\ lo <= below /\ keys[i] < keys[k]
        BY <1>1, <1>2, <4>1 DEF Ascending
      <4>3. ASSUME NEW j \in 1 .. n, j < k
            PROVE  keys[j] <= below
        <5>1. j = i \/ keys[j] < keys[i]
          BY <1>2, <4>1, <4>3 DEF Ascending
        <5> QED
          BY <1>1, <4>1, <5>1
      <4> QED
        BY <4>1, <4>2, <4>3
    <3> QED
      BY <3>1, <3>2
  <2> HIDE DEF below
  <2>2. Answers(LeafPart(pages[p], min_key, max_key, k), below, keys[k], InRange(min_key, max_key))
    BY <2>1, PartAnswers
  <2> QED
    BY <1>1, <1>4, <1>6, <2>1, <2>2 DEF below, set
<1>8. Answers(FlattenSeq(seqs), lo, keys[n], set)
  <2>1. Answers(FlattenSeq(seqs), bound[0], bound[n], set)
    BY <1>1, <1>3, <1>6, <1>7, FlattenAnswers
  <2>2. n \in 1 .. n
    BY <1>1
  <2> QED
    BY <1>6, <2>1, <2>2
<1>9. keys[n] \in Int /\ keys[n] <= hi
  BY <1>1, <1>2
<1>10. ASSUME NEW c \in Cells, c \in set, Covers(c, lo, hi)
       PROVE  Covers(c, lo, keys[n])
  <2>1. c \in StoredRows
    BY <1>10 DEF set, InRange
  <2>2. PICK j \in 1 .. n : c = Cell(keys[j], pages[p].rows[j])
    BY <1>10, <2>1, OwnCells
  <2>3. c.key = keys[j]
    BY <2>2 DEF Cell
  <2>4. j = n \/ keys[j] < keys[n]
    BY <1>1, <1>2 DEF Ascending
  <2> QED
    BY <1>1, <1>10, <2>3, <2>4 DEF Covers
<1>11. Answers(FlattenSeq(seqs), lo, hi, set)
  BY <1>2, <1>8, <1>9, <1>10, WidenAnswer
<1> QED
  BY <1>5, <1>11 DEF set

------------------------------------------------------------------------------
(***************************************************************************)
(* The children a query visits: those it leaves out hold no key of its     *)
(* range, and what the others answer, put together, is the node's answer.  *)
(***************************************************************************)
\* In a sorted node, the keys below x are the first ones, and they are counted.
LEMMA CountBelow ==
  ASSUME NEW keys \in Seq(Key), Ascending(keys), NEW x \in Int,
         NEW k, k = Cardinality({i \in 1 .. Len(keys) : keys[i] < x})
  PROVE  k \in 0 .. Len(keys) /\ \A i \in 1 .. Len(keys) : keys[i] < x <=> i <= k
<1> DEFINE n     == Len(keys)
           T     == {m \in Nat : m <= n => \E j \in 0 .. m :
                       \A i \in 1 .. m : keys[i] < x <=> i <= j}
           small == {i \in 1 .. Len(keys) : keys[i] < x}
<1>1. n \in Nat /\ \A i \in 1 .. n : keys[i] \in Int
  BY LenProperties, ElementOfSeq, InputAssumption DEF Key
<1>2. 0 \in T
  BY <1>1
<1>3. ASSUME NEW m \in Nat, m \in T
      PROVE  m + 1 \in T
  <2> DEFINE next == m + 1
  <2> SUFFICES ASSUME next <= n
               PROVE  \E j \in 0 .. next : \A i \in 1 .. next : keys[i] < x <=> i <= j
    OBVIOUS
  <2>1. PICK j \in 0 .. m : \A i \in 1 .. m : keys[i] < x <=> i <= j
    BY <1>1, <1>3
  <2>2. /\ next \in 1 .. n /\ next = m + 1
        /\ \A i \in 1 .. next : i = next \/ (i \in 1 .. m /\ i < next)
    BY <1>1
  <2> HIDE DEF next
  <2>3. CASE keys[next] < x
    <3>1. \A i \in 1 .. next : keys[i] < x
      <4> TAKE i \in 1 .. next
      <4>1. i = next \/ (i \in 1 .. n /\ keys[i] < keys[next])
        BY <1>1, <2>2 DEF Ascending
      <4>2. keys[next] \in Int /\ (i \in 1 .. n => keys[i] \in Int)
        BY <1>1, <2>2
      <4> QED
        BY <2>3, <4>1, <4>2
    <3>2. next \in 0 .. next /\ \A i \in 1 .. next : i <= next
      BY <1>1, <2>2
    <3> QED
      BY <3>1, <3>2
  <2>4. CASE ~(keys[next] < x)
    <3>1. j \in 0 .. next /\ ~(next <= j)
      BY <2>1, <2>2
    <3>2. \A i \in 1 .. next : keys[i] < x <=> i <= j
      BY <2>1, <2>2, <2>4, <3>1
    <3> QED
      BY <3>1, <3>2
  <2> QED
    BY <2>3, <2>4
<1> HIDE DEF T
<1>4. n \in T
  BY <1>1, <1>2, <1>3, NatSetInduction
<1>5. PICK j \in 0 .. n : \A i \in 1 .. n : keys[i] < x <=> i <= j
  BY <1>1, <1>4 DEF T
<1>6. small = 1 .. j
  BY <1>1, <1>5
<1>7. Cardinality(1 .. j) = j
  <2>1. 1 \in Int /\ j \in Int /\ (1 > j \/ j - 1 + 1 = j) /\ (1 > j => j = 0)
    BY <1>1, <1>5
  <2>2. Cardinality(1 .. j) = IF 1 > j THEN 0 ELSE j - 1 + 1
    BY <2>1, FS_Interval
  <2> QED
    BY <2>1, <2>2
<1>8. k = j
  BY <1>6, <1>7
<1> QED
  BY <1>5, <1>8

\* The first and the last child a query visits: no child before the first and
\* no child after the last has a key in the range (btree.cpp:316-321).
VisitsAll(keys, min_key, max_key) ==
  LET n     == Len(keys)
      first == FirstChild(keys, min_key)
      last  == LastChild(keys, max_key)
  IN  /\ first \in 1 .. n + 1 /\ last \in 1 .. n + 1
      /\ first = 1 \/ keys[first - 1] < min_key
      /\ last = n + 1 \/ max_key <= keys[last]
      /\ min_key <= max_key => first <= last

LEMMA VisitedChildren ==
  ASSUME NEW keys \in Seq(Key), Ascending(keys), NEW min_key \in Int, NEW max_key \in Int
  PROVE  VisitsAll(keys, min_key, max_key)
<1> DEFINE n == Len(keys)
           f == Cardinality({i \in 1 .. Len(keys) : keys[i] < min_key})
           l == Cardinality({i \in 1 .. Len(keys) : keys[i] < max_key})
<1>1. n \in Nat /\ \A i \in 1 .. n : keys[i] \in Int
  BY LenProperties, ElementOfSeq, InputAssumption DEF Key
<1>2. f \in 0 .. n /\ \A i \in 1 .. n : keys[i] < min_key <=> i <= f
  BY CountBelow
<1>3. l \in 0 .. n /\ \A i \in 1 .. n : keys[i] < max_key <=> i <= l
  BY CountBelow
<1>4. FirstChild(keys, min_key) = f + 1 /\ LastChild(keys, max_key) = l + 1
  <2>1. FirstChild(keys, min_key) = 1 + f /\ LastChild(keys, max_key) = 1 + l
    BY DEF FirstChild, LastChild
  <2> HIDE DEF f, l
  <2> QED
    BY <1>2, <1>3, <2>1
<1> HIDE DEF f, l
<1>5. f + 1 = 1 \/ keys[(f + 1) - 1] < min_key
  <2>1. f = 0 \/ (f \in 1 .. n /\ f <= f /\ (f + 1) - 1 = f)
    BY <1>1, <1>2
  <2> QED
    BY <1>2, <2>1
<1>6. l + 1 = n + 1 \/ max_key <= keys[l + 1]
  <2>1. l = n \/ (l + 1 \in 1 .. n /\ ~(l + 1 <= l))
    BY <1>1, <1>3
  <2> QED
    BY <1>1, <1>3, <2>1
<1>7. min_key <= max_key => f + 1 <= l + 1
  <2> SUFFICES ASSUME min_key <= max_key, l < f PROVE FALSE
    BY <1>2, <1>3
  <2>1. f \in 1 .. n /\ f <= f /\ ~(f <= l)
    BY <1>1, <1>2, <1>3
  <2>2. keys[f] < min_key /\ ~(keys[f] < max_key) /\ keys[f] \in Int
    BY <1>1, <1>2, <1>3, <2>1
  <2> QED
    BY <2>2
<1> QED
  BY <1>1, <1>2, <1>3, <1>4, <1>5, <1>6, <1>7 DEF VisitsAll

\* An inner node answers a query if its children do.
LEMMA InnerAnswers ==
  ASSUME IndInv, NEW s, IsShape(s), s.up = s.hi, NEW p \in InnerPages,
         pages[p].keys # <<>>, NEW min_key \in Int, NEW max_key \in Int,
         min_key <= max_key, NEW deeper, NEW set, \A c \in set : min_key <= c.key /\ c.key <= max_key,
         \A c \in ChildPages(p) : Answers(deeper[c], s.lo[c], s.hi[c], set)
  PROVE  Answers(CellsInChildren(pages[p], min_key, max_key, deeper), s.lo[p], s.hi[p], set)
<1> DEFINE keys  == pages[p].keys
           kids  == pages[p].children
           n     == Len(keys)
           lo    == s.lo[p]
           hi    == s.hi[p]
           first == FirstChild(keys, min_key)
           last  == LastChild(keys, max_key)
           m     == last - first + 1
           seqs  == [i \in 1 .. m |-> deeper[kids[first + i - 1]]]
           bound == [k \in 0 .. m |-> IF k = 0 THEN Lower(keys, lo, first)
                                      ELSE Upper(keys, hi, first + k - 1)]
<1>1. /\ WellLinked(pages, Allocated, root_pid) /\ s \in Shapes
      /\ TreeShape(pages, Allocated, root_pid, s) /\ p \in Allocated
      /\ pages[p].kind = "inner"
  BY PagesAreWellLinked DEF IndInv, IsShape, InnerPages
<1>2. /\ keys \in Seq(Key) /\ n \in Nat /\ n # 0 /\ Len(kids) = n + 1
      /\ \A i \in 1 .. n : keys[i] \in Int
  <2>1. /\ keys \in Seq(Key) /\ n \in Nat /\ Len(kids) = n + 1
        /\ \A i \in 1 .. n : keys[i] \in Int
    BY <1>1, LinkedPage
  <2>2. n # 0
    BY <2>1, EmptySeq
  <2> QED
    BY <2>1, <2>2
<1>3. /\ lo \in Int /\ hi \in Int /\ Ascending(keys)
      /\ \A i \in 1 .. n : lo < keys[i] /\ keys[i] < hi
  BY <1>1, <1>2, ShapeOfPage DEF PageShape, NodeOrdered, Within
<1>4. VisitsAll(keys, min_key, max_key)
  BY <1>2, <1>3, VisitedChildren
<1>5. /\ first \in 1 .. n + 1 /\ last \in 1 .. n + 1 /\ first <= last
      /\ first = 1 \/ keys[first - 1] < min_key
      /\ last = n + 1 \/ max_key <= keys[last]
  BY <1>4 DEF VisitsAll
<1>6. CellsInChildren(pages[p], min_key, max_key, deeper) = FlattenSeq(seqs)
  BY DEF CellsInChildren
<1> HIDE DEF first, last
<1>7. /\ m \in Nat \ {0} /\ Len(seqs) = m
      /\ first \in Nat /\ last \in Nat /\ 1 <= first /\ last <= n + 1
      /\ \A k \in 1 .. m : k \in Nat /\ first + k - 1 \in 1 .. n + 1
  <2>1. /\ first \in Nat /\ last \in Nat /\ 1 <= first /\ last <= n + 1
        /\ first <= last
    BY <1>2, <1>5
  <2>2. m \in Nat \ {0} /\ Len(seqs) = m
    BY <2>1
  <2>3. ASSUME NEW k \in 1 .. m
        PROVE  k \in Nat /\ first + k - 1 \in 1 .. n + 1
    BY <1>2, <2>1, <2>2
  <2> QED
    BY <2>1, <2>2, <2>3
<1>8. ASSUME NEW i \in 1 .. n + 1
      PROVE  /\ Lower(keys, lo, i) \in Int /\ Upper(keys, hi, i) \in Int
             /\ Lower(keys, lo, i) <= Upper(keys, hi, i)
             /\ i # 1 => Lower(keys, lo, i) = Upper(keys, hi, i - 1)
             /\ lo <= Lower(keys, lo, i) /\ Upper(keys, hi, i) <= hi
  <2> HIDE DEF keys, lo, hi, n
  <2>1. CASE i = 1
    <3>1. Lower(keys, lo, i) = lo
      BY <2>1 DEF Lower
    <3>2. Upper(keys, hi, i) = keys[1] /\ 1 \in 1 .. n
      BY <1>2, <2>1 DEF Upper, n
    <3>3. keys[1] \in Int /\ lo < keys[1] /\ keys[1] < hi
      BY <1>2, <1>3, <3>2
    <3> QED
      BY <1>3, <2>1, <3>1, <3>2, <3>3
  <2>2. CASE i # 1
    <3> DEFINE j == i - 1
    <3>1. j \in 1 .. n /\ j # Len(keys) + 1 /\ Lower(keys, lo, i) = keys[j] /\ Upper(keys, hi, j) = keys[j]
      BY <1>2, <2>2 DEF Lower, Upper, n
    <3>2. i = n + 1 \/ (i \in 1 .. n /\ j < i)
      BY <1>2
    <3>3. Upper(keys, hi, i) = IF i = n + 1 THEN hi ELSE keys[i]
      BY DEF Upper, n
    <3> HIDE DEF j
    <3>4. i # n + 1 => keys[j] < keys[i] /\ keys[i] \in Int /\ keys[i] < hi
      BY <1>2, <1>3, <3>1, <3>2 DEF Ascending, n
    <3> QED
      BY <1>2, <1>3, <2>2, <3>1, <3>2, <3>3, <3>4 DEF j
  <2> QED
    BY <2>1, <2>2
<1>9. ASSUME NEW i \in 1 .. n + 1
      PROVE  /\ kids[i] \in ChildPages(p)
             /\ s.lo[kids[i]] = Lower(keys, lo, i) /\ s.hi[kids[i]] = Upper(keys, hi, i)
  <2>1. kids[i] \in ChildPages(p)
    BY <1>2 DEF ChildPages
  <2>2. i \in 1 .. Len(pages[p].keys) + 1
    BY <1>9
  <2>3. /\ s.lo[pages[p].children[i]] = Lower(pages[p].keys, s.lo[p], i)
        /\ s.up[pages[p].children[i]] = Upper(pages[p].keys, s.hi[p], i)
    BY <1>1, <2>2, ShapeOfLink
  <2> QED
    BY <2>1, <2>3
<1> HIDE DEF keys, kids, lo, hi, n
<1>10. /\ bound \in [0 .. m -> Int] /\ bound[0] = Lower(keys, lo, first)
       /\ \A k \in 1 .. m : bound[k] = Upper(keys, hi, first + k - 1)
  <2>1. \A k \in 1 .. m : first + k - 1 \in 1 .. n + 1
    BY <1>7
  <2>2. \A k \in 0 .. m : k = 0 \/ k \in 1 .. m
    BY <1>7
  <2>3. 0 \in 0 .. m /\ \A k \in 1 .. m : k \in 0 .. m /\ k # 0
    BY <1>7
  <2>4. Lower(keys, lo, first) \in Int /\ \A k \in 1 .. m : Upper(keys, hi, first + k - 1) \in Int
    BY <1>5, <1>8, <2>1
  <2> HIDE DEF m
  <2> QED
    BY <2>2, <2>3, <2>4
<1> HIDE DEF bound
<1>11. ASSUME NEW k \in 1 .. m
       PROVE  bound[k - 1] <= bound[k] /\ Answers(seqs[k], bound[k - 1], bound[k], set)
  <2> DEFINE i == first + k - 1
  <2>1. i \in 1 .. n + 1 /\ seqs[k] = deeper[kids[i]] /\ bound[k] = Upper(keys, hi, i)
    BY <1>7, <1>10
  <2>2. bound[k - 1] = Lower(keys, lo, i)
    <3>1. CASE k = 1
      <4>1. i = first /\ k - 1 = 0
        BY <1>2, <1>5, <3>1
      <4> QED
        BY <1>10, <4>1
    <3>2. CASE k # 1
      <4>1. first \in Nat /\ last \in Nat /\ 1 <= first /\ k \in Nat /\ k > 1
        BY <1>7, <3>2
      <4>2. k - 1 \in 1 .. m /\ first + (k - 1) - 1 = i - 1 /\ i # 1
        BY <4>1
      <4>3. bound[k - 1] = Upper(keys, hi, i - 1)
        BY <1>10, <4>2
      <4> QED
        BY <1>8, <2>1, <4>2, <4>3
    <3> QED
      BY <3>1, <3>2
  <2> HIDE DEF i, seqs
  <2>3. Answers(deeper[kids[i]], s.lo[kids[i]], s.hi[kids[i]], set)
    BY <1>9, <2>1
  <2> QED
    BY <1>8, <1>9, <2>1, <2>2, <2>3
<1> HIDE DEF seqs
<1>12. Answers(FlattenSeq(seqs), Lower(keys, lo, first), Upper(keys, hi, last), set)
  <2>1. m \in 1 .. m /\ first + m - 1 = last
    BY <1>2, <1>5, <1>7
  <2> HIDE DEF m
  <2>2. Answers(FlattenSeq(seqs), bound[0], bound[m], set)
    BY <1>7, <1>10, <1>11, FlattenAnswers
  <2> QED
    BY <1>10, <2>1, <2>2
<1>13. ASSUME NEW c \in Cells, c \in set, Covers(c, lo, hi)
       PROVE  Covers(c, Lower(keys, lo, first), Upper(keys, hi, last))
  <2>1. c.key \in Int /\ min_key <= c.key /\ c.key <= max_key
    BY <1>13, InputAssumption DEF Cells, Key
  <2>2. Lower(keys, lo, first) < c.key
    <3>1. CASE first = 1
      BY <1>13, <3>1 DEF Covers, Lower
    <3>2. CASE first # 1
      <4>1. Lower(keys, lo, first) = keys[first - 1] /\ keys[first - 1] < min_key
        BY <1>5, <3>2 DEF Lower
      <4>2. Lower(keys, lo, first) \in Int
        BY <1>5, <1>8
      <4> QED
        BY <2>1, <4>1, <4>2
    <3> QED
      BY <3>1, <3>2
  <2>3. c.key <= Upper(keys, hi, last)
    <3>1. CASE last = n + 1
      BY <1>13, <3>1 DEF Covers, Upper, n
    <3>2. CASE last # n + 1
      <4>1. Upper(keys, hi, last) = keys[last] /\ max_key <= keys[last]
        BY <1>5, <3>2 DEF Upper, n
      <4>2. Upper(keys, hi, last) \in Int
        BY <1>5, <1>8
      <4> QED
        BY <2>1, <4>1, <4>2
    <3> QED
      BY <3>1, <3>2
  <2> QED
    BY <2>2, <2>3 DEF Covers
<1>14. Answers(FlattenSeq(seqs), lo, hi, set)
  <2>1. /\ Lower(keys, lo, first) \in Int /\ Upper(keys, hi, last) \in Int
        /\ lo <= Lower(keys, lo, first) /\ Upper(keys, hi, last) <= hi
    BY <1>5, <1>8
  <2> QED
    BY <1>3, <1>12, <1>13, <2>1, WidenAnswer
<1> QED
  BY <1>6, <1>14 DEF lo, hi

------------------------------------------------------------------------------
(***************************************************************************)
(* The whole tree.  The root of a tree of several levels is never without  *)
(* keys, or else a query would take it for an empty leaf (btree.cpp:306).  *)
(* By induction over the levels, a page answers for all keys below it.     *)
(***************************************************************************)
RootHasKeys == pages[root_pid].kind = "inner" => pages[root_pid].keys # <<>>

LEMMA InnerHasKeys ==
  ASSUME IndInv, RootHasKeys, NEW p \in InnerPages
  PROVE  pages[p].keys # <<>>
<1>1. p \in Allocated /\ pages[p].kind = "inner"
  BY DEF InnerPages
<1>2. CASE p = root_pid
  BY <1>1, <1>2 DEF RootHasKeys
<1>3. CASE p # root_pid
  <2>1. 2 * Len(pages[p].keys) >= InnerLoad /\ Len(pages[p].keys) \in Nat
    BY <1>1, <1>3, PageFacts DEF PageInv, HalfLoaded, LoadOfKind
  <2>2. InnerLoad \in Nat /\ InnerLoad > 0
    BY LoadsAreEven, Halves
  <2> QED
    BY <2>1, <2>2
<1> QED
  BY <1>2, <1>3

\* Concatenating parts of any type gives a sequence of that type.
LEMMA FlattenType ==
  ASSUME NEW S, NEW n \in Nat, NEW seqs, Len(seqs) = n, seqs \in Seq(Seq(S))
  PROVE  FlattenSeq(seqs) \in Seq(S)
<1>1. CASE n = 0
  <2>1. seqs = <<>>
    BY <1>1, EmptySeq
  <2>2. FlattenSeq(seqs) = seqs
    BY <1>1 DEF FlattenSeq
  <2> QED
    BY <2>1, <2>2, EmptySeq
<1>2. CASE n # 0
  <2>1. \A k \in 1 .. n : seqs[k] \in Seq(S)
    BY ElementOfSeq
  <2>2. PICK g : IsFlattening(g, seqs, n)
    BY <1>2, <2>1, FlattenByParts
  <2> DEFINE T == {k \in Nat : k + 1 \in 1 .. n => g[k + 1] \in Seq(S)}
  <2>3. 0 \in T
    <3>1. 0 + 1 = 1 /\ 1 \in 1 .. n
      BY <1>2
    <3> QED
      BY <2>1, <2>2, <3>1 DEF IsFlattening
  <2>4. ASSUME NEW k \in Nat, k \in T
        PROVE  k + 1 \in T
    <3> DEFINE m == (k + 1) + 1
    <3>1. SUFFICES ASSUME m \in 1 .. n
                   PROVE  g[m] \in Seq(S)
      OBVIOUS
    <3>2. m \in 2 .. n /\ m - 1 = k + 1 /\ k + 1 \in 1 .. n
      BY <3>1
    <3>3. g[k + 1] \in Seq(S)
      BY <2>4, <3>2
    <3> HIDE DEF m
    <3>4. g[m] = g[k + 1] \o seqs[m] /\ seqs[m] \in Seq(S)
      BY <2>1, <2>2, <3>1, <3>2 DEF IsFlattening
    <3> QED
      BY <3>3, <3>4, ConcatProperties
  <2> HIDE DEF T
  <2>5. Nat \subseteq T
    BY <2>3, <2>4, NatSetInduction
  <2> DEFINE k == n - 1
  <2>6. k \in Nat /\ k \in T /\ k + 1 = n /\ n \in 1 .. n
    BY <1>2, <2>5
  <2> HIDE DEF k
  <2>7. g[n] \in Seq(S)
    BY <2>6 DEF T
  <2> QED
    BY <2>2, <2>7 DEF IsFlattening
<1> QED
  BY <1>1, <1>2

LEMMA CellsInLeafType ==
  ASSUME IndInv, NEW p \in LeafPages, NEW min_key, NEW max_key
  PROVE  CellsInLeaf(pages[p], min_key, max_key) \in Seq(Cells)
<1> DEFINE n    == Len(pages[p].keys)
           seqs == [k \in 1 .. n |-> LeafPart(pages[p], min_key, max_key, k)]
<1>1. n \in Nat
  BY LeafFacts DEF CellFacts
<1>2. ASSUME NEW k \in 1 .. n
      PROVE  LeafPart(pages[p], min_key, max_key, k) \in Seq(Cells)
  <2>1. Cell(pages[p].keys[k], pages[p].rows[k]) \in Cells
    BY LeafFacts DEF CellFacts, Cells, Cell
  <2> QED
    BY <2>1 DEF LeafPart
<1>3. seqs \in Seq(Seq(Cells)) /\ Len(seqs) = n
  BY <1>1, <1>2
<1>4. CellsInLeaf(pages[p], min_key, max_key) = FlattenSeq(seqs)
  BY DEF CellsInLeaf, LeafPart
<1> HIDE DEF seqs
<1> QED
  BY <1>1, <1>3, <1>4, FlattenType

LEMMA CellsInChildrenType ==
  ASSUME IndInv, NEW s, IsShape(s), NEW p \in InnerPages,
         NEW min_key \in Int, NEW max_key \in Int, NEW deeper \in [Allocated -> Seq(Cells)]
  PROVE  CellsInChildren(pages[p], min_key, max_key, deeper) \in Seq(Cells)
<1> DEFINE keys  == pages[p].keys
           kids  == pages[p].children
           n     == Len(keys)
           first == FirstChild(keys, min_key)
           last  == LastChild(keys, max_key)
           m     == last - first + 1
           seqs  == [i \in 1 .. m |-> deeper[kids[first + i - 1]]]
<1>1. /\ WellLinked(pages, Allocated, root_pid) /\ s \in Shapes
      /\ TreeShape(pages, Allocated, root_pid, s) /\ p \in Allocated
      /\ pages[p].kind = "inner"
  BY PagesAreWellLinked DEF IndInv, IsShape, InnerPages
<1>2. /\ keys \in Seq(Key) /\ n \in Nat /\ Ascending(keys)
      /\ \A i \in 1 .. n + 1 : kids[i] \in Allocated
  BY <1>1, LinkedPage, ShapeOfPage DEF PageShape, NodeOrdered
<1>3. first \in 1 .. n + 1 /\ last \in 1 .. n + 1
  BY <1>2, VisitedChildren DEF VisitsAll
<1>4. CellsInChildren(pages[p], min_key, max_key, deeper) = FlattenSeq(seqs)
  BY DEF CellsInChildren
<1> HIDE DEF first, last
<1>5. \A i \in 1 .. m : first + i - 1 \in 1 .. n + 1
  BY <1>2, <1>3
<1>6. \A i \in 1 .. m : deeper[kids[first + i - 1]] \in Seq(Cells)
  BY <1>2, <1>5
<1> HIDE DEF keys, kids, n
<1> DEFINE len == Len(seqs)
<1>7. CASE m \in Nat
  <2>1. seqs \in Seq(Seq(Cells)) /\ Len(seqs) = m
    <3> HIDE DEF m
    <3> QED
      BY <1>6, <1>7
  <2> HIDE DEF seqs, m
  <2> QED
    BY <1>4, <1>7, <2>1, FlattenType
<1>8. CASE m \notin Nat
  <2>1. seqs = <<>>
    <3>1. 1 .. m = {}
      BY <1>2, <1>3, <1>8
    <3> QED
      BY <3>1
  <2>2. <<>> \in Seq(Seq(Cells)) /\ Len(<<>>) = 0
    OBVIOUS
  <2>3. FlattenSeq(<<>>) \in Seq(Cells)
    BY <2>2, FlattenType
  <2> QED
    BY <1>4, <2>1, <2>3
<1> QED
  BY <1>7, <1>8

\* CellsBelow is the last of a chain of functions, each made from the one before.
CellLevels(min_key, max_key, cells) ==
  /\ CellsBelow(min_key, max_key) = cells[num_pages]
  /\ cells[0] = [p \in Allocated |-> <<>>]
  /\ \A k \in 1 .. num_pages : cells[k] = CellsFrom(min_key, max_key, cells[k - 1])

LEMMA CellsByLevel ==
  ASSUME IndInv, NEW s, IsShape(s), NEW min_key \in Int, NEW max_key \in Int
  PROVE  \E cells : CellLevels(min_key, max_key, cells)
<1> DEFINE D       == [Allocated -> Seq(Cells)]
           next(d) == CellsFrom(min_key, max_key, d)
           step    == [d \in D |-> next(d)]
           z       == [p \in Allocated |-> <<>>]
           Body(g) == [level \in 0 .. num_pages |->
                         IF level = 0 THEN z ELSE next(g[level - 1])]
<1>1. num_pages \in Nat /\ z \in D
  BY PageAssumption DEF IndInv, PagesInv
<1>2. ASSUME NEW d \in D
      PROVE  next(d) \in D
  <2> DEFINE value(p) == IF pages[p].keys = <<>> THEN <<>>
                         ELSE IF pages[p].kind = "leaf"
                              THEN CellsInLeaf(pages[p], min_key, max_key)
                              ELSE CellsInChildren(pages[p], min_key, max_key, d)
  <2>1. ASSUME NEW p \in Allocated
        PROVE  value(p) \in Seq(Cells)
    <3>1. p \in LeafPages \/ (p \in InnerPages /\ pages[p].kind # "leaf")
      <4>1. pages[p].kind \in {"leaf", "inner"}
        BY PageFacts DEF Node
      <4> QED
        BY <4>1 DEF LeafPages, InnerPages
    <3>2. <<>> \in Seq(Cells)
      BY EmptySeq
    <3>3. CASE p \in LeafPages
      <4>1. pages[p].kind = "leaf"
        BY <3>3 DEF LeafPages
      <4>2. CellsInLeaf(pages[p], min_key, max_key) \in Seq(Cells)
        BY <3>3, CellsInLeafType
      <4> QED
        BY <3>2, <4>1, <4>2
    <3>4. CASE p \in InnerPages /\ pages[p].kind # "leaf"
      <4>1. CellsInChildren(pages[p], min_key, max_key, d) \in Seq(Cells)
        BY <3>4, CellsInChildrenType
      <4> QED
        BY <3>2, <3>4, <4>1
    <3> QED
      BY <3>1, <3>3, <3>4
  <2>2. next(d) = [p \in Allocated |-> value(p)]
    BY DEF CellsFrom
  <2> HIDE DEF value, next
  <2> QED
    BY <2>1, <2>2
<1>3. step \in [D -> D] /\ \A d \in D : step[d] = next(d)
  <2> HIDE DEF D, next
  <2> QED
    BY <1>2
<1> HIDE DEF D, step, z
<1>4. PICK g : IsChain(g, num_pages, D, step, z)
  BY <1>1, <1>3, ChainExists
<1>5. g \in [0 .. num_pages -> D] /\ g[0] = z /\ \A k \in 1 .. num_pages : g[k] = step[g[k - 1]]
  BY <1>4 DEF IsChain
<1>6. g = Body(g)
  <2> HIDE DEF next
  <2>1. ASSUME NEW k \in 0 .. num_pages
        PROVE  g[k] = IF k = 0 THEN z ELSE next(g[k - 1])
    <3>1. CASE k = 0
      BY <1>5, <3>1
    <3>2. CASE k # 0
      <4>1. k \in 1 .. num_pages /\ k - 1 \in 0 .. num_pages
        BY <1>1, <3>2
      <4>2. g[k - 1] \in D /\ g[k] = step[g[k - 1]]
        BY <1>5, <4>1
      <4> QED
        BY <1>3, <3>2, <4>2
    <3> QED
      BY <3>1, <3>2
  <2> QED
    BY <1>5, <2>1
<1> DEFINE cells == CHOOSE f : f = Body(f)
<1>7. cells = Body(cells)
  <2> HIDE DEF Body
  <2> QED
    BY <1>6
<1>8. CellsBelow(min_key, max_key) = cells[num_pages]
  BY DEF CellsBelow, z
<1> HIDE DEF cells
<1>9. cells[0] = z /\ \A k \in 1 .. num_pages : cells[k] = CellsFrom(min_key, max_key, cells[k - 1])
  BY <1>1, <1>7
<1> QED
  BY <1>8, <1>9 DEF CellLevels, z

LEMMA CellsBelowAnswer ==
  ASSUME IndInv, RootHasKeys, NEW s, IsShape(s), s.up = s.hi, NEW p \in Allocated,
         NEW min_key \in Int, NEW max_key \in Int, min_key <= max_key
  PROVE  Answers(CellsBelow(min_key, max_key)[p], s.lo[p], s.hi[p], InRange(min_key, max_key))
<1> DEFINE set == InRange(min_key, max_key)
<1>1. PICK cells : CellLevels(min_key, max_key, cells)
  BY CellsByLevel
<1>2. \A c \in set : min_key <= c.key /\ c.key <= max_key
  <2> TAKE c \in set
  <2>1. c \in StoredRows /\ c.key >= min_key /\ c.key <= max_key
    BY DEF InRange
  <2>2. c.key \in Int
    BY <2>1, StoredCell
  <2> QED
    BY <2>1, <2>2
<1> DEFINE T == {k \in Nat : k <= num_pages =>
                   \A q \in Allocated : s.height[q] < k =>
                     Answers(cells[k][q], s.lo[q], s.hi[q], set)}
<1>3. 0 \in T
  <2>1. \A q \in Allocated : ~(s.height[q] < 0)
    BY IntervalsAreNumbers
  <2> QED
    BY <2>1
<1>4. ASSUME NEW k \in Nat, k \in T
      PROVE  k + 1 \in T
  <2> SUFFICES ASSUME k + 1 <= num_pages, NEW q \in Allocated, s.height[q] < k + 1
               PROVE  Answers(cells[k + 1][q], s.lo[q], s.hi[q], set)
    OBVIOUS
  <2>1. num_pages \in Nat
    BY PageAssumption DEF IndInv, PagesInv
  <2>2. /\ \A c \in Allocated : s.height[c] < k => Answers(cells[k][c], s.lo[c], s.hi[c], set)
        /\ cells[k + 1] = CellsFrom(min_key, max_key, cells[k])
    <3>1. k <= num_pages /\ k + 1 \in 1 .. num_pages /\ (k + 1) - 1 = k
      BY <2>1
    <3> QED
      BY <1>1, <1>4, <3>1 DEF CellLevels
  <2>3. pages[q].kind \in {"leaf", "inner"}
    BY PageFacts DEF Node
  <2> HIDE DEF set
  <2>4. CASE pages[q].kind = "leaf"
    <3>1. q \in LeafPages
      BY <2>4 DEF LeafPages
    <3>2. CASE pages[q].keys = <<>>
      <4>1. cells[k + 1][q] = <<>>
        BY <2>2, <3>2 DEF CellsFrom
      <4>2. \A c \in Cells : ~(c \in set /\ Covers(c, s.lo[q], s.hi[q]))
        <5>1. ASSUME NEW c \in set, Covers(c, s.lo[q], s.hi[q])
              PROVE  FALSE
          <6>1. c \in StoredRows
            BY <5>1 DEF set, InRange
          <6>2. \E i \in 1 .. Len(pages[q].keys) : c = Cell(pages[q].keys[i], pages[q].rows[i])
            BY <3>1, <5>1, <6>1, OwnCells
          <6>3. Len(pages[q].keys) = 0
            BY <3>2
          <6> QED
            BY <6>2, <6>3
        <5> QED
          BY <5>1
      <4> QED
        BY <4>1, <4>2, EmptyAnswer
    <3>3. CASE pages[q].keys # <<>>
      <4>1. cells[k + 1][q] = CellsInLeaf(pages[q], min_key, max_key)
        BY <2>2, <2>4, <3>3 DEF CellsFrom
      <4> QED
        BY <3>1, <3>3, <4>1, LeafAnswers DEF set
    <3> QED
      BY <3>2, <3>3
  <2>5. CASE pages[q].kind # "leaf"
    <3>1. q \in InnerPages
      BY <2>3, <2>5 DEF InnerPages
    <3>2. pages[q].keys # <<>>
      BY <3>1, InnerHasKeys
    <3>3. cells[k + 1][q] = CellsInChildren(pages[q], min_key, max_key, cells[k])
      BY <2>2, <2>5, <3>2 DEF CellsFrom
    <3>4. ASSUME NEW c \in ChildPages(q)
          PROVE  Answers(cells[k][c], s.lo[c], s.hi[c], set)
      <4>1. c \in Allocated /\ s.height[q] = s.height[c] + 1
        BY <2>5, ChildOfPage
      <4>2. s.height[c] \in Nat
        BY <4>1, IntervalsAreNumbers
      <4>3. s.height[c] < k
        BY <4>1, <4>2
      <4> QED
        BY <2>2, <4>1, <4>3
    <3> DEFINE deeper == cells[k]
    <3>5. \A c \in ChildPages(q) : Answers(deeper[c], s.lo[c], s.hi[c], set)
      BY <3>4
    <3> HIDE DEF deeper
    <3>6. Answers(CellsInChildren(pages[q], min_key, max_key, deeper), s.lo[q], s.hi[q], set)
      BY <1>2, <3>1, <3>2, <3>5, InnerAnswers
    <3> QED
      BY <3>3, <3>6 DEF deeper
  <2> QED
    BY <2>4, <2>5
<1> HIDE DEF T
<1>5. Nat \subseteq T
  BY <1>3, <1>4, NatSetInduction
<1>6. num_pages \in Nat /\ num_pages \in T
  BY <1>5, PageAssumption DEF IndInv, PagesInv
<1>7. s.height[p] < num_pages
  BY HeightsAreBounded
<1>8. Answers(cells[num_pages][p], s.lo[p], s.hi[p], set)
  BY <1>6, <1>7 DEF T
<1> QED
  BY <1>1, <1>8 DEF CellLevels

\* select_cell, whatever the range: the cells of the range, each once, in order.
SelectsRange(cells, min_val, max_val) ==
  /\ cells \in Seq(Cells)
  /\ Sorted(cells)
  /\ ToSet(cells) = InRange(min_val, max_val)

LEMMA SelectAnswers ==
  ASSUME IndInv, ShapeInv, RootHasKeys, call.pc # "climb",
         NEW min_val \in Int, NEW max_val \in Int
  PROVE  SelectsRange(SelectCell(min_val, max_val), min_val, max_val)
<1>1. \A c \in InRange(min_val, max_val) : c \in StoredRows /\ c \in Cells /\ c.key \in Int
                                           /\ c.key >= min_val /\ c.key <= max_val
  BY StoredCell DEF InRange
<1>2. CASE min_val > max_val
  <2>1. InRange(min_val, max_val) = {}
    BY <1>1, <1>2
  <2>2. SelectCell(min_val, max_val) = <<>>
    BY <1>2 DEF SelectCell
  <2>3. <<>> \in Seq(Cells) /\ Sorted(<<>>) /\ ToSet(<<>>) = {}
    <3>1. Len(<<>>) = 0 /\ <<>> \in Seq(Cells)
      OBVIOUS
    <3> QED
      BY <3>1 DEF Sorted, ToSet
  <2> QED
    BY <2>1, <2>2, <2>3 DEF SelectsRange
<1>3. CASE ~(min_val > max_val)
  <2>1. PICK s : IsShape(s)
    BY DEF ShapeInv, IsShape
  <2>2. s.up = s.hi /\ s.lo[root_pid] = -1 /\ s.up[root_pid] = UINT32_MAX
    BY <2>1 DEF IsShape, CallShape, TreeShape, RootShape
  <2>3. root_pid \in Allocated
    BY DEF IndInv, PagesInv
  <2> DEFINE cells == CellsBelow(min_val, max_val)[root_pid]
  <2>4. Answers(cells, -1, UINT32_MAX, InRange(min_val, max_val))
    <3>1. min_val <= max_val
      BY <1>3
    <3>2. Answers(cells, s.lo[root_pid], s.hi[root_pid], InRange(min_val, max_val))
      BY <2>1, <2>2, <2>3, <3>1, CellsBelowAnswer
    <3> QED
      BY <2>2, <3>2
  <2>5. SelectCell(min_val, max_val) = cells
    BY <1>3 DEF SelectCell
  <2> HIDE DEF cells
  <2>6. cells \in Seq(Cells) /\ Sorted(cells)
    BY <2>4 DEF Answers
  <2>7. \A c \in Cells : Covers(c, -1, UINT32_MAX)
    BY InputAssumption DEF Covers, Cells, Key
  <2>8. \A c \in Cells : Occurs(c, cells) <=> c \in InRange(min_val, max_val)
    BY <2>4, <2>7 DEF Answers
  <2>9. \A c : c \in ToSet(cells) <=> c \in Cells /\ Occurs(c, cells)
    <3>1. DOMAIN cells = 1 .. Len(cells) /\ \A i \in 1 .. Len(cells) : cells[i] \in Cells
      BY <2>6, LenProperties, ElementOfSeq
    <3> QED
      BY <3>1 DEF ToSet, Occurs
  <2>10. ToSet(cells) = InRange(min_val, max_val)
    BY <1>1, <2>8, <2>9
  <2> QED
    BY <2>5, <2>6, <2>10 DEF SelectsRange
<1> QED
  BY <1>2, <1>3

------------------------------------------------------------------------------
(***************************************************************************)
(* What the steps of an insert do to the stored cells: the leaf steps add  *)
(* the cell that is inserted, the climb moves none.                        *)
(***************************************************************************)
SameCells(new, old) ==
  new.kind = old.kind /\ new.keys = old.keys /\ new.rows = old.rows

\* A step of the climb: leaves stay as they are, inner nodes have keys.
KeepsLeaves ==
  /\ Allocated \subseteq Allocated'
  /\ \A q \in Allocated' :
       \/ q \in Allocated /\ SameCells(pages'[q], pages[q])
       \/ /\ q \in Allocated => pages[q].kind = "inner"
          /\ pages'[q].kind = "inner" /\ pages'[q].keys # <<>>

LEMMA RowsKept ==
  ASSUME IndInv, KeepsLeaves
  PROVE  StoredRows' = StoredRows
<1>1. Allocated \subseteq Allocated'
  BY DEF KeepsLeaves
<1>2. ASSUME NEW p \in LeafPages
      PROVE  p \in LeafPages' /\ CellsOf(pages[p]) = CellsOf(pages'[p])
  <2>1. p \in Allocated' /\ p \in Allocated /\ pages[p].kind = "leaf"
    BY <1>1 DEF LeafPages
  <2>2. SameCells(pages'[p], pages[p])
    BY <2>1 DEF KeepsLeaves
  <2> QED
    BY <2>1, <2>2 DEF SameCells, CellsOf, LeafPages
<1>3. ASSUME NEW p \in LeafPages'
      PROVE  p \in LeafPages
  <2>1. p \in Allocated' /\ pages'[p].kind = "leaf"
    BY DEF LeafPages
  <2>2. p \in Allocated /\ SameCells(pages'[p], pages[p])
    BY <2>1 DEF KeepsLeaves
  <2> QED
    BY <2>1, <2>2 DEF SameCells, LeafPages
<1>4. LeafPages' = LeafPages
  BY <1>2, <1>3
<1>5. StoredRows' = UNION {CellsOf(pages'[p]) : p \in LeafPages'}
  BY DEF StoredRows
<1> QED
  BY <1>2, <1>4, <1>5 DEF StoredRows

LEMMA RootKeysKept ==
  ASSUME IndInv, RootHasKeys, KeepsLeaves, root_pid' \in Allocated'
  PROVE  RootHasKeys'
<1> DEFINE q == root_pid'
<1>1. \/ q \in Allocated /\ SameCells(pages'[q], pages[q])
      \/ pages'[q].kind = "inner" /\ pages'[q].keys # <<>>
  BY DEF KeepsLeaves
<1>2. q \in Allocated /\ pages[q].kind = "inner" => pages[q].keys # <<>>
  BY InnerHasKeys DEF InnerPages
<1> QED
  BY <1>1, <1>2 DEF SameCells, RootHasKeys

LEMMA ParentInsertKeepsLeaves ==
  ASSUME IndInv, ParentInsert
  PROVE  KeepsLeaves
<1> DEFINE p == call.parent
           r == call.right
<1>1. PICK pos \in ParentPositions :
        /\ AtParent(pos)
        /\ pages' = [pages EXCEPT
             ![p] = InnerWithKey(@, call.key_upward, r, pos), ![r].parent = p]
  BY DEF ParentInsert
<1> DEFINE new == InnerWithKey(pages[p], call.key_upward, r, pos)
           mid == [pages EXCEPT ![p] = new]
<1>2. /\ p \in Allocated /\ r \in Allocated /\ pages[p].kind = "inner"
      /\ IsNode(new, Allocated) /\ SameHeader(new, pages[p])
      /\ Len(new.keys) = Len(pages[p].keys) + 1
  BY <1>1, FoundParent
<1>3. pages' = [mid EXCEPT ![r].parent = p]
  BY <1>1
<1> HIDE DEF new
<1>4. /\ DOMAIN pages = PageId /\ p \in PageId /\ r \in PageId
      /\ Len(pages[p].keys) \in Nat
      /\ \A q \in Allocated : q \in PageId /\ pages[q] \in Node
  BY <1>2, PageFacts DEF IndInv, PagesInv
<1>5. /\ DOMAIN mid = PageId /\ mid[p] = new
      /\ \A q \in Allocated : q # p => mid[q] = pages[q]
  BY <1>2, <1>4
<1> HIDE DEF mid
<1>6. \A q \in Allocated : mid[q] \in Node
  BY <1>2, <1>4, <1>5 DEF IsNode
<1>7. ASSUME NEW q \in Allocated
      PROVE  SameCells(pages'[q], mid[q])
  <2>1. mid[q] \in Node /\ q \in PageId
    BY <1>4, <1>6
  <2>2. pages'[q] = IF q = r THEN [mid[q] EXCEPT !.parent = p] ELSE mid[q]
    BY <1>3, <1>4, <1>5
  <2> QED
    BY <2>1, <2>2 DEF Node, SameCells
<1>8. pages'[p].kind = "inner" /\ pages'[p].keys # <<>>
  <2>1. SameCells(pages'[p], new)
    BY <1>2, <1>5, <1>7
  <2>2. new.keys # <<>>
    BY <1>2, <1>4
  <2> QED
    BY <1>2, <2>1, <2>2 DEF SameCells, SameHeader
<1>9. Allocated' = Allocated
  BY ParentInsertStep DEF PagesKept
<1>10. ASSUME NEW q \in Allocated
       PROVE  q = p \/ SameCells(pages'[q], pages[q])
  BY <1>5, <1>7
<1> QED
  BY <1>2, <1>8, <1>9, <1>10 DEF KeepsLeaves

LEMMA ParentSplitKeepsLeaves ==
  ASSUME IndInv, ParentSplit
  PROVE  KeepsLeaves
<1> DEFINE p == call.parent
           n == num_pages
<1>1. PICK pos \in ParentPositions, byte \in FreshRootByte :
        /\ AtParent(pos) /\ ParentIsFull
        /\ LET over  == InnerWithKey(pages[p], call.key_upward, call.right, pos)
               pivot == Pivot(over, InnerLoad)
               split == [pages EXCEPT
                  ![p] = LeftInner(over, InnerLoad),
                  ![n] = RightInner(over, InnerLoad, byte, Unwritten)]
               linked == [split EXCEPT ![call.left].parent  = LeftHome(pivot, n),
                                       ![call.right].parent = RightHome(pivot, n)]
           IN  pages' = Relinked(linked, n)
  BY DEF ParentSplit
<1> DEFINE over   == InnerWithKey(pages[p], call.key_upward, call.right, pos)
           pivot  == Pivot(over, InnerLoad)
           left   == LeftInner(over, InnerLoad)
           right  == RightInner(over, InnerLoad, byte, Unwritten)
           split  == [pages EXCEPT ![p] = left, ![n] = right]
           linked == [split EXCEPT ![call.left].parent  = LeftHome(pivot, n),
                                   ![call.right].parent = RightHome(pivot, n)]
           A == Allocated \cup {n}
           Q == {p, n}
<1>2. /\ p \in Allocated /\ call.left \in Allocated /\ call.right \in Allocated
      /\ pages[p].kind = "inner" /\ IsNode(over, Allocated) /\ over.kind = "inner"
      /\ Len(over.keys) = InnerLoad + 1
  BY <1>1, FoundParent DEF SameHeader, ParentIsFull
<1>3. pages' = Relinked(linked, n)
  BY <1>1
<1> HIDE DEF over
<1>4. /\ n \in A /\ p \in A /\ call.left \in A /\ call.right \in A
      /\ A \in SUBSET PageId /\ Q \in SUBSET A /\ n \in Q
      /\ Allocated \subseteq A /\ \A q \in Allocated : q # n
      /\ \A q \in A : q \in Allocated \/ q = n
  BY <1>2, NextPage DEF ParentSplit
<1>5. /\ InnerLoad \in LoadType /\ Allocated \in SUBSET PageId
      /\ byte \in BOOLEAN /\ Unwritten \in ParentPointer
      /\ InnerLoad \in Nat /\ InnerLoad > 0
  BY LoadsAreEven, Halves, InputAssumption
     DEF IndInv, PagesInv, ParentPointer
<1>6. AreInnerHalves(left, right, pivot, over, Allocated, InnerLoad)
  BY <1>2, <1>5, InnerHalvesAreNodes
<1> HIDE DEF left, right
<1>7. /\ left \in Node /\ left.kind = "inner" /\ left.keys # <<>>
      /\ right \in Node /\ right.kind = "inner" /\ right.keys # <<>>
      /\ right.children \in Seq(A)
  <2>1. /\ IsNode(left, Allocated) /\ left.kind = "inner" /\ 2 * Len(left.keys) >= InnerLoad
        /\ IsNode(right, Allocated) /\ right.kind = "inner"
        /\ 2 * Len(right.keys) >= InnerLoad
    BY <1>2, <1>6 DEF AreInnerHalves, SameHeader
  <2>2. right.children \in Seq(A)
    BY <1>4, <2>1, SeqMonotonic DEF IsNode
  <2>3. left \in Node /\ right \in Node
    BY <2>1 DEF IsNode
  <2>4. \A keys : keys = <<>> => ~(2 * Len(keys) >= InnerLoad)
    BY <1>5
  <2> QED
    BY <2>1, <2>2, <2>3, <2>4
<1>8. /\ split \in [PageId -> Node \cup {NoPage}] /\ split[n] = right /\ split[p] = left
      /\ \A q \in Allocated : q # p => split[q] = pages[q]
      /\ \A q \in A : split[q] \in Node
  <2>1. pages \in [PageId -> Node \cup {NoPage}] /\ p \in PageId /\ n \in PageId /\ p # n
    BY <1>2, <1>4 DEF IndInv, PagesInv
  <2>2. \A q \in Allocated : pages[q] \in Node
    BY PageFacts
  <2>3. /\ split \in [PageId -> Node \cup {NoPage}] /\ split[n] = right /\ split[p] = left
        /\ \A q \in Allocated : q # p => split[q] = pages[q]
    BY <1>4, <1>7, <2>1
  <2> HIDE DEF split
  <2> QED
    BY <1>4, <1>7, <2>2, <2>3
<1> HIDE DEF split, linked, pivot, A, Q
<1>9. TwoPointersSet(split, linked, A, Q, call.left, call.right)
  <2>1. LeftHome(pivot, n) \in Q /\ RightHome(pivot, n) \in Q
    BY DEF LeftHome, RightHome, Q
  <2> QED
    BY <1>4, <1>8, <2>1, SetTwoPointers DEF linked
<1>10. /\ linked \in [PageId -> Node \cup {NoPage}] /\ \A q \in A : linked[q] \in Node
       /\ \A q \in A : SameCells(linked[q], split[q])
       /\ linked[n].children \in Seq(A)
  BY <1>4, <1>7, <1>8, <1>9 DEF TwoPointersSet, PointersSet, SameBody, SameCells
<1>11. PointersSet(linked, pages', A, Q)
  BY <1>3, <1>4, <1>10, RelinkedPointers
<1>12. \A q \in A : SameCells(pages'[q], split[q])
  BY <1>10, <1>11 DEF PointersSet, SameBody, SameCells
<1>13. ASSUME NEW q \in A
       PROVE  \/ q \in Allocated /\ SameCells(pages'[q], pages[q])
              \/ /\ q \in Allocated => pages[q].kind = "inner"
                 /\ pages'[q].kind = "inner" /\ pages'[q].keys # <<>>
  <2>1. SameCells(pages'[q], split[q])
    BY <1>12
  <2>2. CASE q = n
    BY <1>4, <1>7, <1>8, <2>1, <2>2 DEF SameCells
  <2>3. CASE q = p
    BY <1>2, <1>7, <1>8, <2>1, <2>3 DEF SameCells
  <2>4. CASE q # n /\ q # p
    BY <1>4, <1>8, <2>1, <2>4
  <2> QED
    BY <2>2, <2>3, <2>4
<1>14. A = Allocated'
  BY ParentSplitStep DEF A, PageAdded
<1> QED
  BY <1>4, <1>13, <1>14 DEF KeepsLeaves

LEMMA NewRootKeepsLeaves ==
  ASSUME IndInv, NewRoot
  PROVE  KeepsLeaves
<1> DEFINE l == call.left
           r == call.right
           n == num_pages
           A == Allocated \cup {n}
           Q == {n}
<1>1. PICK byte \in FreshRootByte :
        LET linked == [pages EXCEPT
              ![n] = InternalNode(byte, Unwritten, <<call.key_upward>>, <<l, r>>),
              ![l].parent = n, ![r].parent = n]
        IN  pages' = UpdateRoot(linked, n)
  BY DEF NewRoot
<1> DEFINE top    == InternalNode(byte, Unwritten, <<call.key_upward>>, <<l, r>>)
           ext    == [pages EXCEPT ![n] = top]
           linked == [ext EXCEPT ![l].parent = n, ![r].parent = n]
<1>2. pages' = UpdateRoot(linked, n)
  BY <1>1
<1> HIDE DEF linked
<1>3. call.key_upward \in Key /\ l \in Allocated /\ r \in Allocated
  BY ClimbCall DEF NewRoot, IndInv
<1>4. /\ n \in A /\ l \in A /\ r \in A /\ root_pid \in A /\ n # root_pid
      /\ A \in SUBSET PageId /\ Q \in SUBSET A /\ n \in Q
      /\ \A q \in Allocated : q \in PageId /\ q # n
      /\ \A q \in A : q \in Allocated \/ q = n
  BY <1>3, NextPage DEF NewRoot
<1>5. top \in Node /\ top.kind = "inner" /\ top.keys # <<>>
  <2>1. byte \in BOOLEAN /\ Unwritten \in ParentPointer
    BY InputAssumption DEF ParentPointer
  <2>2. <<call.key_upward>> \in Seq(Key) /\ <<l, r>> \in Seq(A)
    BY <1>3, <1>4
  <2>3. <<l, r>> \in Seq(PageId)
    BY <1>4, <2>2, SeqMonotonic
  <2>4. top = [kind |-> "inner", is_root |-> byte, parent |-> Unwritten,
               keys |-> <<call.key_upward>>, rows |-> <<>>, children |-> <<l, r>>]
    BY DEF InternalNode
  <2> HIDE DEF top
  <2>5. top \in Node
    BY <2>1, <2>2, <2>3, <2>4, EmptySeq DEF Node
  <2>6. <<call.key_upward>> # <<>>
    OBVIOUS
  <2> QED
    BY <2>4, <2>5, <2>6
<1> HIDE DEF top
<1>6. /\ ext \in [PageId -> Node \cup {NoPage}] /\ ext[n] = top
      /\ \A q \in PageId : q # n => ext[q] = pages[q]
  BY <1>4, <1>5 DEF IndInv, PagesInv
<1> HIDE DEF ext
<1>7. \A q \in A : ext[q] \in Node
  BY <1>4, <1>5, <1>6, PageFacts
<1> HIDE DEF A, Q
<1>8. TwoPointersSet(ext, linked, A, Q, l, r)
  BY <1>4, <1>6, <1>7, SetTwoPointers DEF linked
<1>9. /\ linked \in [PageId -> Node \cup {NoPage}] /\ \A q \in A : linked[q] \in Node
      /\ \A q \in A : SameCells(linked[q], ext[q])
  BY <1>8 DEF TwoPointersSet, PointersSet, SameBody, SameCells
<1>10. \A q \in A : SameContent(pages'[q], linked[q])
  BY <1>2, <1>4, <1>9, RootMoves
<1>11. \A q \in A : SameCells(pages'[q], ext[q])
  BY <1>9, <1>10 DEF SameContent, SameCells
<1>12. ASSUME NEW q \in A
       PROVE  \/ q \in Allocated /\ SameCells(pages'[q], pages[q])
              \/ /\ q \in Allocated => pages[q].kind = "inner"
                 /\ pages'[q].kind = "inner" /\ pages'[q].keys # <<>>
  <2>1. SameCells(pages'[q], ext[q])
    BY <1>11
  <2>2. CASE q = n
    BY <1>4, <1>5, <1>6, <2>1, <2>2 DEF SameCells
  <2>3. CASE q # n
    BY <1>4, <1>6, <2>1, <2>3
  <2> QED
    BY <2>2, <2>3
<1>13. A = Allocated' /\ Allocated \subseteq A
  BY NewRootStep DEF A, PageAdded
<1> QED
  BY <1>4, <1>12, <1>13 DEF KeepsLeaves

\* A leaf with a new cell has that cell and those it had.
LEMMA CellsWithCell ==
  ASSUME NEW A, NEW node, IsNode(node, A), node.kind = "leaf",
         NEW key \in Key, NEW row \in Row, NEW pos \in 0 .. Len(node.keys)
  PROVE  CellsOf(LeafWithCell(node, key, row, pos)) = CellsOf(node) \cup {Cell(key, row)}
<1> DEFINE n    == Len(node.keys)
           k    == pos + 1
           keys == InsertAt(node.keys, pos + 1, key)
           rows == InsertAt(node.rows, pos + 1, row)
           new  == LeafWithCell(node, key, row, pos)
           At(i) == Cell(keys[i], rows[i])
           Was(i) == Cell(node.keys[i], node.rows[i])
<1>1. /\ node.keys \in Seq(Key) /\ node.rows \in Seq(Row) /\ Len(node.rows) = n /\ n \in Nat
      /\ node \in Node /\ k \in 1 .. n + 1
  BY LenProperties DEF IsNode, Node
<1>2. new.keys = keys /\ new.rows = rows
  BY <1>1 DEF LeafWithCell, Node
<1>3. IsInserted(keys, node.keys, k, key) /\ IsInserted(rows, node.rows, k, row)
  BY <1>1, Inserted
<1> HIDE DEF keys, rows, new
<1>4. Len(keys) = n + 1
  BY <1>3 DEF IsInserted
<1>5. At(k) = Cell(key, row)
  BY <1>1, <1>3 DEF IsInserted
<1>6. \A i \in 1 .. n + 1 : i < k => At(i) = Was(i) /\ i \in 1 .. n
  BY <1>1, <1>3 DEF IsInserted
<1>7. \A i \in 1 .. n + 1 : i > k => At(i) = Was(i - 1) /\ i - 1 \in 1 .. n
  BY <1>1, <1>3 DEF IsInserted
<1>8. CellsOf(new) = {At(i) : i \in 1 .. n + 1}
  BY <1>2, <1>4 DEF CellsOf
<1>9. CellsOf(node) = {Was(i) : i \in 1 .. n}
  BY DEF CellsOf
<1> HIDE DEF At, Was, k, n
<1>10. ASSUME NEW i \in 1 .. n + 1
       PROVE  At(i) \in CellsOf(node) \cup {Cell(key, row)}
  <2>1. i = k \/ i < k \/ i > k
    BY <1>1
  <2> QED
    BY <1>5, <1>6, <1>7, <1>9, <2>1
<1>11. ASSUME NEW i \in 1 .. n
       PROVE  Was(i) \in CellsOf(new)
  <2>1. CASE i < k
    <3>1. i \in 1 .. n + 1
      BY <1>1
    <3> QED
      BY <1>6, <1>8, <2>1, <3>1
  <2>2. CASE ~(i < k)
    <3>1. i + 1 \in 1 .. n + 1 /\ i + 1 > k /\ (i + 1) - 1 = i
      BY <1>1, <2>2
    <3>2. At(i + 1) = Was(i)
      BY <1>7, <3>1
    <3> QED
      BY <1>8, <3>1, <3>2
  <2> QED
    BY <2>1, <2>2
<1>12. Cell(key, row) \in CellsOf(new)
  BY <1>1, <1>5, <1>8
<1>13. CellsOf(new) = CellsOf(node) \cup {Cell(key, row)}
  BY <1>8, <1>9, <1>10, <1>11, <1>12
<1> QED
  BY <1>13 DEF new

\* The halves of a leaf share its cells out between them.
ShareCells(left, right, over) == CellsOf(left) \cup CellsOf(right) = CellsOf(over)

LEMMA CellsOfHalves ==
  ASSUME NEW A, NEW over, IsNode(over, A), over.kind = "leaf",
         NEW n \in LoadType, Len(over.keys) = n + 1, NEW byte, NEW parent
  PROVE  ShareCells(LeftLeaf(over, n), RightLeaf(over, n, byte, parent), over)
<1> DEFINE h     == LeftLoad(n)
           left  == LeftLeaf(over, n)
           right == RightLeaf(over, n, byte, parent)
           Was(i) == Cell(over.keys[i], over.rows[i])
<1>1. h \in Nat /\ n \in Nat /\ h \in 0 .. n + 1
  BY Halves DEF LeftLoad
<1>2. /\ over \in Node /\ over.keys \in Seq(Key) /\ over.rows \in Seq(Row)
      /\ Len(over.rows) = n + 1
  BY DEF IsNode, Node
<1>3. /\ left.keys = SubSeq(over.keys, 1, h) /\ left.rows = SubSeq(over.rows, 1, h)
      /\ right.keys = SubSeq(over.keys, h + 1, n + 1)
      /\ right.rows = SubSeq(over.rows, h + 1, n + 1)
  BY <1>2 DEF LeftLeaf, RightLeaf, LeafNode, Node
<1> HIDE DEF h, left, right
<1>4. ASSUME NEW S, NEW old \in Seq(S), Len(old) = n + 1
      PROVE  /\ Len(SubSeq(old, 1, h)) = h /\ Len(SubSeq(old, h + 1, n + 1)) = n + 1 - h
             /\ \A i \in 1 .. h : SubSeq(old, 1, h)[i] = old[i]
             /\ \A i \in 1 .. n + 1 - h : SubSeq(old, h + 1, n + 1)[i] = old[h + i]
  <2> DEFINE a == SubSeq(old, 1, h)
             b == SubSeq(old, h + 1, n + 1)
  <2>1. /\ 1 \in 1 .. Len(old) + 1 /\ h \in 1 - 1 .. Len(old)
        /\ h + 1 \in 1 .. Len(old) + 1 /\ n + 1 \in h + 1 - 1 .. Len(old)
    BY <1>1, <1>4
  <2>2. IsSlice(a, old, 1, h)
    BY <2>1, Sliced
  <2>3. IsSlice(b, old, h + 1, n + 1)
    BY <2>1, Sliced
  <2> HIDE DEF a, b
  <2>4. Len(a) = h /\ \A i \in 1 .. h : a[i] = old[i]
    BY <1>1, <2>2 DEF IsSlice
  <2>5. Len(b) = n + 1 - h /\ \A i \in 1 .. n + 1 - h : b[i] = old[h + i]
    BY <1>1, <2>3 DEF IsSlice
  <2> QED
    BY <2>4, <2>5 DEF a, b
<1>5. /\ Len(left.keys) = h /\ Len(right.keys) = n + 1 - h
      /\ \A i \in 1 .. h : left.keys[i] = over.keys[i] /\ left.rows[i] = over.rows[i]
      /\ \A i \in 1 .. n + 1 - h :
           right.keys[i] = over.keys[h + i] /\ right.rows[i] = over.rows[h + i]
  <2>1. /\ Len(left.keys) = h /\ Len(right.keys) = n + 1 - h
        /\ \A i \in 1 .. h : left.keys[i] = over.keys[i]
        /\ \A i \in 1 .. n + 1 - h : right.keys[i] = over.keys[h + i]
    BY <1>2, <1>3, <1>4
  <2>2. /\ \A i \in 1 .. h : left.rows[i] = over.rows[i]
        /\ \A i \in 1 .. n + 1 - h : right.rows[i] = over.rows[h + i]
    BY <1>2, <1>3, <1>4
  <2> QED
    BY <2>1, <2>2
<1>6. CellsOf(left) = {Was(i) : i \in 1 .. h}
  BY <1>5 DEF CellsOf
<1>7. CellsOf(right) = {Was(h + i) : i \in 1 .. n + 1 - h}
  BY <1>5 DEF CellsOf
<1>8. CellsOf(over) = {Was(i) : i \in 1 .. n + 1}
  BY DEF CellsOf
<1> HIDE DEF Was
<1>9. CellsOf(left) \subseteq CellsOf(over)
  <2>1. \A i \in 1 .. h : i \in 1 .. n + 1
    BY <1>1
  <2> QED
    BY <1>6, <1>8, <2>1
<1>10. CellsOf(right) \subseteq CellsOf(over)
  <2>1. \A i \in 1 .. n + 1 - h : h + i \in 1 .. n + 1
    BY <1>1
  <2> QED
    BY <1>7, <1>8, <2>1
<1>11. ASSUME NEW i \in 1 .. n + 1
       PROVE  Was(i) \in CellsOf(left) \cup CellsOf(right)
  <2>1. CASE i \in 1 .. h
    BY <1>6, <2>1
  <2>2. CASE i \notin 1 .. h
    <3> DEFINE j == i - h
    <3>1. j \in 1 .. n + 1 - h /\ i = h + j
      BY <1>1, <2>2
    <3> HIDE DEF j
    <3> QED
      BY <1>7, <3>1
  <2> QED
    BY <2>1, <2>2
<1>12. CellsOf(left) \cup CellsOf(right) = CellsOf(over)
  BY <1>8, <1>9, <1>10, <1>11
<1> QED
  BY <1>12 DEF left, right, ShareCells

\* The step stores the cell of the insert, and no inner node changes.
StoresCell ==
  /\ StoredRows' = StoredRows \cup {Cell(call.key, call.row)}
  /\ root_pid' = root_pid
  /\ pages'[root_pid].kind = "leaf" \/ pages'[root_pid] = pages[root_pid]

LEMMA LeafInsertStores ==
  ASSUME IndInv, LeafInsert
  PROVE  StoresCell
<1> DEFINE p == call.page_id
           c == Cell(call.key, call.row)
<1>1. PICK pos \in LeafPositions :
        /\ AtLeaf(pos)
        /\ pages' = [pages EXCEPT ![p] = LeafWithCell(@, call.key, call.row, pos)]
  BY DEF LeafInsert
<1> DEFINE over == LeafWithCell(pages[p], call.key, call.row, pos)
<1>2. /\ call.pc = "find" /\ p \in Allocated /\ pages[p].kind = "leaf"
      /\ pos \in 0 .. Len(pages[p].keys)
  BY <1>1, FoundPosition
<1>3. call.key \in Key /\ call.row \in Row /\ IsNode(pages[p], Allocated)
  BY <1>2, FindCall, PageFacts DEF IndInv
<1>4. CellsOf(over) = CellsOf(pages[p]) \cup {c} /\ over.kind = "leaf"
  BY <1>2, <1>3, CellsWithCell, LeafWithCellIsNode DEF SameHeader
<1>5. pages' = [pages EXCEPT ![p] = over]
  BY <1>1
<1> HIDE DEF over
<1>6. /\ pages'[p] = over /\ \A q \in Allocated : q # p => pages'[q] = pages[q]
      /\ Allocated' = Allocated /\ root_pid \in Allocated
  BY <1>2, <1>5, PageFacts, LeafInsertStep DEF IndInv, PagesInv, PagesKept
<1>7. \A q \in Allocated : pages'[q].kind = pages[q].kind
  BY <1>2, <1>4, <1>6
<1>8. LeafPages' = LeafPages
  BY <1>6, <1>7 DEF LeafPages
<1>9. StoredRows' = UNION {CellsOf(pages'[q]) : q \in LeafPages'}
  BY DEF StoredRows
<1>10. \A q \in LeafPages : q # p => CellsOf(pages'[q]) = CellsOf(pages[q])
  BY <1>6 DEF LeafPages
<1>11. CellsOf(pages'[p]) = CellsOf(pages[p]) \cup {c} /\ p \in LeafPages
  BY <1>2, <1>4, <1>6 DEF LeafPages
<1> HIDE DEF p, c
<1>12. StoredRows' = StoredRows \cup {c}
  BY <1>8, <1>9, <1>10, <1>11 DEF StoredRows
<1>13. pages'[root_pid].kind = "leaf" \/ pages'[root_pid] = pages[root_pid]
  BY <1>4, <1>6
<1> QED
  BY <1>12, <1>13 DEF StoresCell, LeafInsert, c

LEMMA LeafSplitStores ==
  ASSUME IndInv, LeafSplit
  PROVE  StoresCell
<1> DEFINE p == call.page_id
           n == num_pages
           c == Cell(call.key, call.row)
<1>1. PICK pos \in LeafPositions, byte \in FreshRootByte :
        /\ AtLeaf(pos) /\ LeafIsFull
        /\ LET over == LeafWithCell(pages[p], call.key, call.row, pos)
           IN  pages' = [pages EXCEPT
                    ![p] = LeftLeaf(over, LeafLoad),
                    ![n] = RightLeaf(over, LeafLoad, byte, Unwritten)]
  BY DEF LeafSplit
<1> DEFINE over  == LeafWithCell(pages[p], call.key, call.row, pos)
           left  == LeftLeaf(over, LeafLoad)
           right == RightLeaf(over, LeafLoad, byte, Unwritten)
<1>2. /\ call.pc = "find" /\ p \in Allocated /\ pages[p].kind = "leaf"
      /\ pos \in 0 .. Len(pages[p].keys)
  BY <1>1, FoundPosition
<1>3. call.key \in Key /\ call.row \in Row /\ IsNode(pages[p], Allocated)
  BY <1>2, FindCall, PageFacts DEF IndInv
<1>4. /\ CellsOf(over) = CellsOf(pages[p]) \cup {c} /\ over.kind = "leaf"
      /\ IsNode(over, Allocated) /\ Len(over.keys) = LeafLoad + 1
  BY <1>1, <1>2, <1>3, CellsWithCell, LeafWithCellIsNode DEF SameHeader, LeafIsFull
<1>5. pages' = [pages EXCEPT ![p] = left, ![n] = right]
  BY <1>1
<1> HIDE DEF over
<1>6. /\ CellsOf(left) \cup CellsOf(right) = CellsOf(pages[p]) \cup {c}
      /\ left.kind = "leaf" /\ right.kind = "leaf"
  <2>1. ShareCells(left, right, over)
    <3>1. /\ LeafLoad \in LoadType /\ IsNode(over, Allocated) /\ over.kind = "leaf"
          /\ Len(over.keys) = LeafLoad + 1
      BY <1>4, LoadsAreEven
    <3> QED
      BY <3>1, CellsOfHalves
  <2>2. left.kind = "leaf"
    BY <1>4 DEF LeftLeaf, IsNode, Node
  <2>3. right.kind = "leaf"
    BY DEF RightLeaf, LeafNode
  <2> QED
    BY <1>4, <2>1, <2>2, <2>3 DEF ShareCells
<1> HIDE DEF left, right
<1>7. /\ n \in PageId /\ DOMAIN pages = PageId
      /\ \A q \in Allocated : q \in PageId /\ q # n
      /\ \A q : q \in Allocated' <=> q \in Allocated \/ q = n
      /\ root_pid \in Allocated
  BY NextPage, LeafSplitStep DEF IndInv, PagesInv, LeafSplit, PageAdded
<1>8. /\ pages'[p] = left /\ pages'[n] = right
      /\ \A q \in Allocated : q # p => pages'[q] = pages[q]
  BY <1>2, <1>5, <1>7
<1>9. \A q \in Allocated : pages'[q].kind = pages[q].kind
  BY <1>2, <1>6, <1>8
<1>10. \A q : q \in LeafPages' <=> q \in LeafPages \/ q = n
  BY <1>6, <1>7, <1>8, <1>9 DEF LeafPages
<1>11. StoredRows' = UNION {CellsOf(pages'[q]) : q \in LeafPages'}
  BY DEF StoredRows
<1>12. \A q \in LeafPages : q # p => CellsOf(pages'[q]) = CellsOf(pages[q])
  BY <1>8 DEF LeafPages
<1>13. /\ p \in LeafPages
       /\ CellsOf(pages'[p]) \cup CellsOf(pages'[n]) = CellsOf(pages[p]) \cup {c}
  BY <1>2, <1>6, <1>8 DEF LeafPages
<1> HIDE DEF p, c, n
<1>14. StoredRows' = StoredRows \cup {c}
  <2>1. StoredRows = UNION {CellsOf(pages[q]) : q \in LeafPages}
    BY DEF StoredRows
  <2>2. \A d : d \in StoredRows' <=> \E q \in LeafPages' : d \in CellsOf(pages'[q])
    BY <1>11
  <2>3. \A d : d \in StoredRows <=> \E q \in LeafPages : d \in CellsOf(pages[q])
    BY <2>1
  <2>4. \A d : d \in CellsOf(pages'[p]) \/ d \in CellsOf(pages'[n])
                 <=> d \in CellsOf(pages[p]) \/ d = c
    BY <1>13
  <2>5. \A d : d \in StoredRows' <=> d \in StoredRows \/ d = c
    BY <1>10, <1>12, <1>13, <2>2, <2>3, <2>4
  <2> QED
    BY <2>5
<1>15. pages'[root_pid].kind = "leaf" \/ pages'[root_pid] = pages[root_pid]
  BY <1>6, <1>7, <1>8
<1> QED
  BY <1>14, <1>15 DEF StoresCell, LeafSplit, c

------------------------------------------------------------------------------
(***************************************************************************)
(* The refinement, step by step.                                           *)
(***************************************************************************)
\* find ends where the key is, if it is stored at all.
LEMMA KeyIsStored ==
  ASSUME IndInv, ShapeInv, NEW pos \in LeafPositions, AtLeaf(pos)
  PROVE  IsDuplicate(pos) <=> \E c \in StoredRows : c.key = call.key
<1> DEFINE p    == call.page_id
           keys == pages[p].keys
           rows == pages[p].rows
<1>1. PICK s : IsShape(s)
  BY DEF ShapeInv, IsShape
<1>2. /\ call.pc = "find" /\ pages[p].kind = "leaf"
      /\ IsKeyPosition(keys, call.key, pos)
  BY DEF AtLeaf
<1>3. /\ s.lo[p] < call.key /\ call.key <= s.hi[p] /\ call.key \in Int
      /\ p \in Allocated
  BY <1>1, <1>2, FindShape
<1>4. p \in LeafPages
  BY <1>2, <1>3 DEF LeafPages
<1>5. Len(keys) \in Nat /\ \A i \in 1 .. Len(keys) : keys[i] \in Int
  BY <1>4, LeafFacts DEF CellFacts
<1>6. ASSUME IsDuplicate(pos)
      PROVE  \E c \in StoredRows : c.key = call.key
  <2>1. pos \in 1 .. Len(keys) /\ keys[pos] = call.key
    BY <1>2, <1>5, <1>6 DEF IsDuplicate, HasKeyAt, IsKeyPosition
  <2>2. Cell(keys[pos], rows[pos]) \in StoredRows
    BY <1>4, <2>1, StoredCell
  <2> QED
    BY <2>1, <2>2 DEF Cell
<1>7. ASSUME NEW c \in StoredRows, c.key = call.key
      PROVE  IsDuplicate(pos)
  <2>1. Covers(c, s.lo[p], s.hi[p])
    BY <1>3, <1>7 DEF Covers
  <2>2. PICK i \in 1 .. Len(keys) : c = Cell(keys[i], rows[i])
    BY <1>1, <1>4, <2>1, OwnCells
  <2>3. keys[i] = call.key
    BY <1>7, <2>2 DEF Cell
  <2>4. i \in 1 .. pos
    BY <1>2, <1>3, <1>5, <2>3 DEF IsKeyPosition
  <2>5. pos \in 1 .. Len(keys) /\ keys[pos] <= call.key
    BY <1>2, <1>5, <2>4 DEF IsKeyPosition
  <2>6. i = pos \/ keys[i] < keys[pos]
    <3>1. Ascending(keys)
      BY <1>1, <1>2, FindShape DEF NodeOrdered
    <3> QED
      BY <1>5, <2>4, <2>5, <3>1 DEF Ascending
  <2>7. i = pos
    BY <1>3, <1>5, <2>3, <2>5, <2>6
  <2> QED
    BY <2>3, <2>5, <2>7 DEF IsDuplicate, HasKeyAt
<1> QED
  BY <1>6, <1>7

LEMMA RequestIs ==
  /\ call.pc = "idle" => MapRequest = Map!Nothing
  /\ call.pc = "find" => MapRequest = Map!Asked(Cell(call.key, call.row))
  /\ call.pc = "climb" => MapRequest = Map!Stored
BY DEF MapRequest, Map!Nothing, Map!Asked, Map!Stored

LEMMA RowsUnchanged ==
  ASSUME UNCHANGED <<pages, num_pages>>
  PROVE  StoredRows' = StoredRows
BY DEF StoredRows, LeafPages, Allocated, PageId, CellsOf, Cell

LEMMA InitMap ==
  ASSUME Init
  PROVE  Map!Init
<1>1. 0 \in PageId /\ Allocated = {0}
  BY PageAssumption, InitIndInv DEF PageId
<1>2. pages[0].keys = <<>>
  BY <1>1 DEF Init, LeafNode
<1>3. \A p \in LeafPages : p = 0
  BY <1>1 DEF LeafPages
<1>4. CellsOf(pages[0]) = {}
  BY <1>2 DEF CellsOf
<1>5. StoredRows = {}
  BY <1>3, <1>4 DEF StoredRows
<1>6. call.pc = "idle" /\ reply = [status |-> "NONE"]
  BY DEF Init, Idle, NoReply, Reply
<1> QED
  BY <1>5, <1>6, RequestIs DEF Map!Init, Map!Pending, Map!Answer

LEMMA InsertAsks ==
  ASSUME NEW key \in Key, NEW row \in Row, Insert(key, row)
  PROVE  Map!Next
<1> DEFINE c == Cell(key, row)
<1>1. /\ call.pc = "idle" /\ call'.pc = "find" /\ call'.key = key /\ call'.row = row
      /\ reply' = [status |-> "NONE"] /\ UNCHANGED <<pages, num_pages>>
  BY DEF Insert, Idle, Find, NoReply, Reply
<1>2. c \in Map!Cell
  BY DEF Cell, Map!Cell
<1>3. MapRequest = Map!Nothing
  BY <1>1, RequestIs
<1>4. MapRequest' = Map!Asked(c)
  BY <1>1 DEF MapRequest, Map!Asked
<1>5. StoredRows' = StoredRows
  BY <1>1, RowsUnchanged
<1>6. Map!Ask(c)
  BY <1>1, <1>3, <1>4, <1>5 DEF Map!Ask, Map!Pending, Map!Answer
<1> QED
  BY <1>2, <1>6 DEF Map!Next

LEMMA DescendStutters ==
  ASSUME IndInv, Descend
  PROVE  UNCHANGED Map!omvars
<1>1. /\ call.pc = "find" /\ \E x : call' = [call EXCEPT !.page_id = x]
      /\ UNCHANGED <<pages, num_pages, reply>>
  BY DEF Descend
<1>2. call'.pc = "find" /\ call'.key = call.key /\ call'.row = call.row
  BY <1>1 DEF IndInv, Call
<1>3. MapRequest' = MapRequest
  BY <1>1, <1>2 DEF MapRequest, Cell
<1> QED
  BY <1>1, <1>3, RowsUnchanged DEF Map!omvars

LEMMA RejectRefuses ==
  ASSUME IndInv, ShapeInv, RejectDuplicate
  PROVE  Map!Next
<1>1. PICK pos \in LeafPositions : AtLeaf(pos) /\ IsDuplicate(pos)
  BY DEF RejectDuplicate
<1>2. /\ call.pc = "find" /\ call'.pc = "idle"
      /\ reply' = [status |-> "FAIL_DUPLICATE_KEY"] /\ UNCHANGED <<pages, num_pages>>
  BY <1>1 DEF AtLeaf, RejectDuplicate, Return, Idle, Reply
<1>3. MapRequest = Map!Asked(Cell(call.key, call.row)) /\ MapRequest' = Map!Nothing
  BY <1>2, RequestIs DEF MapRequest, Map!Nothing
<1>4. \E c \in StoredRows : c.key = call.key
  BY <1>1, KeyIsStored
<1>5. MapRequest.state = "asked" /\ MapRequest.cell.key \in Map!Keys
  BY <1>3, <1>4 DEF Map!Asked, Map!Keys, Cell
<1>6. StoredRows' = StoredRows
  BY <1>2, RowsUnchanged
<1>7. Map!Refuse
  BY <1>2, <1>3, <1>5, <1>6 DEF Map!Refuse, Map!Answer
<1> QED
  BY <1>7 DEF Map!Next

\* Both leaf steps store a cell with a new key.
LEMMA NewKey ==
  ASSUME IndInv, ShapeInv, NEW pos \in LeafPositions, AtLeaf(pos), ~IsDuplicate(pos)
  PROVE  /\ MapRequest = Map!Asked(Cell(call.key, call.row))
         /\ MapRequest.state = "asked" /\ MapRequest.cell = Cell(call.key, call.row)
         /\ MapRequest.cell.key \notin Map!Keys
<1>1. call.pc = "find"
  BY DEF AtLeaf
<1>2. MapRequest = Map!Asked(Cell(call.key, call.row))
  BY <1>1, RequestIs
<1>3. \A c \in StoredRows : c.key # call.key
  BY KeyIsStored
<1> QED
  BY <1>2, <1>3 DEF Map!Asked, Map!Keys, Cell

LEMMA LeafInsertIsStore ==
  ASSUME IndInv, ShapeInv, LeafInsert
  PROVE  Map!Next
<1>1. PICK pos \in LeafPositions : AtLeaf(pos) /\ ~IsDuplicate(pos)
  BY DEF LeafInsert
<1>2. call'.pc = "idle" /\ reply' = [status |-> "SUCCESS"]
  BY DEF LeafInsert, Return, Idle, Reply
<1>3. MapRequest' = Map!Nothing
  BY <1>2 DEF MapRequest, Map!Nothing
<1>4. StoredRows' = StoredRows \cup {Cell(call.key, call.row)}
  BY LeafInsertStores DEF StoresCell
<1>5. Map!Store
  BY <1>1, <1>2, <1>3, <1>4, NewKey DEF Map!Store, Map!Answer
<1> QED
  BY <1>5 DEF Map!Next

LEMMA LeafSplitIsStore ==
  ASSUME IndInv, ShapeInv, LeafSplit
  PROVE  Map!Next
<1>1. PICK pos \in LeafPositions : AtLeaf(pos) /\ ~IsDuplicate(pos)
  BY DEF LeafSplit
<1>2. call'.pc = "climb" /\ reply' = reply
  BY DEF LeafSplit, Climb
<1>3. MapRequest' = Map!Stored
  BY <1>2 DEF MapRequest, Map!Stored
<1>4. StoredRows' = StoredRows \cup {Cell(call.key, call.row)}
  BY LeafSplitStores DEF StoresCell
<1>5. Map!Store
  BY <1>1, <1>2, <1>3, <1>4, NewKey DEF Map!Store
<1> QED
  BY <1>5 DEF Map!Next

\* The end of the climb is when the answer comes.
LEMMA ReturnConfirms ==
  ASSUME IndInv, KeepsLeaves, call.pc = "climb", Return("SUCCESS")
  PROVE  Map!Next
<1>1. call'.pc = "idle" /\ reply' = [status |-> "SUCCESS"]
  BY DEF Return, Idle, Reply
<1>2. MapRequest = Map!Stored /\ MapRequest' = Map!Nothing
  BY <1>1, RequestIs DEF MapRequest, Map!Nothing
<1>3. Map!Confirm
  BY <1>1, <1>2, RowsKept DEF Map!Confirm, Map!Answer
<1> QED
  BY <1>3 DEF Map!Next

LEMMA ParentInsertConfirms ==
  ASSUME IndInv, ParentInsert
  PROVE  Map!Next
BY ParentInsertKeepsLeaves, ReturnConfirms DEF ParentInsert, AtParent

LEMMA NewRootConfirms ==
  ASSUME IndInv, NewRoot
  PROVE  Map!Next
BY NewRootKeepsLeaves, ReturnConfirms DEF NewRoot

LEMMA ParentSplitStutters ==
  ASSUME IndInv, ParentSplit
  PROVE  UNCHANGED Map!omvars
<1>1. call.pc = "climb" /\ call'.pc = "climb" /\ reply' = reply
  <2>1. /\ \E pos \in ParentPositions : AtParent(pos)
        /\ \E pivot, new : call' = NextLevel(pages', pivot, new)
        /\ reply' = reply
    BY DEF ParentSplit
  <2> QED
    BY <2>1 DEF AtParent, NextLevel, Climb
<1>2. MapRequest' = MapRequest
  BY <1>1 DEF MapRequest
<1> QED
  BY <1>1, <1>2, ParentSplitKeepsLeaves, RowsKept DEF Map!omvars

LEMMA SelectQueries ==
  ASSUME IndInv, ShapeInv, RootHasKeys,
         NEW range \in SelectRange, Select(range[1], range[2])
  PROVE  Map!Next
<1> DEFINE lo    == range[1]
           hi    == range[2]
           cells == SelectCell(lo, hi)
<1>1. lo \in Int /\ hi \in Int
  BY InputAssumption
<1>2. /\ call.pc = "idle" /\ call' = call /\ UNCHANGED <<pages, num_pages>>
      /\ reply' = [status |-> "SELECTED", range |-> <<lo, hi>>, cells |-> cells]
  BY DEF Select, Selected, Idle
<1>3. SelectsRange(cells, lo, hi)
  BY <1>1, <1>2, SelectAnswers
<1> HIDE DEF cells
<1>4. MapRequest = Map!Nothing /\ MapRequest' = MapRequest
  BY <1>2, RequestIs DEF MapRequest
<1>5. StoredRows' = StoredRows
  BY <1>2, RowsUnchanged
<1>6. /\ reply'.status = "SELECTED" /\ reply'.cells = cells
      /\ reply' = Map!Found(lo, hi, reply'.cells)
  BY <1>2 DEF Map!Found
<1>7. Map!InOrder(reply'.cells)
  BY <1>3, <1>6 DEF SelectsRange, Sorted, Map!InOrder
<1>8. ToSet(reply'.cells) = {c \in StoredRows : c.key >= lo /\ c.key <= hi}
  BY <1>3, <1>6 DEF SelectsRange, InRange
<1>9. Map!Query(lo, hi)
  BY <1>4, <1>5, <1>6, <1>7, <1>8 DEF Map!Query, ToSet, Map!ToSet
<1> QED
  BY <1>9 DEF Map!Next

LEMMA StepMap ==
  ASSUME IndInv, ShapeInv, RootHasKeys, [Next]_vars
  PROVE  [Map!Next]_Map!omvars
<1>1. ASSUME NEW key \in Key, NEW row \in Row, Insert(key, row)
      PROVE  Map!Next
  BY <1>1, InsertAsks
<1>2. ASSUME NEW range \in SelectRange, Select(range[1], range[2])
      PROVE  Map!Next
  BY <1>2, SelectQueries
<1>3. CASE Descend
  BY <1>3, DescendStutters
<1>4. CASE RejectDuplicate
  BY <1>4, RejectRefuses
<1>5. CASE LeafInsert
  BY <1>5, LeafInsertIsStore
<1>6. CASE LeafSplit
  BY <1>6, LeafSplitIsStore
<1>7. CASE ParentInsert
  BY <1>7, ParentInsertConfirms
<1>8. CASE ParentSplit
  BY <1>8, ParentSplitStutters
<1>9. CASE NewRoot
  BY <1>9, NewRootConfirms
<1>10. CASE UNCHANGED vars
  <2>1. UNCHANGED <<pages, num_pages, call, reply>>
    BY <1>10 DEF vars
  <2>2. MapRequest' = MapRequest
    BY <2>1 DEF MapRequest
  <2> QED
    BY <2>1, <2>2, RowsUnchanged DEF Map!omvars
<1> QED
  BY <1>1, <1>2, <1>3, <1>4, <1>5, <1>6, <1>7, <1>8, <1>9, <1>10 DEF Next, Step

LEMMA StepRootHasKeys ==
  ASSUME IndInv, RootHasKeys, [Next]_vars, IndInv'
  PROVE  RootHasKeys'
<1>1. root_pid' \in Allocated'
  BY DEF IndInv, PagesInv
<1>2. ASSUME UNCHANGED <<pages, root_pid>>
      PROVE  RootHasKeys'
  BY <1>2 DEF RootHasKeys
<1>3. ASSUME NEW key \in Key, NEW row \in Row, Insert(key, row)
      PROVE  RootHasKeys'
  BY <1>2, <1>3 DEF Insert
<1>4. ASSUME NEW range \in SelectRange, Select(range[1], range[2])
      PROVE  RootHasKeys'
  BY <1>2, <1>4 DEF Select
<1>5. CASE Descend
  BY <1>2, <1>5 DEF Descend
<1>6. CASE RejectDuplicate
  BY <1>2, <1>6 DEF RejectDuplicate
<1>7. ASSUME StoresCell
      PROVE  RootHasKeys'
  BY <1>7 DEF StoresCell, RootHasKeys
<1>8. CASE LeafInsert
  BY <1>7, <1>8, LeafInsertStores
<1>9. CASE LeafSplit
  BY <1>7, <1>9, LeafSplitStores
<1>10. ASSUME KeepsLeaves
       PROVE  RootHasKeys'
  BY <1>1, <1>10, RootKeysKept
<1>11. CASE ParentInsert
  BY <1>10, <1>11, ParentInsertKeepsLeaves
<1>12. CASE ParentSplit
  BY <1>10, <1>12, ParentSplitKeepsLeaves
<1>13. CASE NewRoot
  BY <1>10, <1>13, NewRootKeepsLeaves
<1>14. CASE UNCHANGED vars
  BY <1>2, <1>14 DEF vars
<1> QED
  BY <1>3, <1>4, <1>5, <1>6, <1>8, <1>9, <1>11, <1>12, <1>13, <1>14 DEF Next, Step

LEMMA RootHasKeysInvariance == Spec => []RootHasKeys
<1>1. Init => RootHasKeys
  <2>1. Init => pages[root_pid].kind = "leaf"
    BY PageAssumption DEF Init, LeafNode, PageId
  <2> QED
    BY <2>1 DEF RootHasKeys
<1>2. IndInv /\ IndInv' /\ RootHasKeys /\ [Next]_vars => RootHasKeys'
  BY StepRootHasKeys
<1> QED
  BY <1>1, <1>2, Invariance, PTL DEF Spec

(***************************************************************************)
(* The tree is an ordered map, whatever the keys, the loads and the order  *)
(* of the calls: a row is stored once, under a key that was not there, in  *)
(* the step that writes its leaf; no split loses or copies one; an insert  *)
(* is refused exactly if its key is stored (find, insert); and select_cell *)
(* returns the rows of its range, each once and in key order               *)
(* (post_order_visit, btree.cpp:294).                                      *)
(***************************************************************************)
THEOREM MapRefinement == Spec => ImplementsOrderedMap
<1>1. Init => Map!Init
  BY InitMap
<1>2. IndInv /\ ShapeInv /\ RootHasKeys /\ [Next]_vars => [Map!Next]_Map!omvars
  BY StepMap
<1> QED
  BY <1>1, <1>2, Ordered, RootHasKeysInvariance, PTL DEF Spec, ImplementsOrderedMap, Map!Spec
==============================================================================
