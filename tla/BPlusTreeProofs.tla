--------------------------- MODULE BPlusTreeProofs ---------------------------
(***************************************************************************)
(* Theorems about BPlusTree, for any sets of keys and rows, any number of  *)
(* pages and any loads the constructor accepts.                            *)
(***************************************************************************)
EXTENDS BPlusTree, BtreeNodeProofs

(***************************************************************************)
(* Nodes.  What each operator of BtreeNode makes of a well-formed node.    *)
(***************************************************************************)
SameHeader(new, old) ==
  /\ new.kind = old.kind
  /\ new.is_root = old.is_root
  /\ new.parent = old.parent

LEMMA Halves ==
  ASSUME NEW n \in LoadType
  PROVE  n \in Nat /\ n \div 2 \in Nat /\ n \div 2 > 0 /\ n = 2 * (n \div 2)
BY DEF LoadType

LEMMA NodeMonotonic ==
  ASSUME NEW A, NEW B, A \subseteq B, NEW node, IsNode(node, A)
  PROVE  IsNode(node, B)
BY SeqMonotonic DEF IsNode

LEMMA LeafWithCellIsNode ==
  ASSUME NEW A, NEW node, IsNode(node, A), node.kind = "leaf",
         NEW key \in Key, NEW row \in Row, NEW pos \in 0 .. Len(node.keys)
  PROVE  LET new == LeafWithCell(node, key, row, pos)
         IN  /\ IsNode(new, A)
             /\ SameHeader(new, node)
             /\ Len(new.keys) = Len(node.keys) + 1
<1> DEFINE new == LeafWithCell(node, key, row, pos)
<1>1. /\ node \in Node /\ node.keys \in Seq(Key) /\ node.rows \in Seq(Row)
      /\ Len(node.rows) = Len(node.keys)
  BY DEF IsNode, Node
<1>2. pos + 1 \in 1 .. Len(node.keys) + 1 /\ pos + 1 \in 1 .. Len(node.rows) + 1
  BY <1>1, LenProperties
<1>3. /\ InsertAt(node.keys, pos + 1, key) \in Seq(Key)
      /\ Len(InsertAt(node.keys, pos + 1, key)) = Len(node.keys) + 1
  BY <1>1, <1>2, InsertAtProperties
<1>4. /\ InsertAt(node.rows, pos + 1, row) \in Seq(Row)
      /\ Len(InsertAt(node.rows, pos + 1, row)) = Len(node.rows) + 1
  <2>1. node.rows \in Seq(Row) /\ pos + 1 \in 1 .. Len(node.rows) + 1
    BY <1>1, <1>2
  <2> QED
    BY <2>1, InsertAtProperties
<1>5. new = [node EXCEPT !.keys = InsertAt(node.keys, pos + 1, key),
                         !.rows = InsertAt(node.rows, pos + 1, row)]
  BY DEF LeafWithCell
<1> HIDE DEF new
<1>6. new \in Node /\ new.children = node.children /\ SameHeader(new, node)
  BY <1>1, <1>3, <1>4, <1>5 DEF Node, SameHeader
<1>7. Len(new.keys) = Len(node.keys) + 1 /\ Len(new.rows) = Len(node.rows) + 1
  BY <1>1, <1>3, <1>4, <1>5 DEF Node
<1>8. IsNode(new, A)
  BY <1>1, <1>6, <1>7 DEF IsNode, SameHeader
<1> QED
  BY <1>6, <1>7, <1>8 DEF new

LEMMA LeafHalvesAreNodes ==
  ASSUME NEW A, NEW over, IsNode(over, A), over.kind = "leaf",
         NEW n \in LoadType, Len(over.keys) = n + 1,
         NEW byte \in BOOLEAN, NEW parent \in ParentPointer
  PROVE  LET left  == LeftLeaf(over, n)
             right == RightLeaf(over, n, byte, parent)
         IN  /\ IsNode(left, A)
             /\ SameHeader(left, over)
             /\ 2 * Len(left.keys) >= n /\ Len(left.keys) <= n
             /\ IsNode(right, {})
             /\ right.kind = "leaf" /\ right.is_root = byte /\ right.parent = parent
             /\ 2 * Len(right.keys) >= n /\ Len(right.keys) <= n
             /\ KeyUpward(over, n) \in Key
<1> DEFINE left  == LeftLeaf(over, n)
           right == RightLeaf(over, n, byte, parent)
           h     == LeftLoad(n)
<1>1. h \in Nat /\ n \in Nat /\ h - 1 > 0 /\ n = 2 * (h - 1)
  BY Halves DEF LeftLoad
<1>2. /\ over \in Node /\ over.keys \in Seq(Key) /\ over.rows \in Seq(Row)
      /\ Len(over.rows) = n + 1
  BY DEF IsNode, Node
<1> HIDE DEF h
<1>3. /\ SubSeq(over.keys, 1, h) \in Seq(Key) /\ Len(SubSeq(over.keys, 1, h)) = h
      /\ SubSeq(over.keys, h + 1, n + 1) \in Seq(Key)
      /\ Len(SubSeq(over.keys, h + 1, n + 1)) = n + 1 - h
  <2>1. n \in Nat /\ over.keys \in Seq(Key) /\ n + 1 = Len(over.keys) /\ h \in 0 .. n + 1
    BY <1>1, <1>2
  <2> QED
    BY <2>1, SplitSeq
<1>4. /\ SubSeq(over.rows, 1, h) \in Seq(Row) /\ Len(SubSeq(over.rows, 1, h)) = h
      /\ SubSeq(over.rows, h + 1, n + 1) \in Seq(Row)
      /\ Len(SubSeq(over.rows, h + 1, n + 1)) = n + 1 - h
  <2>1. n \in Nat /\ over.rows \in Seq(Row) /\ n + 1 = Len(over.rows) /\ h \in 0 .. n + 1
    BY <1>1, <1>2
  <2> QED
    BY <2>1, SplitSeq
<1>5. /\ left = [over EXCEPT !.keys = SubSeq(over.keys, 1, h),
                             !.rows = SubSeq(over.rows, 1, h)]
      /\ right = [kind |-> "leaf", is_root |-> byte, parent |-> parent,
                  keys |-> SubSeq(over.keys, h + 1, n + 1),
                  rows |-> SubSeq(over.rows, h + 1, n + 1), children |-> <<>>]
  BY DEF LeftLeaf, RightLeaf, LeafNode, h
<1>6. KeyUpward(over, n) \in Key
  BY <1>1, <1>2, ElementOfSeq DEF KeyUpward, h
<1> HIDE DEF left, right
<1>7. /\ left \in Node /\ SameHeader(left, over) /\ left.children = over.children
      /\ Len(left.keys) = h /\ Len(left.rows) = h
  BY <1>2, <1>3, <1>4, <1>5 DEF Node, SameHeader
<1>8. /\ right \in Node /\ right.children = <<>> /\ right.kind = "leaf"
      /\ right.is_root = byte /\ right.parent = parent
      /\ Len(right.keys) = n + 1 - h /\ Len(right.rows) = n + 1 - h
  <2>1. right \in Node
    BY <1>3, <1>4, <1>5, EmptySeq DEF Node
  <2> QED
    BY <1>3, <1>4, <1>5, <2>1
<1>9. IsNode(left, A)
  BY <1>7 DEF IsNode, SameHeader
<1>10. IsNode(right, {})
  BY <1>8 DEF IsNode
<1> QED
  BY <1>1, <1>6, <1>7, <1>8, <1>9, <1>10 DEF left, right

LEMMA InnerWithKeyIsNode ==
  ASSUME NEW A \in SUBSET PageId, NEW node, IsNode(node, A), node.kind = "inner",
         NEW key \in Key, NEW right \in A, NEW pos \in 0 .. Len(node.keys)
  PROVE  LET new == InnerWithKey(node, key, right, pos)
         IN  /\ IsNode(new, A)
             /\ SameHeader(new, node)
             /\ Len(new.keys) = Len(node.keys) + 1
<1> DEFINE new == InnerWithKey(node, key, right, pos)
<1>1. /\ node \in Node /\ node.keys \in Seq(Key) /\ node.children \in Seq(A)
      /\ Len(node.children) = Len(node.keys) + 1 /\ Len(node.keys) \in Nat
  BY LenProperties DEF IsNode, Node
<1>2. /\ InsertAt(node.keys, pos + 1, key) \in Seq(Key)
      /\ Len(InsertAt(node.keys, pos + 1, key)) = Len(node.keys) + 1
  <2>1. pos + 1 \in 1 .. Len(node.keys) + 1
    BY <1>1
  <2> QED
    BY <1>1, <2>1, InsertAtProperties
<1>3. /\ InsertAt(node.children, pos + 2, right) \in Seq(A)
      /\ Len(InsertAt(node.children, pos + 2, right)) = Len(node.keys) + 2
  <2>1. pos + 2 \in 1 .. Len(node.children) + 1
    BY <1>1
  <2>2. node.children \in Seq(A) /\ right \in A
    BY <1>1
  <2>3. /\ InsertAt(node.children, pos + 2, right) \in Seq(A)
        /\ Len(InsertAt(node.children, pos + 2, right)) = Len(node.children) + 1
    BY <2>1, <2>2, InsertAtProperties
  <2> QED
    BY <1>1, <2>3
<1>4. InsertAt(node.children, pos + 2, right) \in Seq(PageId)
  BY <1>3, SeqMonotonic
<1>5. new = [node EXCEPT !.keys = InsertAt(node.keys, pos + 1, key),
                         !.children = InsertAt(node.children, pos + 2, right)]
  BY DEF InnerWithKey
<1> HIDE DEF new
<1>6. /\ new \in Node /\ SameHeader(new, node) /\ new.children \in Seq(A)
      /\ Len(new.keys) = Len(node.keys) + 1
      /\ Len(new.children) = Len(node.keys) + 2
  BY <1>1, <1>2, <1>3, <1>4, <1>5 DEF Node, SameHeader
<1>7. IsNode(new, A)
  BY <1>1, <1>6 DEF IsNode, SameHeader
<1> QED
  BY <1>6, <1>7 DEF new

AreInnerHalves(left, right, pivot, over, A, n) ==
  /\ IsNode(left, A)
  /\ SameHeader(left, over)
  /\ 2 * Len(left.keys) >= n /\ Len(left.keys) <= n
  /\ IsNode(right, A)
  /\ right.kind = "inner"
  /\ 2 * Len(right.keys) >= n /\ Len(right.keys) <= n
  /\ pivot \in Key

LEMMA InnerHalvesAreNodes ==
  ASSUME NEW A \in SUBSET PageId, NEW over, IsNode(over, A), over.kind = "inner",
         NEW n \in LoadType, Len(over.keys) = n + 1,
         NEW byte \in BOOLEAN, NEW parent \in ParentPointer
  PROVE  AreInnerHalves(LeftInner(over, n), RightInner(over, n, byte, parent),
                        Pivot(over, n), over, A, n)
<1> DEFINE left  == LeftInner(over, n)
           right == RightInner(over, n, byte, parent)
           h     == PivotSlot(n)
<1>1. h \in Nat /\ h - 1 > 0 /\ n = 2 * (h - 1) /\ n \in Nat
  BY Halves DEF PivotSlot
<1>2. /\ over \in Node /\ over.keys \in Seq(Key) /\ over.children \in Seq(A)
      /\ Len(over.children) = n + 2
  BY <1>1 DEF IsNode, Node
<1> HIDE DEF h
<1>3. /\ SubSeq(over.keys, 1, h - 1) \in Seq(Key)
      /\ Len(SubSeq(over.keys, 1, h - 1)) = h - 1
      /\ SubSeq(over.keys, h + 1, n + 1) \in Seq(Key)
      /\ Len(SubSeq(over.keys, h + 1, n + 1)) = n + 1 - h
  <2>1. /\ over.keys \in Seq(Key) /\ n + 1 = Len(over.keys)
        /\ h - 1 \in 0 .. n + 1 /\ h \in 0 .. n + 1
    BY <1>1, <1>2
  <2> QED
    BY <1>1, <2>1, SplitSeq
<1>4. /\ SubSeq(over.children, 1, h) \in Seq(A)
      /\ Len(SubSeq(over.children, 1, h)) = h
      /\ SubSeq(over.children, h + 1, n + 2) \in Seq(A)
      /\ Len(SubSeq(over.children, h + 1, n + 2)) = n + 2 - h
  <2>1. over.children \in Seq(A) /\ n + 2 = Len(over.children) /\ h \in 0 .. n + 2
    BY <1>1, <1>2
  <2> QED
    BY <1>1, <2>1, SplitSeq
<1>5. /\ SubSeq(over.children, 1, h) \in Seq(PageId)
      /\ SubSeq(over.children, h + 1, n + 2) \in Seq(PageId)
  BY <1>4, SeqMonotonic
<1>6. /\ left = [over EXCEPT !.keys = SubSeq(over.keys, 1, h - 1),
                             !.children = SubSeq(over.children, 1, h)]
      /\ right = [kind |-> "inner", is_root |-> byte, parent |-> parent,
                  keys |-> SubSeq(over.keys, h + 1, n + 1), rows |-> <<>>,
                  children |-> SubSeq(over.children, h + 1, n + 2)]
  BY DEF LeftInner, RightInner, InternalNode, h
<1>7. Pivot(over, n) \in Key
  BY <1>1, <1>2, ElementOfSeq DEF Pivot, h
<1> HIDE DEF left, right
<1>8. /\ left \in Node /\ SameHeader(left, over) /\ left.children \in Seq(A)
      /\ Len(left.keys) = h - 1 /\ Len(left.children) = h
  BY <1>2, <1>3, <1>4, <1>5, <1>6 DEF Node, SameHeader
<1>9. /\ right \in Node /\ right.children \in Seq(A) /\ right.kind = "inner"
      /\ right.is_root = byte /\ right.parent = parent
      /\ Len(right.keys) = n + 1 - h /\ Len(right.children) = n + 2 - h
  <2>1. right \in Node
    BY <1>3, <1>5, <1>6, EmptySeq DEF Node
  <2> QED
    BY <1>3, <1>4, <1>6, <2>1
<1>10. IsNode(left, A)
  BY <1>1, <1>8 DEF IsNode, SameHeader
<1>11. IsNode(right, A)
  BY <1>1, <1>9 DEF IsNode
<1> QED
  BY <1>1, <1>7, <1>8, <1>9, <1>10, <1>11 DEF left, right, AreInnerHalves

------------------------------------------------------------------------------
(***************************************************************************)
(* Pages.  What holds of every allocated page between two steps: it is a   *)
(* node of at most its load, at least half of it unless it is the root;    *)
(* its parent pointer leads to an allocated inner node; and only the       *)
(* root's is invalid.                                                      *)
(***************************************************************************)
LoadOfKind(kind) == IF kind = "leaf" THEN LeafLoad ELSE InnerLoad

HasLoad(node) == Len(node.keys) <= LoadOfKind(node.kind)
HalfLoaded(node) == 2 * Len(node.keys) >= LoadOfKind(node.kind)

PageInv(ps, A, root, p) ==
  /\ IsNode(ps[p], A)
  /\ HasLoad(ps[p])
  /\ p # root => HalfLoaded(ps[p])
  /\ ps[p].parent \in PageId =>
       ps[p].parent \in A /\ ps[ps[p].parent].kind = "inner"
  /\ ps[p].parent = NODE_PARENT_INVALID => p = root

PagesInv(ps, A, root) ==
  /\ A \in SUBSET PageId /\ root \in A
  /\ ps \in [PageId -> Node \cup {NoPage}]
  /\ \A p \in A : PageInv(ps, A, root, p)
  /\ \A p \in PageId \ A : ps[p] = NoPage

LEMMA LoadsAreEven ==
  LeafLoad \in LoadType /\ InnerLoad \in LoadType
BY LoadAssumption DEF LeafLoad, InnerLoad

\* The pages that hold a node are the ones the invariant is about.
LEMMA AllocatedAre ==
  ASSUME NEW ps, NEW A, NEW root, PagesInv(ps, A, root)
  PROVE  A = {p \in PageId : ps[p] # NoPage}
BY NoPageAssumption DEF PagesInv, PageInv, IsNode

(***************************************************************************)
(* The four ways an insert changes the pages: a node is rewritten, a page  *)
(* is added, a parent pointer is set, all children of a page are relinked. *)
(***************************************************************************)
LEMMA Rewrite ==
  ASSUME NEW ps, NEW A, NEW root, PagesInv(ps, A, root),
         NEW p \in A, NEW new, IsNode(new, A),
         SameHeader(new, ps[p]), HasLoad(new), p # root => HalfLoaded(new)
  PROVE  LET qs == [ps EXCEPT ![p] = new] IN
         /\ PagesInv(qs, A, root)
         /\ \A q \in A : SameHeader(qs[q], ps[q])
<1> DEFINE qs == [ps EXCEPT ![p] = new]
<1>1. /\ A \in SUBSET PageId /\ p \in PageId /\ DOMAIN ps = PageId
      /\ new \in Node
  BY DEF PagesInv, IsNode
<1>2. /\ qs \in [PageId -> Node \cup {NoPage}] /\ qs[p] = new
      /\ \A q \in PageId : q # p => qs[q] = ps[q]
  BY <1>1 DEF PagesInv
<1> HIDE DEF qs
<1>3. \A q \in A : SameHeader(qs[q], ps[q])
  BY <1>1, <1>2 DEF SameHeader
<1>4. ASSUME NEW q \in A
      PROVE  PageInv(qs, A, root, q)
  <2>1. PageInv(ps, A, root, q)
    BY DEF PagesInv
  <2>2. IsNode(qs[q], A) /\ HasLoad(qs[q])
    BY <1>1, <1>2, <2>1 DEF PageInv
  <2>3. q # root => HalfLoaded(qs[q])
    BY <1>1, <1>2, <2>1 DEF PageInv
  <2>4. qs[q].parent = ps[q].parent
    BY <1>3 DEF SameHeader
  <2>5. ps[q].parent \in A => qs[ps[q].parent].kind = ps[ps[q].parent].kind
    BY <1>3 DEF SameHeader
  <2> QED
    BY <2>1, <2>2, <2>3, <2>4, <2>5 DEF PageInv
<1>5. \A q \in PageId \ A : qs[q] = NoPage
  BY <1>1, <1>2 DEF PagesInv
<1>6. PagesInv(qs, A, root)
  BY <1>1, <1>2, <1>4, <1>5 DEF PagesInv
<1> QED
  BY <1>3, <1>6 DEF qs

FreshNode(new, A) ==
  /\ IsNode(new, A)
  /\ new.parent = Unwritten
  /\ HasLoad(new) /\ HalfLoaded(new)

LEMMA Extend ==
  ASSUME NEW ps, NEW A, NEW root, PagesInv(ps, A, root),
         NEW n \in PageId, n \notin A,
         NEW new, FreshNode(new, A), NEW qs, qs = [ps EXCEPT ![n] = new]
  PROVE  PagesInv(qs, A \cup {n}, root)
<1> DEFINE B == A \cup {n}
<1>1. /\ A \in SUBSET PageId /\ B \in SUBSET PageId
      /\ DOMAIN ps = PageId /\ root \in B /\ new \in Node
  BY DEF PagesInv, IsNode, FreshNode
<1>2. /\ qs \in [PageId -> Node \cup {NoPage}] /\ qs[n] = new
      /\ \A q \in PageId : q # n => qs[q] = ps[q]
  BY <1>1 DEF PagesInv
<1>3. \A q \in A : qs[q] = ps[q]
  BY <1>1, <1>2
<1>4. ASSUME NEW q \in A
      PROVE  PageInv(qs, B, root, q)
  <2>1. PageInv(ps, A, root, q) /\ qs[q] = ps[q]
    BY <1>3 DEF PagesInv
  <2>2. IsNode(qs[q], B)
    BY <2>1, NodeMonotonic DEF PageInv
  <2>3. qs[q].parent \in PageId =>
          qs[q].parent \in B /\ qs[qs[q].parent].kind = "inner"
    BY <1>3, <2>1 DEF PageInv
  <2> QED
    BY <2>1, <2>2, <2>3 DEF PageInv
<1>5. PageInv(qs, B, root, n)
  <2>1. IsNode(new, B)
    BY NodeMonotonic DEF FreshNode
  <2>2. new.parent \notin PageId /\ new.parent # NODE_PARENT_INVALID
    BY PageAssumption DEF PageId, FreshNode
  <2> QED
    BY <1>2, <2>1, <2>2 DEF PageInv, FreshNode
<1>6. \A q \in PageId \ B : qs[q] = NoPage
  BY <1>1, <1>2 DEF PagesInv
<1> QED
  BY <1>1, <1>2, <1>4, <1>5, <1>6 DEF PagesInv

(***************************************************************************)
(* Setting parent pointers: qs has the nodes of ps, some of them with      *)
(* another parent, which is an inner node.                                 *)
(***************************************************************************)
SameBody(new, old) ==
  /\ new \in Node
  /\ new.kind = old.kind /\ new.is_root = old.is_root
  /\ new.keys = old.keys /\ new.rows = old.rows /\ new.children = old.children

LEMMA Relink ==
  ASSUME NEW ps, NEW A, NEW root, PagesInv(ps, A, root),
         NEW qs \in [PageId -> Node \cup {NoPage}],
         \A p \in PageId \ A : qs[p] = ps[p],
         \A p \in A :
           /\ SameBody(qs[p], ps[p])
           /\ \/ qs[p].parent = ps[p].parent
              \/ qs[p].parent \in A /\ ps[qs[p].parent].kind = "inner"
  PROVE  PagesInv(qs, A, root)
<1>1. ASSUME NEW p \in A
      PROVE  PageInv(qs, A, root, p)
  <2>1. PageInv(ps, A, root, p) /\ SameBody(qs[p], ps[p])
    BY DEF PagesInv
  <2>2. IsNode(qs[p], A) /\ HasLoad(qs[p]) /\ (p # root => HalfLoaded(qs[p]))
    BY <2>1 DEF PageInv, SameBody, IsNode, HasLoad, HalfLoaded
  <2>3. \A q \in A : qs[q].kind = ps[q].kind
    BY DEF SameBody
  <2>5. \A q \in A : q \in PageId /\ q # NODE_PARENT_INVALID
    BY PageAssumption DEF PagesInv, PageId
  <2> QED
    BY <2>1, <2>2, <2>3, <2>5 DEF PageInv
<1> QED
  BY <1>1 DEF PagesInv

LEMMA SetParent ==
  ASSUME NEW node \in Node, NEW q \in ParentPointer
  PROVE  LET new == [node EXCEPT !.parent = q]
         IN  SameBody(new, node) /\ new.parent = q
BY DEF SameBody, Node

------------------------------------------------------------------------------
(***************************************************************************)
(* The inductive invariant.  Beyond the types and loads: a parent pointer  *)
(* is unwritten only in the page that was split off last, and a climb goes *)
(* on at an inner node, or has just split the root.                        *)
(***************************************************************************)
ClimbInv ==
  call.pc = "climb" =>
    /\ call.parent # NODE_PARENT_INVALID => pages[call.parent].kind = "inner"
    /\ call.parent = NODE_PARENT_INVALID => call.left = root_pid
    /\ HalfLoaded(pages[call.left])

OnlyPendingUnwritten ==
  \A p \in Allocated : pages[p].parent = Unwritten => p \in Pending

IndInv ==
  /\ PagesInv(pages, Allocated, root_pid)
  /\ num_pages \in 1 .. TABLE_MAX_PAGES /\ Allocated \subseteq 0 .. num_pages - 1
  /\ call \in Call
  /\ reply.status \in {"NONE", "SUCCESS", "FAIL_DUPLICATE_KEY", "SELECTED"}
  /\ OnlyPendingUnwritten
  /\ ClimbInv

LEMMA PageFacts ==
  ASSUME IndInv, NEW p \in Allocated
  PROVE  /\ p \in PageId /\ IsNode(pages[p], Allocated) /\ pages[p] \in Node
         /\ PageInv(pages, Allocated, root_pid, p)
         /\ Len(pages[p].keys) \in Nat
<1>1. p \in PageId
  BY DEF IndInv, PagesInv
<1>2. PageInv(pages, Allocated, root_pid, p)
  BY DEF IndInv, PagesInv
<1>3. IsNode(pages[p], Allocated) /\ pages[p] \in Node
  BY <1>2 DEF PageInv, IsNode
<1>4. Len(pages[p].keys) \in Nat
  BY <1>3, LenProperties DEF Node
<1> QED
  BY <1>1, <1>2, <1>3, <1>4

LEMMA FindCall ==
  ASSUME call \in Call, call.pc = "find"
  PROVE  call.key \in Key /\ call.row \in Row /\ call.page_id \in Allocated
BY DEF Call

LEMMA ClimbCall ==
  ASSUME call \in Call, call.pc = "climb"
  PROVE  /\ call.key_upward \in Key /\ call.left \in Allocated
         /\ call.right \in Allocated
         /\ call.parent # NODE_PARENT_INVALID => call.parent \in Allocated
BY DEF Call

LEMMA FoundPosition ==
  ASSUME IndInv, NEW pos \in LeafPositions, AtLeaf(pos)
  PROVE  /\ call.pc = "find" /\ call.page_id \in Allocated
         /\ pages[call.page_id].kind = "leaf"
         /\ pos \in 0 .. Len(pages[call.page_id].keys)
         /\ Len(pages[call.page_id].keys) <= LeafLoad
         /\ IsNode(LeafWithCell(pages[call.page_id], call.key, call.row, pos), Allocated)
<1>1. call.pc = "find" /\ pages[call.page_id].kind = "leaf"
  BY DEF AtLeaf
<1>2. call.key \in Key /\ call.row \in Row /\ call.page_id \in Allocated
  BY <1>1, FindCall DEF IndInv
<1>3. pos \in 0 .. Len(pages[call.page_id].keys)
  BY <1>1 DEF LeafPositions
<1>4. IsNode(pages[call.page_id], Allocated) /\ HasLoad(pages[call.page_id])
  BY <1>2, PageFacts DEF PageInv
<1>5. Len(pages[call.page_id].keys) <= LeafLoad
  BY <1>1, <1>4 DEF HasLoad, LoadOfKind
<1>6. IsNode(LeafWithCell(pages[call.page_id], call.key, call.row, pos), Allocated)
  BY <1>1, <1>2, <1>3, <1>4, LeafWithCellIsNode
<1> QED
  BY <1>1, <1>2, <1>3, <1>5, <1>6

(***************************************************************************)
(* A step keeps the pages that hold a node, or adds the next one.          *)
(***************************************************************************)
PagesKept == num_pages' = num_pages /\ Allocated' = Allocated

PageAdded ==
  /\ num_pages < TABLE_MAX_PAGES /\ num_pages' = num_pages + 1
  /\ Allocated' = Allocated \cup {num_pages}

LEMMA KeptPages ==
  ASSUME IndInv, PagesInv(pages', Allocated, root_pid'), num_pages' = num_pages
  PROVE  PagesKept /\ PagesInv(pages', Allocated', root_pid')
<1>1. Allocated = {p \in PageId : pages'[p] # NoPage}
  BY AllocatedAre
<1>2. Allocated' = Allocated
  BY <1>1 DEF Allocated, PageId
<1> QED
  BY <1>2 DEF PagesKept

LEMMA AddedPage ==
  ASSUME IndInv, num_pages < TABLE_MAX_PAGES, num_pages' = num_pages + 1,
         PagesInv(pages', Allocated \cup {num_pages}, root_pid')
  PROVE  PageAdded /\ PagesInv(pages', Allocated', root_pid')
<1>1. Allocated \cup {num_pages} = {p \in PageId : pages'[p] # NoPage}
  BY AllocatedAre
<1>2. Allocated' = Allocated \cup {num_pages}
  BY <1>1 DEF Allocated, PageId
<1> QED
  BY <1>2 DEF PageAdded

LEMMA NextPage ==
  ASSUME IndInv, num_pages < TABLE_MAX_PAGES
  PROVE  /\ num_pages \in PageId /\ num_pages \notin Allocated
         /\ num_pages \in Nat /\ num_pages + 1 \in 1 .. TABLE_MAX_PAGES
         /\ Allocated \in SUBSET PageId /\ root_pid \in Allocated
         /\ Allocated \cup {num_pages} \subseteq 0 .. (num_pages + 1) - 1
BY PageAssumption DEF IndInv, PagesInv, PageId

(***************************************************************************)
(* A step that returns: only the pages matter.                             *)
(***************************************************************************)
LEMMA Returning ==
  ASSUME PagesInv(pages', Allocated', root_pid'), IndInv, PagesKept \/ PageAdded,
         \A p \in Allocated' : pages'[p].parent # Unwritten,
         NEW status \in {"NONE", "SUCCESS", "FAIL_DUPLICATE_KEY"}, Return(status)
  PROVE  IndInv'
<1>1. call' = [pc |-> "idle"] /\ reply'.status = status
  BY DEF Return, Idle, Reply
<1>2. call' \in Call' /\ call'.pc = "idle"
  BY <1>1 DEF Call
<1>3. OnlyPendingUnwritten' /\ ClimbInv'
  BY <1>2 DEF OnlyPendingUnwritten, ClimbInv
<1>4. /\ num_pages' \in 1 .. TABLE_MAX_PAGES
      /\ Allocated' \subseteq 0 .. num_pages' - 1
  BY NextPage DEF IndInv, PagesKept, PageAdded
<1> QED
  BY <1>1, <1>2, <1>3, <1>4 DEF IndInv

LEMMA LeafInsertStep ==
  ASSUME IndInv, LeafInsert
  PROVE  IndInv' /\ PagesKept
<1>1. PICK pos \in LeafPositions :
        /\ AtLeaf(pos) /\ ~IsDuplicate(pos) /\ ~LeafIsFull
        /\ pages' = [pages EXCEPT
             ![call.page_id] = LeafWithCell(@, call.key, call.row, pos)]
  BY DEF LeafInsert
<1> DEFINE p   == call.page_id
           new == LeafWithCell(pages[p], call.key, call.row, pos)
<1>2. /\ call.pc = "find" /\ p \in Allocated /\ pages[p].kind = "leaf"
      /\ pos \in 0 .. Len(pages[p].keys)
      /\ Len(pages[p].keys) <= LeafLoad
  BY <1>1, FoundPosition
<1>3. /\ PageInv(pages, Allocated, root_pid, p) /\ IsNode(pages[p], Allocated)
      /\ Len(pages[p].keys) \in Nat
  BY <1>2, PageFacts
<1>4. /\ IsNode(new, Allocated) /\ SameHeader(new, pages[p])
      /\ Len(new.keys) = Len(pages[p].keys) + 1
  BY <1>2, <1>3, FindCall, LeafWithCellIsNode DEF IndInv
<1> HIDE DEF new
<1>5. LeafLoad \in Nat /\ new.kind = "leaf"
  BY <1>2, <1>4, LoadsAreEven, Halves DEF SameHeader
<1>6. HasLoad(new)
  <2>1. Len(pages[p].keys) # LeafLoad
    BY <1>1 DEF LeafIsFull
  <2> QED
    BY <1>2, <1>3, <1>4, <1>5, <2>1 DEF HasLoad, LoadOfKind
<1>7. p # root_pid => HalfLoaded(new)
  <2>1. p # root_pid => HalfLoaded(pages[p])
    BY <1>3 DEF PageInv
  <2> QED
    BY <1>2, <1>3, <1>4, <1>5, <2>1 DEF HalfLoaded, LoadOfKind
<1>8. pages' = [pages EXCEPT ![p] = new]
  BY <1>1 DEF new
<1>9. /\ PagesInv(pages', Allocated, root_pid)
      /\ \A q \in Allocated : SameHeader(pages'[q], pages[q])
  BY <1>2, <1>4, <1>6, <1>7, <1>8, Rewrite DEF IndInv
<1>10. \A q \in Allocated : pages'[q].parent # Unwritten
  BY <1>2, <1>9 DEF IndInv, OnlyPendingUnwritten, Pending, SameHeader
<1>11. num_pages' = num_pages /\ root_pid' = root_pid /\ Return("SUCCESS")
  BY DEF LeafInsert
<1>12. PagesKept /\ PagesInv(pages', Allocated', root_pid')
  BY <1>9, <1>11, KeptPages
<1>13. \A q \in Allocated' : pages'[q].parent # Unwritten
  BY <1>10, <1>12 DEF PagesKept
<1> QED
  BY <1>11, <1>12, <1>13, Returning


LEMMA LeafSplitStep ==
  ASSUME IndInv, LeafSplit
  PROVE  IndInv' /\ PageAdded
<1> DEFINE p == call.page_id
<1>1. PICK pos \in LeafPositions, byte \in FreshRootByte :
        /\ AtLeaf(pos) /\ ~IsDuplicate(pos) /\ LeafIsFull
        /\ LET over == LeafWithCell(pages[p], call.key, call.row, pos)
           IN  /\ pages' = [pages EXCEPT
                    ![p]         = LeftLeaf(over, LeafLoad),
                    ![num_pages] = RightLeaf(over, LeafLoad, byte, Unwritten)]
               /\ call' = Climb(KeyUpward(over, LeafLoad), p, num_pages,
                                pages[p].parent)
  BY DEF LeafSplit
<1> DEFINE over  == LeafWithCell(pages[p], call.key, call.row, pos)
           left  == LeftLeaf(over, LeafLoad)
           right == RightLeaf(over, LeafLoad, byte, Unwritten)
           up    == KeyUpward(over, LeafLoad)
           mid   == [pages EXCEPT ![p] = left]
<1>2. /\ call.pc = "find" /\ p \in Allocated /\ pages[p].kind = "leaf"
      /\ pos \in 0 .. Len(pages[p].keys)
  BY <1>1, FoundPosition
<1>3. /\ PageInv(pages, Allocated, root_pid, p) /\ IsNode(pages[p], Allocated)
      /\ pages[p] \in Node
  BY <1>2, PageFacts
<1>4. LeafLoad \in LoadType /\ LeafLoad \in Nat
  BY LoadsAreEven, Halves
<1>5. /\ IsNode(over, Allocated) /\ SameHeader(over, pages[p])
      /\ Len(over.keys) = LeafLoad + 1
  BY <1>1, <1>2, <1>3, FindCall, LeafWithCellIsNode DEF IndInv, LeafIsFull
<1>6. over.kind = "leaf"
  BY <1>2, <1>5 DEF SameHeader
<1> HIDE DEF over
<1>7. /\ IsNode(left, Allocated) /\ SameHeader(left, over)
      /\ 2 * Len(left.keys) >= LeafLoad /\ Len(left.keys) <= LeafLoad
      /\ IsNode(right, {}) /\ right.kind = "leaf" /\ right.parent = Unwritten
      /\ 2 * Len(right.keys) >= LeafLoad /\ Len(right.keys) <= LeafLoad
      /\ up \in Key
  <2>1. byte \in BOOLEAN /\ Unwritten \in ParentPointer
    BY InputAssumption DEF ParentPointer
  <2> QED
    BY <1>4, <1>5, <1>6, <2>1, LeafHalvesAreNodes
<1>8. pages' = [mid EXCEPT ![num_pages] = right]
  BY <1>1 DEF over
<1>9. call' = [pc |-> "climb", key_upward |-> up, left |-> p,
               right |-> num_pages, parent |-> pages[p].parent]
  BY <1>1 DEF Climb, over
<1> HIDE DEF left, right, up, mid
<1>10. SameHeader(left, pages[p]) /\ left.kind = "leaf" /\ HasLoad(left)
       /\ HalfLoaded(left) /\ HasLoad(right) /\ HalfLoaded(right)
  BY <1>5, <1>6, <1>7 DEF SameHeader, HasLoad, HalfLoaded, LoadOfKind
<1>11. /\ PagesInv(mid, Allocated, root_pid) /\ mid[p] = left
       /\ \A q \in Allocated : SameHeader(mid[q], pages[q])
  <2>1. PagesInv(mid, Allocated, root_pid)
        /\ \A q \in Allocated : SameHeader(mid[q], pages[q])
    BY <1>2, <1>7, <1>10, Rewrite DEF IndInv, mid
  <2>2. mid[p] = left
    BY <1>2, PageFacts DEF mid, IndInv, PagesInv
  <2> QED
    BY <2>1, <2>2
<1>12. /\ num_pages < TABLE_MAX_PAGES /\ num_pages' = num_pages + 1
       /\ root_pid' = root_pid /\ reply' = reply
  BY DEF LeafSplit
<1>13. IsNode(right, Allocated)
  BY <1>7, NodeMonotonic
<1>14. /\ PagesInv(pages', Allocated \cup {num_pages}, root_pid)
       /\ \A q \in Allocated \cup {num_pages} :
            pages'[q] = IF q = num_pages THEN right ELSE mid[q]
  <2>1. /\ PagesInv(mid, Allocated, root_pid) /\ FreshNode(right, Allocated)
        /\ num_pages \in PageId /\ num_pages \notin Allocated
    BY <1>7, <1>10, <1>11, <1>12, <1>13, NextPage DEF FreshNode
  <2>2. PagesInv(pages', Allocated \cup {num_pages}, root_pid)
    BY <1>8, <2>1, Extend
  <2>3. DOMAIN mid = PageId /\ \A q \in Allocated \cup {num_pages} : q \in PageId
    BY <1>12, <2>1 DEF PagesInv
  <2> QED
    BY <1>8, <2>2, <2>3
<1>15. /\ PageAdded /\ PagesInv(pages', Allocated', root_pid')
       /\ num_pages \in Nat /\ num_pages \notin Allocated
       /\ Allocated' = Allocated \cup {num_pages}
       /\ num_pages' \in 1 .. TABLE_MAX_PAGES
       /\ Allocated' \subseteq 0 .. num_pages' - 1
       /\ \A q \in Allocated : q \in Allocated' /\ SameHeader(pages'[q], pages[q])
       /\ \A q \in Allocated' : q \in Allocated \/ q = num_pages
  <2>1. PageAdded /\ PagesInv(pages', Allocated', root_pid')
    BY <1>12, <1>14, AddedPage
  <2> QED
    BY <1>11, <1>12, <1>14, <2>1, NextPage DEF PageAdded
<1>16. pages[p].parent # Unwritten
  BY <1>2 DEF IndInv, OnlyPendingUnwritten, Pending
<1>17. pages[p].parent \in Allocated \cup {NODE_PARENT_INVALID}
  BY <1>3, <1>16 DEF Node, ParentPointer, PageInv
<1>18. call' \in Call'
  <2>1. /\ up \in Key /\ p \in Allocated' /\ num_pages \in Allocated'
        /\ pages[p].parent \in Allocated' \cup {NODE_PARENT_INVALID}
    BY <1>2, <1>7, <1>15, <1>17
  <2>2. Key' = Key
    BY DEF Key
  <2> QED
    BY <1>9, <2>1, <2>2 DEF Call
<1>19. OnlyPendingUnwritten'
  <2>1. Pending' = {num_pages}
    BY <1>9 DEF Pending
  <2>2. \A q \in Allocated : pages'[q].parent # Unwritten
    BY <1>2, <1>15 DEF IndInv, OnlyPendingUnwritten, Pending, SameHeader
  <2> QED
    BY <1>15, <2>1, <2>2 DEF OnlyPendingUnwritten
<1>20. ClimbInv'
  <2>1. pages[p].parent # NODE_PARENT_INVALID =>
          /\ pages[p].parent \in Allocated
          /\ pages[pages[p].parent].kind = "inner"
    BY <1>3, <1>17, PageFacts DEF PageInv
  <2>2. pages[p].parent # NODE_PARENT_INVALID => pages'[pages[p].parent].kind = "inner"
    BY <1>15, <2>1 DEF SameHeader
  <2>3. pages[p].parent = NODE_PARENT_INVALID => p = root_pid
    BY <1>3 DEF PageInv
  <2>4. HalfLoaded(pages'[p])
    BY <1>2, <1>10, <1>11, <1>14, <1>15
  <2>5. call'.parent = pages[p].parent /\ call'.left = p
    BY <1>9
  <2> QED
    BY <1>12, <2>2, <2>3, <2>4, <2>5 DEF ClimbInv, HalfLoaded, LoadOfKind, LeafLoad, InnerLoad
<1> QED
  BY <1>12, <1>15, <1>18, <1>19, <1>20 DEF IndInv


LEMMA FoundParent ==
  ASSUME IndInv, NEW pos \in ParentPositions, AtParent(pos)
  PROVE  LET over == InnerWithKey(pages[call.parent], call.key_upward,
                                  call.right, pos)
         IN  /\ call.pc = "climb" /\ call.parent \in Allocated
             /\ call.key_upward \in Key
             /\ call.left \in Allocated /\ call.right \in Allocated
             /\ pages[call.parent].kind = "inner"
             /\ Len(pages[call.parent].keys) <= InnerLoad
             /\ IsNode(over, Allocated) /\ SameHeader(over, pages[call.parent])
             /\ Len(over.keys) = Len(pages[call.parent].keys) + 1
<1>1. call.pc = "climb" /\ call.parent # NODE_PARENT_INVALID
  BY DEF AtParent
<1>2. /\ call.key_upward \in Key /\ call.left \in Allocated
      /\ call.right \in Allocated /\ call.parent \in Allocated
  BY <1>1, ClimbCall DEF IndInv
<1>3. pages[call.parent].kind = "inner"
  BY <1>1 DEF IndInv, ClimbInv
<1>4. IsNode(pages[call.parent], Allocated) /\ HasLoad(pages[call.parent])
  BY <1>2, PageFacts DEF PageInv
<1>5. Len(pages[call.parent].keys) <= InnerLoad
  BY <1>3, <1>4 DEF HasLoad, LoadOfKind
<1>6. pos \in 0 .. Len(pages[call.parent].keys)
  BY <1>1 DEF ParentPositions
<1>7. Allocated \in SUBSET PageId
  BY DEF IndInv, PagesInv
<1> QED
  BY <1>1, <1>2, <1>3, <1>4, <1>5, <1>6, <1>7, InnerWithKeyIsNode

LEMMA ParentInsertStep ==
  ASSUME IndInv, ParentInsert
  PROVE  IndInv' /\ PagesKept
<1> DEFINE p == call.parent
           r == call.right
<1>1. PICK pos \in ParentPositions :
        /\ AtParent(pos) /\ ~ParentIsFull
        /\ pages' = [pages EXCEPT
             ![p] = InnerWithKey(@, call.key_upward, r, pos), ![r].parent = p]
  BY DEF ParentInsert
<1> DEFINE new == InnerWithKey(pages[p], call.key_upward, r, pos)
           mid == [pages EXCEPT ![p] = new]
<1>2. /\ call.pc = "climb" /\ p \in Allocated /\ r \in Allocated
      /\ pages[p].kind = "inner" /\ Len(pages[p].keys) <= InnerLoad
      /\ IsNode(new, Allocated) /\ SameHeader(new, pages[p])
      /\ Len(new.keys) = Len(pages[p].keys) + 1
  BY <1>1, FoundParent
<1>3. pages' = [mid EXCEPT ![r].parent = p]
  BY <1>1
<1> HIDE DEF new, mid
<1>4. /\ PageInv(pages, Allocated, root_pid, p)
      /\ Len(pages[p].keys) \in Nat /\ InnerLoad \in Nat
  BY <1>2, PageFacts, LoadsAreEven, Halves
<1>5. new.kind = "inner" /\ Len(pages[p].keys) # InnerLoad
  BY <1>1, <1>2 DEF SameHeader, ParentIsFull
<1>6. HasLoad(new) /\ (p # root_pid => HalfLoaded(new))
  <2>1. p # root_pid => HalfLoaded(pages[p])
    BY <1>4 DEF PageInv
  <2> QED
    BY <1>2, <1>4, <1>5, <2>1 DEF HasLoad, HalfLoaded, LoadOfKind
<1>7. /\ PagesInv(mid, Allocated, root_pid)
      /\ \A q \in Allocated : SameHeader(mid[q], pages[q])
  BY <1>2, <1>6, Rewrite DEF IndInv, mid
<1>8. /\ mid \in [PageId -> Node \cup {NoPage}] /\ r \in PageId /\ p \in PageId
      /\ mid[r] \in Node /\ Allocated \subseteq PageId
      /\ \A q \in Allocated : mid[q] \in Node
  <2>1. \A q \in Allocated : IsNode(mid[q], Allocated)
    BY <1>7 DEF PagesInv, PageInv
  <2> QED
    BY <1>2, <1>7, <2>1, PageFacts DEF PagesInv, IsNode
<1>9. /\ pages' \in [PageId -> Node \cup {NoPage}]
      /\ SameBody(pages'[r], mid[r]) /\ pages'[r].parent = p
      /\ \A q \in PageId : q # r => pages'[q] = mid[q]
  <2>1. pages' = [mid EXCEPT ![r] = [mid[r] EXCEPT !.parent = p]]
    BY <1>3, <1>8
  <2>2. /\ SameBody([mid[r] EXCEPT !.parent = p], mid[r])
        /\ [mid[r] EXCEPT !.parent = p].parent = p
    BY <1>8, SetParent DEF ParentPointer
  <2>3. [mid[r] EXCEPT !.parent = p] \in Node
    BY <2>2 DEF SameBody
  <2> QED
    BY <1>8, <2>1, <2>2, <2>3
<1>10. \A q \in Allocated : SameBody(mid[q], mid[q])
  BY <1>8 DEF SameBody
<1>11. mid[p].kind = "inner"
  BY <1>2, <1>7 DEF SameHeader
<1>12. PagesInv(pages', Allocated, root_pid)
  <2>1. \A q \in PageId \ Allocated : pages'[q] = mid[q]
    BY <1>2, <1>9
  <2>2. \A q \in Allocated :
          /\ SameBody(pages'[q], mid[q])
          /\ \/ pages'[q].parent = mid[q].parent
             \/ /\ pages'[q].parent \in Allocated
                /\ mid[pages'[q].parent].kind = "inner"
    BY <1>2, <1>8, <1>9, <1>10, <1>11
  <2> QED
    BY <1>7, <1>9, <2>1, <2>2, Relink
<1>13. \A q \in Allocated : pages'[q].parent # Unwritten
  <2> SUFFICES ASSUME NEW q \in Allocated
               PROVE  pages'[q].parent # Unwritten
    OBVIOUS
  <2>1. CASE q = r
    BY <1>8, <1>9, <2>1, PageAssumption DEF PageId
  <2>2. CASE q # r
    BY <1>2, <1>7, <1>8, <1>9, <2>2
       DEF IndInv, OnlyPendingUnwritten, Pending, SameHeader
  <2> QED
    BY <2>1, <2>2
<1>14. num_pages' = num_pages /\ root_pid' = root_pid /\ Return("SUCCESS")
  BY DEF ParentInsert
<1>15. PagesKept /\ PagesInv(pages', Allocated', root_pid')
  BY <1>12, <1>14, KeptPages
<1>16. \A q \in Allocated' : pages'[q].parent # Unwritten
  BY <1>13, <1>15 DEF PagesKept
<1> QED
  BY <1>14, <1>15, <1>16, Returning


(***************************************************************************)
(* Several parent pointers at once: qs differs from ps only in parent      *)
(* pointers of the pages A, and those lead to members of Q.                *)
(***************************************************************************)
PointersSet(ps, qs, A, Q) ==
  /\ qs \in [PageId -> Node \cup {NoPage}]
  /\ \A p \in PageId \ A : qs[p] = ps[p]
  /\ \A p \in A : /\ SameBody(qs[p], ps[p])
                  /\ qs[p].parent = ps[p].parent \/ qs[p].parent \in Q

OnePointerSet(ps, qs, A, Q, c, x) ==
  /\ PointersSet(ps, qs, A, Q)
  /\ qs[c].parent = x
  /\ \A p \in A : p # c => qs[p] = ps[p]
  /\ \A p \in A : qs[p] \in Node

LEMMA SetOnePointer ==
  ASSUME NEW A \in SUBSET PageId, NEW Q \in SUBSET A,
         NEW ps \in [PageId -> Node \cup {NoPage}], \A p \in A : ps[p] \in Node,
         NEW c \in A, NEW x \in Q
  PROVE  OnePointerSet(ps, [ps EXCEPT ![c].parent = x], A, Q, c, x)
<1> DEFINE new == [ps[c] EXCEPT !.parent = x]
           qs  == [ps EXCEPT ![c].parent = x]
<1>1. ps[c] \in Node /\ x \in ParentPointer /\ c \in PageId
  BY DEF ParentPointer
<1>2. SameBody(new, ps[c]) /\ new.parent = x /\ new \in Node
  BY <1>1, SetParent DEF SameBody
<1>3. qs = [ps EXCEPT ![c] = new]
  BY <1>1
<1> HIDE DEF new, qs
<1>4. /\ qs \in [PageId -> Node \cup {NoPage}] /\ qs[c] = new
      /\ \A p \in PageId : p # c => qs[p] = ps[p]
  BY <1>1, <1>2, <1>3
<1>5. \A p \in A : SameBody(ps[p], ps[p])
  BY DEF SameBody
<1>6. PointersSet(ps, qs, A, Q)
  BY <1>2, <1>4, <1>5 DEF PointersSet
<1>7. OnePointerSet(ps, qs, A, Q, c, x)
  BY <1>2, <1>4, <1>6 DEF OnePointerSet
<1> QED
  BY <1>7 DEF qs

TwoPointersSet(ps, qs, A, Q, c, d) ==
  PointersSet(ps, qs, A, Q) /\ qs[c].parent \in Q /\ qs[d].parent \in Q

LEMMA SetTwoPointers ==
  ASSUME NEW A \in SUBSET PageId, NEW Q \in SUBSET A,
         NEW ps \in [PageId -> Node \cup {NoPage}], \A p \in A : ps[p] \in Node,
         NEW c \in A, NEW x \in Q, NEW d \in A, NEW y \in Q
  PROVE  TwoPointersSet(ps, [ps EXCEPT ![c].parent = x, ![d].parent = y],
                        A, Q, c, d)
<1> DEFINE mid == [ps EXCEPT ![c].parent = x]
           qs  == [mid EXCEPT ![d].parent = y]
<1>0. OnePointerSet(ps, mid, A, Q, c, x)
  BY SetOnePointer
<1> HIDE DEF mid
<1>1. /\ PointersSet(ps, mid, A, Q) /\ mid[c].parent = x
      /\ \A p \in A : mid[p] \in Node
  BY <1>0 DEF OnePointerSet
<1>2. mid \in [PageId -> Node \cup {NoPage}]
  BY <1>1 DEF PointersSet
<1>3. OnePointerSet(mid, qs, A, Q, d, y)
  BY <1>1, <1>2, SetOnePointer
<1> HIDE DEF qs
<1>4. /\ PointersSet(mid, qs, A, Q) /\ qs[d].parent = y
      /\ \A p \in A : p # d => qs[p] = mid[p]
  BY <1>3 DEF OnePointerSet
<1>5. PointersSet(ps, qs, A, Q)
  BY <1>1, <1>4 DEF PointersSet, SameBody
<1>6. TwoPointersSet(ps, qs, A, Q, c, d)
  BY <1>1, <1>4, <1>5 DEF TwoPointersSet
<1>7. qs = [ps EXCEPT ![c].parent = x, ![d].parent = y]
  BY DEF qs, mid
<1> QED
  BY <1>6, <1>7

LEMMA RelinkedPointers ==
  ASSUME NEW A \in SUBSET PageId, NEW Q \in SUBSET A,
         NEW ps \in [PageId -> Node \cup {NoPage}], \A p \in A : ps[p] \in Node,
         NEW new \in Q, ps[new].children \in Seq(A)
  PROVE  PointersSet(ps, Relinked(ps, new), A, Q)
<1> DEFINE moved == {ps[new].children[i] : i \in 1 .. Len(ps[new].children)}
           qs    == Relinked(ps, new)
<1>1. moved \subseteq A
  BY ElementOfSeq
<1>2. qs = [p \in PageId |-> IF p \in moved THEN [ps[p] EXCEPT !.parent = new]
                                            ELSE ps[p]]
  BY DEF Relinked
<1> HIDE DEF moved, qs
<1>3. \A p \in A : LET q == [ps[p] EXCEPT !.parent = new]
                   IN  SameBody(q, ps[p]) /\ q.parent = new /\ q \in Node
  BY SetParent DEF ParentPointer, SameBody
<1>4. \A p \in A : SameBody(ps[p], ps[p])
  BY DEF SameBody
<1>5. qs \in [PageId -> Node \cup {NoPage}]
  <2>1. \A p \in PageId : qs[p] \in Node \cup {NoPage}
    BY <1>1, <1>2, <1>3
  <2> QED
    BY <1>2, <2>1
<1>6. \A p \in PageId \ A : qs[p] = ps[p]
  BY <1>1, <1>2
<1>7. \A p \in A : /\ SameBody(qs[p], ps[p])
                   /\ qs[p].parent = ps[p].parent \/ qs[p].parent \in Q
  <2> TAKE p \in A
  <2>1. CASE p \in moved
    <3>1. qs[p] = [ps[p] EXCEPT !.parent = new]
      BY <1>2, <2>1
    <3> QED
      BY <1>3, <3>1
  <2>2. CASE p \notin moved
    BY <1>2, <1>4, <2>2
  <2> QED
    BY <2>1, <2>2
<1> QED
  BY <1>5, <1>6, <1>7 DEF PointersSet, qs


LEMMA ParentSplitStep ==
  ASSUME IndInv, ParentSplit
  PROVE  IndInv' /\ PageAdded
<1> DEFINE p == call.parent
<1>1. PICK pos \in ParentPositions, byte \in FreshRootByte :
        /\ AtParent(pos) /\ ParentIsFull
        /\ LET over  == InnerWithKey(pages[p], call.key_upward, call.right, pos)
               pivot == Pivot(over, InnerLoad)
               split == [pages EXCEPT
                  ![p]         = LeftInner(over, InnerLoad),
                  ![num_pages] = RightInner(over, InnerLoad, byte, Unwritten)]
               linked == [split EXCEPT
                  ![call.left].parent  = LeftHome(pivot, num_pages),
                  ![call.right].parent = RightHome(pivot, num_pages)]
           IN  /\ pages' = Relinked(linked, num_pages)
               /\ call' = NextLevel(pages', pivot, num_pages)
  BY DEF ParentSplit
<1> DEFINE over   == InnerWithKey(pages[p], call.key_upward, call.right, pos)
           pivot  == Pivot(over, InnerLoad)
           left   == LeftInner(over, InnerLoad)
           right  == RightInner(over, InnerLoad, byte, Unwritten)
           mid    == [pages EXCEPT ![p] = left]
           split  == [mid EXCEPT ![num_pages] = right]
           linked == [split EXCEPT
                        ![call.left].parent  = LeftHome(pivot, num_pages),
                        ![call.right].parent = RightHome(pivot, num_pages)]
           A == Allocated \cup {num_pages}
           Q == {p, num_pages}
<1>2. /\ call.pc = "climb" /\ p \in Allocated
      /\ call.left \in Allocated /\ call.right \in Allocated
      /\ pages[p].kind = "inner"
      /\ IsNode(over, Allocated) /\ SameHeader(over, pages[p])
      /\ Len(over.keys) = Len(pages[p].keys) + 1
  BY <1>1, FoundParent
<1>3. over.kind = "inner" /\ Len(over.keys) = InnerLoad + 1
  BY <1>1, <1>2 DEF SameHeader, ParentIsFull
<1>4. pages' = Relinked(linked, num_pages) /\ call' = NextLevel(pages', pivot, num_pages)
  BY <1>1
<1> HIDE DEF over
<1>5. /\ InnerLoad \in LoadType /\ Allocated \in SUBSET PageId
      /\ byte \in BOOLEAN /\ Unwritten \in ParentPointer
  BY LoadsAreEven, InputAssumption DEF IndInv, PagesInv, ParentPointer
<1>6. /\ IsNode(left, Allocated) /\ SameHeader(left, over)
      /\ 2 * Len(left.keys) >= InnerLoad /\ Len(left.keys) <= InnerLoad
      /\ IsNode(right, Allocated) /\ right.kind = "inner" /\ right.parent = Unwritten
      /\ 2 * Len(right.keys) >= InnerLoad /\ Len(right.keys) <= InnerLoad
      /\ pivot \in Key
  <2>1. /\ Allocated \in SUBSET PageId /\ IsNode(over, Allocated)
        /\ over.kind = "inner" /\ InnerLoad \in LoadType
        /\ Len(over.keys) = InnerLoad + 1
        /\ byte \in BOOLEAN /\ Unwritten \in ParentPointer
    BY <1>2, <1>3, <1>5
  <2>2. AreInnerHalves(left, right, pivot, over, Allocated, InnerLoad)
    BY <2>1, InnerHalvesAreNodes
  <2>3. right.parent = Unwritten
    BY DEF RightInner, InternalNode
  <2> QED
    BY <2>2, <2>3 DEF AreInnerHalves
<1> HIDE DEF left, right, pivot, mid, split, linked
<1>7. /\ num_pages \in Nat /\ num_pages < TABLE_MAX_PAGES
      /\ num_pages' = num_pages + 1 /\ root_pid' = root_pid /\ reply' = reply
      /\ root_pid \in Allocated /\ TABLE_MAX_PAGES \in Nat
      /\ num_pages \in A /\ p \in A /\ A \in SUBSET PageId /\ Q \in SUBSET A
      /\ num_pages \in PageId /\ num_pages \notin Allocated
      /\ num_pages + 1 \in 1 .. TABLE_MAX_PAGES /\ A \subseteq 0 .. (num_pages + 1) - 1
      /\ \A q \in Allocated : q \in A /\ q # num_pages
      /\ \A q \in A : q \in Allocated \/ q = num_pages
  <2>1. /\ num_pages < TABLE_MAX_PAGES /\ num_pages' = num_pages + 1
        /\ root_pid' = root_pid /\ reply' = reply
    BY DEF ParentSplit
  <2>2. TABLE_MAX_PAGES \in Nat /\ p \in Allocated
    BY <1>2, PageAssumption
  <2> QED
    BY <2>1, <2>2, NextPage
<1>8. /\ SameHeader(left, pages[p]) /\ left.kind = "inner"
      /\ HasLoad(left) /\ HalfLoaded(left) /\ FreshNode(right, Allocated)
  BY <1>2, <1>3, <1>6, <1>7
     DEF SameHeader, HasLoad, HalfLoaded, LoadOfKind, FreshNode
<1>9. /\ PagesInv(mid, Allocated, root_pid)
      /\ \A q \in Allocated : SameHeader(mid[q], pages[q])
  BY <1>2, <1>6, <1>8, Rewrite DEF IndInv, mid
<1>10. PagesInv(split, A, root_pid)
  BY <1>7, <1>8, <1>9, Extend DEF split
<1>11. /\ split[num_pages] = right /\ split[p] = left
       /\ \A q \in Allocated : SameHeader(split[q], pages[q])
       /\ split \in [PageId -> Node \cup {NoPage}]
       /\ \A q \in A : split[q] \in Node
  <2>1. DOMAIN mid = PageId /\ DOMAIN pages = PageId /\ Allocated \subseteq PageId
    BY <1>5, <1>9 DEF PagesInv, IndInv
  <2>2. mid[p] = left
    BY <1>2, <2>1 DEF mid
  <2>3. /\ split[num_pages] = right
        /\ \A q \in Allocated : split[q] = mid[q]
    BY <1>7, <2>1 DEF split
  <2>4. \A q \in A : PageInv(split, A, root_pid, q)
    BY <1>7, <1>10 DEF PagesInv
  <2> QED
    BY <1>2, <1>9, <1>10, <2>2, <2>3, <2>4 DEF PagesInv, PageInv, IsNode
<1> HIDE DEF A, Q
<1>12. TwoPointersSet(split, linked, A, Q, call.left, call.right)
  <2>1. LeftHome(pivot, num_pages) \in Q /\ RightHome(pivot, num_pages) \in Q
    BY DEF LeftHome, RightHome, Q
  <2>2. call.left \in A /\ call.right \in A
    BY <1>2, <1>7
  <2>3. /\ A \in SUBSET PageId /\ Q \in SUBSET A
        /\ split \in [PageId -> Node \cup {NoPage}] /\ \A q \in A : split[q] \in Node
    BY <1>7, <1>11
  <2> QED
    BY <2>1, <2>2, <2>3, SetTwoPointers DEF linked
<1>13. /\ PointersSet(split, linked, A, Q)
       /\ linked[call.left].parent \in Q /\ linked[call.right].parent \in Q
       /\ linked \in [PageId -> Node \cup {NoPage}]
       /\ \A q \in A : linked[q] \in Node
  BY <1>12 DEF TwoPointersSet, PointersSet, SameBody
<1>14. PointersSet(linked, pages', A, Q)
  <2>1. linked[num_pages].children \in Seq(A)
    <3>1. linked[num_pages].children = right.children
      BY <1>7, <1>11, <1>13 DEF PointersSet, SameBody
    <3>2. right.children \in Seq(Allocated)
      BY <1>6 DEF IsNode
    <3>3. Allocated \subseteq A
      BY <1>7
    <3> QED
      BY <3>1, <3>2, <3>3, SeqMonotonic
  <2> QED
    <3>1. /\ A \in SUBSET PageId /\ Q \in SUBSET A /\ num_pages \in Q
          /\ linked \in [PageId -> Node \cup {NoPage}]
          /\ \A q \in A : linked[q] \in Node
      BY <1>7, <1>13 DEF Q
    <3> QED
      BY <1>4, <2>1, <3>1, RelinkedPointers
<1>15. PointersSet(split, pages', A, Q)
  BY <1>13, <1>14 DEF PointersSet, SameBody
<1>16. PagesInv(pages', A, root_pid)
  <2>1. split[p].kind = "inner" /\ split[num_pages].kind = "inner"
    BY <1>6, <1>8, <1>11
  <2>3. \A q \in PageId \ A : pages'[q] = split[q]
    BY <1>15 DEF PointersSet
  <2>4. \A q \in A :
          /\ SameBody(pages'[q], split[q])
          /\ \/ pages'[q].parent = split[q].parent
             \/ /\ pages'[q].parent \in A
                /\ split[pages'[q].parent].kind = "inner"
    BY <1>7, <1>15, <2>1 DEF PointersSet, Q
  <2>5. pages' \in [PageId -> Node \cup {NoPage}]
    BY <1>15 DEF PointersSet
  <2> QED
    BY <1>10, <2>3, <2>4, <2>5, Relink
<1>17. \A q \in Allocated : pages'[q].parent # Unwritten
  <2> TAKE q \in Allocated
  <2>1. \A x \in Q : x # Unwritten
    BY <1>7, PageAssumption DEF PageId
  <2>2. CASE q = call.right
    BY <1>7, <1>13, <1>14, <2>1, <2>2 DEF PointersSet
  <2>3. CASE q # call.right
    <3>1. split[q].parent # Unwritten
      BY <1>2, <1>11, <2>3
         DEF IndInv, OnlyPendingUnwritten, Pending, SameHeader
    <3> QED
      BY <1>7, <1>15, <2>1, <3>1 DEF PointersSet
  <2> QED
    BY <2>2, <2>3
<1>18. call' = [pc |-> "climb", key_upward |-> pivot, left |-> p,
                right |-> num_pages, parent |-> pages'[p].parent]
  BY <1>4 DEF NextLevel, Climb
<1>19. /\ PageInv(pages', A, root_pid, p)
       /\ pages'[p].parent \in A \cup {NODE_PARENT_INVALID}
       /\ pages'[p].parent \in A => pages'[pages'[p].parent].kind = "inner"
       /\ pages'[p].parent = NODE_PARENT_INVALID => p = root_pid
  <2>1. PageInv(pages', A, root_pid, p)
    BY <1>7, <1>16 DEF PagesInv
  <2>2. pages'[p].parent \in ParentPointer /\ pages'[p].parent # Unwritten
    BY <1>2, <1>17, <2>1 DEF PageInv, IsNode, Node
  <2> QED
    BY <1>7, <2>1, <2>2 DEF PageInv, ParentPointer
<1>23. /\ PageAdded /\ PagesInv(pages', Allocated', root_pid') /\ Allocated' = A
  BY <1>7, <1>16, AddedPage DEF A, PageAdded
<1>20. call' \in Call'
  <2>1. p \in Allocated' /\ num_pages \in Allocated' /\ Key' = Key
    BY <1>7, <1>23 DEF Key
  <2> QED
    BY <1>6, <1>7, <1>18, <1>19, <1>23, <2>1 DEF Call
<1>21. OnlyPendingUnwritten'
  BY <1>7, <1>17, <1>18, <1>23 DEF OnlyPendingUnwritten, Pending
<1>22. ClimbInv'
  <2>1. HalfLoaded(pages'[p])
    BY <1>7, <1>8, <1>11, <1>15 DEF PointersSet, SameBody, HalfLoaded
  <2>2. call'.parent = pages'[p].parent /\ call'.left = p
    BY <1>18
  <2> QED
    BY <1>7, <1>19, <2>1, <2>2
       DEF ClimbInv, HalfLoaded, LoadOfKind, LeafLoad, InnerLoad
<1> QED
  BY <1>7, <1>20, <1>21, <1>22, <1>23 DEF IndInv


SameContent(new, old) ==
  /\ new \in Node
  /\ new.kind = old.kind
  /\ new.keys = old.keys /\ new.rows = old.rows /\ new.children = old.children

LEMMA RootMoves ==
  ASSUME NEW A \in SUBSET PageId, NEW ps \in [PageId -> Node \cup {NoPage}],
         \A p \in A : ps[p] \in Node,
         root_pid \in A, NEW new \in A, new # root_pid
  PROVE  LET qs == UpdateRoot(ps, new)
         IN  /\ qs \in [PageId -> Node \cup {NoPage}]
             /\ \A p \in PageId \ A : qs[p] = ps[p]
             /\ \A p \in A : SameContent(qs[p], ps[p])
             /\ \A p \in A : p # new => qs[p].parent = ps[p].parent
             /\ qs[new].parent = NODE_PARENT_INVALID
<1> DEFINE old == [ps[root_pid] EXCEPT !.is_root = FALSE]
           top == [ps[new] EXCEPT !.is_root = TRUE, !.parent = NODE_PARENT_INVALID]
           qs  == UpdateRoot(ps, new)
<1>1. root_pid \in PageId /\ new \in PageId /\ ps[root_pid] \in Node /\ ps[new] \in Node
  OBVIOUS
<1>2. SameContent(old, ps[root_pid]) /\ old.parent = ps[root_pid].parent
  BY <1>1 DEF SameContent, Node
<1>3. SameContent(top, ps[new]) /\ top.parent = NODE_PARENT_INVALID
  BY <1>1 DEF SameContent, Node, ParentPointer
<1>4. qs = [ps EXCEPT ![root_pid] = old, ![new] = top]
  BY <1>1 DEF UpdateRoot
<1>5. old \in Node /\ top \in Node
  BY <1>2, <1>3 DEF SameContent
<1> HIDE DEF old, top, qs
<1>6. /\ qs \in [PageId -> Node \cup {NoPage}]
      /\ qs[root_pid] = old /\ qs[new] = top
      /\ \A p \in PageId : p # root_pid /\ p # new => qs[p] = ps[p]
  BY <1>1, <1>4, <1>5
<1>7. \A p \in A : SameContent(ps[p], ps[p])
  BY DEF SameContent
<1>8. \A p \in A : SameContent(qs[p], ps[p]) /\ (p # new => qs[p].parent = ps[p].parent)
  BY <1>2, <1>3, <1>6, <1>7
<1>9. (\A p \in PageId \ A : qs[p] = ps[p]) /\ qs[new].parent = NODE_PARENT_INVALID
  BY <1>3, <1>6
<1> QED
  BY <1>6, <1>8, <1>9 DEF qs

LEMMA NewRootStep ==
  ASSUME IndInv, NewRoot
  PROVE  IndInv' /\ PageAdded
<1> DEFINE l == call.left
           r == call.right
           A == Allocated \cup {num_pages}
           Q == {num_pages}
<1>1. PICK byte \in FreshRootByte :
        LET linked == [pages EXCEPT
              ![num_pages] = InternalNode(byte, Unwritten, <<call.key_upward>>, <<l, r>>),
              ![l].parent  = num_pages,
              ![r].parent  = num_pages]
        IN  pages' = UpdateRoot(linked, num_pages)
  BY DEF NewRoot
<1> DEFINE top    == InternalNode(byte, Unwritten, <<call.key_upward>>, <<l, r>>)
           ext    == [pages EXCEPT ![num_pages] = top]
           linked == [ext EXCEPT ![l].parent = num_pages, ![r].parent = num_pages]
<1>2. pages' = UpdateRoot(linked, num_pages)
  BY <1>1
<1> HIDE DEF linked
<1>3. /\ call.pc = "climb" /\ call.key_upward \in Key
      /\ l \in Allocated /\ r \in Allocated
      /\ l = root_pid /\ HalfLoaded(pages[l])
  BY ClimbCall DEF NewRoot, IndInv, ClimbInv
<1>4. /\ num_pages \in Nat /\ num_pages < TABLE_MAX_PAGES
      /\ num_pages' = num_pages + 1 /\ root_pid' = num_pages /\ Return("SUCCESS")
      /\ num_pages + 1 \in 1 .. TABLE_MAX_PAGES
      /\ num_pages \in A /\ l \in A /\ r \in A /\ root_pid \in A
      /\ num_pages # root_pid
      /\ A \in SUBSET PageId /\ Q \in SUBSET A /\ num_pages \in Q
      /\ num_pages \in PageId
      /\ \A q \in Allocated : q \in A /\ q # num_pages
      /\ \A q \in A : q \in Allocated \/ q = num_pages
  BY <1>3, NextPage DEF NewRoot
<1>5. /\ top \in Node /\ top.kind = "inner" /\ Len(top.keys) = 1
      /\ Len(top.children) = 2 /\ top.children \in Seq(A)
  <2>1. byte \in BOOLEAN /\ Unwritten \in ParentPointer
    BY InputAssumption DEF ParentPointer
  <2>2. <<call.key_upward>> \in Seq(Key) /\ <<l, r>> \in Seq(A)
    BY <1>3, <1>4
  <2>3. <<l, r>> \in Seq(PageId)
    BY <1>4, <2>2, SeqMonotonic
  <2>4. top = [kind |-> "inner", is_root |-> byte, parent |-> Unwritten,
               keys |-> <<call.key_upward>>, rows |-> <<>>, children |-> <<l, r>>]
    BY DEF InternalNode
  <2> HIDE DEF top
  <2>5. top \in Node
    BY <2>1, <2>2, <2>3, <2>4, EmptySeq DEF Node
  <2>6. Len(<<call.key_upward>>) = 1 /\ Len(<<l, r>>) = 2
    OBVIOUS
  <2> QED
    BY <2>2, <2>4, <2>5, <2>6
<1> HIDE DEF top
<1>6. /\ ext \in [PageId -> Node \cup {NoPage}] /\ ext[num_pages] = top
      /\ \A q \in PageId : q # num_pages => ext[q] = pages[q]
  BY <1>4, <1>5 DEF IndInv, PagesInv
<1> HIDE DEF ext
<1>7. \A q \in A : ext[q] \in Node
  BY <1>4, <1>5, <1>6, PageFacts
<1> HIDE DEF A, Q
<1>8. TwoPointersSet(ext, linked, A, Q, l, r)
  <2>1. /\ A \in SUBSET PageId /\ Q \in SUBSET A
        /\ l \in A /\ r \in A /\ num_pages \in Q
    BY <1>4
  <2> QED
    BY <1>6, <1>7, <2>1, SetTwoPointers DEF linked
<1>9. /\ PointersSet(ext, linked, A, Q) /\ linked[l].parent = num_pages
      /\ linked[r].parent = num_pages
      /\ linked \in [PageId -> Node \cup {NoPage}] /\ \A q \in A : linked[q] \in Node
  BY <1>8 DEF TwoPointersSet, PointersSet, SameBody, Q
<1>10. /\ pages' \in [PageId -> Node \cup {NoPage}]
       /\ \A q \in PageId \ A : pages'[q] = linked[q]
       /\ \A q \in A : SameContent(pages'[q], linked[q])
       /\ \A q \in A : q # num_pages => pages'[q].parent = linked[q].parent
       /\ pages'[num_pages].parent = NODE_PARENT_INVALID
  <2>1. /\ A \in SUBSET PageId /\ root_pid \in A /\ num_pages \in A
        /\ num_pages # root_pid
    BY <1>4
  <2> QED
    BY <1>2, <1>9, <2>1, RootMoves
<1>11. \A q \in A : SameContent(pages'[q], ext[q])
  BY <1>9, <1>10 DEF PointersSet, SameBody, SameContent
<1>12. PageInv(pages', A, num_pages, num_pages)
  <2> DEFINE new == pages'[num_pages]
  <2>0. SameContent(new, top)
    BY <1>4, <1>6, <1>11
  <2> HIDE DEF new
  <2>1. /\ new \in Node /\ new.kind = "inner" /\ new.children \in Seq(A)
        /\ Len(new.keys) = 1 /\ Len(new.children) = 2
    BY <1>5, <2>0 DEF SameContent
  <2>2. IsNode(new, A)
    BY <2>1 DEF IsNode
  <2>3. InnerLoad \in Nat /\ InnerLoad > 0
    BY LoadsAreEven, Halves
  <2>4. HasLoad(new)
    BY <2>1, <2>3 DEF HasLoad, LoadOfKind
  <2>5. pages'[num_pages].parent \notin PageId
    BY <1>10, PageAssumption DEF PageId
  <2> QED
    BY <1>4, <2>2, <2>4, <2>5 DEF PageInv, new
<1>13. ASSUME NEW q \in Allocated
       PROVE  PageInv(pages', A, num_pages, q)
  <2>1. /\ q \in A /\ q # num_pages /\ q \in PageId /\ ext[q] = pages[q]
        /\ PageInv(pages, Allocated, root_pid, q) /\ IsNode(pages[q], Allocated)
    BY <1>4, <1>6, PageFacts
  <2>2. SameContent(pages'[q], pages[q])
    BY <1>11, <2>1
  <2>3. IsNode(pages'[q], A)
    <3>1. Allocated \subseteq A
      BY <1>4
    <3>2. IsNode(pages[q], A)
      BY <2>1, <3>1, NodeMonotonic
    <3> QED
      BY <2>2, <3>2 DEF IsNode, SameContent
  <2>4. HasLoad(pages'[q]) /\ HalfLoaded(pages'[q])
    BY <1>3, <2>1, <2>2 DEF PageInv, SameContent, HasLoad, HalfLoaded
  <2>5. \/ pages'[q].parent = num_pages
        \/ pages'[q].parent = pages[q].parent /\ q # root_pid
    BY <1>3, <1>9, <1>10, <2>1 DEF PointersSet, Q
  <2>6. pages'[q].parent # NODE_PARENT_INVALID
    BY <1>4, <2>1, <2>5, PageAssumption DEF PageInv, PageId
  <2>7. pages'[q].parent \in PageId => pages'[q].parent \in A
    BY <1>4, <2>1, <2>5 DEF PageInv
  <2>8. pages'[q].parent \in PageId => pages'[pages'[q].parent].kind = "inner"
    <3>1. pages'[num_pages].kind = "inner"
      BY <1>4, <1>5, <1>6, <1>11 DEF SameContent
    <3>2. ASSUME NEW x \in Allocated, pages[x].kind = "inner"
          PROVE  pages'[x].kind = "inner"
      BY <1>4, <1>6, <1>11, <3>2, PageFacts DEF SameContent
    <3> QED
      BY <2>1, <2>5, <3>1, <3>2 DEF PageInv
  <2> QED
    BY <1>4, <2>3, <2>4, <2>6, <2>7, <2>8 DEF PageInv
<1>14. PagesInv(pages', A, num_pages)
  <2>1. \A q \in PageId \ A : pages'[q] = NoPage
    <3> SUFFICES ASSUME NEW q \in PageId \ A
                 PROVE  pages'[q] = NoPage
      OBVIOUS
    <3>1. q # num_pages /\ pages[q] = NoPage
      BY <1>4 DEF IndInv, PagesInv
    <3> QED
      BY <1>6, <1>9, <1>10, <3>1 DEF PointersSet
  <2>2. \A q \in A : PageInv(pages', A, num_pages, q)
    BY <1>4, <1>12, <1>13
  <2>3. num_pages \in A
    BY <1>4
  <2> QED
    BY <1>4, <1>10, <2>1, <2>2, <2>3 DEF PagesInv
<1>15. \A q \in A : pages'[q].parent # Unwritten
  <2> SUFFICES ASSUME NEW q \in A
               PROVE  pages'[q].parent # Unwritten
    BY <1>4
  <2>1. num_pages # Unwritten /\ NODE_PARENT_INVALID # Unwritten
    BY <1>4, PageAssumption DEF PageId
  <2>2. CASE q = num_pages
    BY <1>10, <2>1, <2>2
  <2>3. CASE q = r /\ q # num_pages
    BY <1>4, <1>9, <1>10, <2>1, <2>3
  <2>4. CASE q # r /\ q # num_pages
    <3>1. q \in Allocated /\ pages[q].parent # Unwritten
      BY <1>3, <1>4, <2>4 DEF IndInv, OnlyPendingUnwritten, Pending
    <3>2. pages'[q].parent = pages[q].parent \/ pages'[q].parent = num_pages
      BY <1>4, <1>6, <1>9, <1>10, <2>4, <3>1, PageFacts DEF PointersSet, Q
    <3> QED
      BY <2>1, <3>1, <3>2
  <2> QED
    BY <2>2, <2>3, <2>4
<1>16. /\ PageAdded /\ PagesInv(pages', Allocated', root_pid') /\ Allocated' = A
  BY <1>4, <1>14, AddedPage DEF A, PageAdded
<1> QED
  BY <1>4, <1>15, <1>16, Returning


(***************************************************************************)
(* The steps that leave the pages alone.                                   *)
(***************************************************************************)
QuietCall ==
  /\ UNCHANGED <<pages, root_pid, num_pages>>
  /\ call' \in Call
  /\ call' = call \/ (call'.pc # "climb" /\ call.pc # "climb")
  /\ reply'.status \in {"NONE", "SUCCESS", "FAIL_DUPLICATE_KEY", "SELECTED"}

LEMMA QuietStep ==
  ASSUME IndInv, QuietCall
  PROVE  IndInv' /\ PagesKept
<1> USE DEF QuietCall
<1>1. Call' = Call /\ Allocated' = Allocated /\ PagesKept
  BY DEF Call, Allocated, Key, PagesKept, PageId
<1>2. Pending' = Pending /\ OnlyPendingUnwritten'
  BY <1>1 DEF Pending, OnlyPendingUnwritten, IndInv
<1>3. ClimbInv'
  BY DEF ClimbInv, IndInv, HalfLoaded, LoadOfKind, LeafLoad, InnerLoad
<1> QED
  BY <1>1, <1>2, <1>3
     DEF IndInv, PagesInv, PageInv, HasLoad, HalfLoaded, LoadOfKind, LeafLoad, InnerLoad

LEMMA InsertCallStep ==
  ASSUME IndInv, NEW key \in Key, NEW row \in Row, Insert(key, row)
  PROVE  IndInv' /\ PagesKept
<1>1. call' = [pc |-> "find", key |-> key, row |-> row, page_id |-> root_pid]
      /\ reply'.status = "NONE" /\ call.pc = "idle"
  BY DEF Insert, Find, NoReply, Reply, Idle
<1>2. root_pid \in Allocated
  BY DEF IndInv, PagesInv
<1>3. call' \in Call
  BY <1>1, <1>2 DEF Call
<1> QED
  BY <1>1, <1>3, QuietStep DEF Insert, QuietCall

LEMMA DescendStep ==
  ASSUME IndInv, Descend
  PROVE  IndInv' /\ PagesKept
<1> DEFINE node == pages[call.page_id]
<1>1. /\ call.key \in Key /\ call.row \in Row /\ call.page_id \in Allocated
      /\ call.pc = "find" /\ node.kind = "inner"
  BY FindCall DEF Descend, IndInv
<1>2. PICK pos \in 0 .. Len(node.keys) :
        call' = [call EXCEPT
          !.page_id = node.children[ChildSlot(node.keys, call.key, pos)]]
  BY DEF Descend
<1> DEFINE slot == ChildSlot(node.keys, call.key, pos)
<1>3. /\ node.children \in Seq(Allocated) /\ Len(node.keys) \in Nat
      /\ Len(node.children) = Len(node.keys) + 1
  BY <1>1, PageFacts DEF IsNode
<1>4. slot \in 1 .. Len(node.children)
  BY <1>3 DEF ChildSlot, HasKeyAt
<1> HIDE DEF slot
<1>5. node.children[slot] \in Allocated
  BY <1>3, <1>4, ElementOfSeq
<1>6. call = [pc |-> "find", key |-> call.key, row |-> call.row, page_id |-> call.page_id]
  BY <1>1 DEF IndInv, Call
<1>7. call' = [pc |-> "find", key |-> call.key, row |-> call.row,
               page_id |-> node.children[slot]]
  BY <1>2, <1>6 DEF slot
<1>8. call' \in Call /\ call'.pc = "find"
  BY <1>1, <1>5, <1>7 DEF Call
<1> QED
  BY <1>1, <1>8, QuietStep DEF Descend, IndInv, QuietCall

LEMMA RejectDuplicateStep ==
  ASSUME IndInv, RejectDuplicate
  PROVE  IndInv' /\ PagesKept
<1>1. call.pc = "find"
  BY DEF RejectDuplicate, AtLeaf
<1>2. call' = [pc |-> "idle"] /\ reply'.status = "FAIL_DUPLICATE_KEY"
  BY DEF RejectDuplicate, Return, Idle, Reply
<1>3. call' \in Call
  BY <1>2 DEF Call
<1> QED
  BY <1>1, <1>2, <1>3, QuietStep DEF RejectDuplicate, QuietCall

LEMMA SelectStep ==
  ASSUME IndInv, NEW min_val, NEW max_val, Select(min_val, max_val)
  PROVE  IndInv' /\ PagesKept
<1>1. call' = call /\ reply'.status = "SELECTED"
  BY DEF Select, Selected
<1>2. call' \in Call
  BY <1>1 DEF IndInv
<1>3. UNCHANGED <<pages, root_pid, num_pages>>
  BY DEF Select
<1>4. QuietCall
  BY <1>1, <1>2, <1>3 DEF QuietCall
<1> QED
  BY <1>4, QuietStep

LEMMA InitIndInv ==
  ASSUME Init
  PROVE  IndInv /\ Allocated = {0}
<1> DEFINE root == LeafNode(TRUE, NODE_PARENT_INVALID, <<>>, <<>>)
<1>1. /\ root \in Node /\ root.kind = "leaf" /\ root.keys = <<>> /\ root.rows = <<>>
      /\ root.children = <<>> /\ root.parent = NODE_PARENT_INVALID
  BY EmptySeq DEF LeafNode, Node, ParentPointer
<1>2. 0 \in PageId
  BY PageAssumption DEF PageId
<1>3. pages = [p \in PageId |-> IF p = 0 THEN root ELSE NoPage]
  BY DEF Init
<1> HIDE DEF root
<1>4. IsNode(root, {0}) /\ root # NoPage
  BY <1>1, EmptySeq, NoPageAssumption DEF IsNode
<1>5. HasLoad(root)
  <2>1. LeafLoad \in Nat /\ LeafLoad > 0
    BY LoadsAreEven, Halves
  <2> QED
    BY <1>1, <2>1 DEF HasLoad, LoadOfKind
<1>6. pages[0] = root /\ \A p \in PageId \ {0} : pages[p] = NoPage
  BY <1>2, <1>3
<1>12. Allocated = {0}
  BY <1>2, <1>4, <1>6 DEF Allocated
<1>7. PageInv(pages, {0}, 0, 0)
  BY <1>1, <1>4, <1>5, <1>6, PageAssumption DEF PageInv, PageId
<1>8. PagesInv(pages, Allocated, 0)
  <2>1. pages \in [PageId -> Node \cup {NoPage}]
    BY <1>1, <1>3
  <2> QED
    BY <1>2, <1>6, <1>7, <1>12, <2>1 DEF PagesInv
<1>9. call = [pc |-> "idle"] /\ reply.status = "NONE"
  BY DEF Init, Idle, NoReply, Reply
<1>10. call \in Call /\ ClimbInv
  BY <1>9 DEF Call, ClimbInv
<1>11. OnlyPendingUnwritten
  BY <1>1, <1>6, <1>12, PageAssumption DEF OnlyPendingUnwritten
<1>13. 1 \in 1 .. TABLE_MAX_PAGES /\ Allocated \subseteq 0 .. 1 - 1
  BY <1>12, PageAssumption
<1> QED
  BY <1>8, <1>9, <1>10, <1>11, <1>12, <1>13 DEF IndInv, Init


LEMMA StepPages ==
  ASSUME IndInv, [Next]_vars
  PROVE  IndInv' /\ (PagesKept \/ PageAdded)
<1>1. ASSUME NEW key \in Key, NEW row \in Row, Insert(key, row)
      PROVE  IndInv' /\ PagesKept
  BY <1>1, InsertCallStep
<1>2. ASSUME NEW range \in SelectRange, Select(range[1], range[2])
      PROVE  IndInv' /\ PagesKept
  BY <1>2, SelectStep
<1>3. CASE Descend
  BY <1>3, DescendStep
<1>4. CASE RejectDuplicate
  BY <1>4, RejectDuplicateStep
<1>5. CASE LeafInsert
  BY <1>5, LeafInsertStep
<1>6. CASE LeafSplit
  BY <1>6, LeafSplitStep
<1>7. CASE ParentInsert
  BY <1>7, ParentInsertStep
<1>8. CASE ParentSplit
  BY <1>8, ParentSplitStep
<1>9. CASE NewRoot
  BY <1>9, NewRootStep
<1>10. CASE UNCHANGED vars
  <2>1. /\ UNCHANGED <<pages, root_pid, num_pages>> /\ call' = call /\ reply' = reply
    BY <1>10 DEF vars
  <2>2. call' \in Call
    BY <2>1 DEF IndInv
  <2>3. reply'.status \in {"NONE", "SUCCESS", "FAIL_DUPLICATE_KEY", "SELECTED"}
    BY <2>1 DEF IndInv
  <2>4. QuietCall
    BY <2>1, <2>2, <2>3 DEF QuietCall
  <2> QED
    BY <2>4, QuietStep
<1> QED
  BY <1>1, <1>2, <1>3, <1>4, <1>5, <1>6, <1>7, <1>8, <1>9, <1>10 DEF Next, Step

LEMMA StepIndInv ==
  ASSUME IndInv, [Next]_vars
  PROVE  IndInv'
BY StepPages

LEMMA Invariance == Spec => []IndInv
<1>1. Init => IndInv
  BY InitIndInv
<1>2. IndInv /\ [Next]_vars => IndInv'
  BY StepIndInv
<1> QED
  BY <1>1, <1>2, PTL DEF Spec

------------------------------------------------------------------------------
(***************************************************************************)
(* A tree that was not read from a file has a node in every page that the  *)
(* metadata count.                                                         *)
(***************************************************************************)
AllCounted == Allocated = 0 .. num_pages - 1

LEMMA StepAllCounted ==
  ASSUME IndInv, AllCounted, [Next]_vars
  PROVE  AllCounted'
<1>1. PagesKept \/ PageAdded
  BY StepPages
<1>2. num_pages \in Nat
  BY PageAssumption DEF IndInv
<1>3. (0 .. num_pages - 1) \cup {num_pages} = 0 .. (num_pages + 1) - 1
  BY <1>2
<1>4. CASE PagesKept
  BY <1>4 DEF AllCounted, PagesKept
<1>5. CASE PageAdded
  BY <1>3, <1>5 DEF AllCounted, PageAdded
<1> QED
  BY <1>1, <1>4, <1>5

LEMMA CountedInvariance == Spec => [](IndInv /\ AllCounted)
<1>1. Init => IndInv /\ AllCounted
  <2> SUFFICES ASSUME Init PROVE IndInv /\ AllCounted
    OBVIOUS
  <2>1. num_pages = 1 /\ 0 .. 1 - 1 = {0}
    BY DEF Init
  <2> QED
    BY <2>1, InitIndInv DEF AllCounted
<1>2. IndInv /\ AllCounted /\ [Next]_vars => (IndInv /\ AllCounted)'
  BY StepIndInv, StepAllCounted
<1> QED
  BY <1>1, <1>2, PTL DEF Spec

(***************************************************************************)
(* Every page number the tree follows is an allocated page and every       *)
(* allocated page holds a node whose arrays fit together, in every state   *)
(* of every insert (BPlusTree::insert, btree.cpp:91-200).                  *)
(***************************************************************************)
THEOREM TypeInvariant == Spec => []TypeOK
<1>1. IndInv /\ AllCounted => TypeOK
  <2> SUFFICES ASSUME IndInv, AllCounted PROVE TypeOK
    OBVIOUS
  <2>1. ArePages(pages, num_pages)
    <3>1. \A p \in PageId : IF p < num_pages THEN IsNode(pages[p], 0 .. num_pages - 1)
                                             ELSE pages[p] = NoPage
      <4> TAKE p \in PageId
      <4>1. p \in Nat /\ num_pages \in Nat
        BY PageAssumption DEF PageId, IndInv
      <4>2. CASE p < num_pages
        <5>1. p \in Allocated
          BY <4>1, <4>2 DEF AllCounted
        <5> QED
          BY <4>2, <5>1 DEF IndInv, PagesInv, PageInv, AllCounted
      <4>3. CASE ~(p < num_pages)
        BY <4>1, <4>3 DEF IndInv, PagesInv, AllCounted
      <4> QED
        BY <4>2, <4>3
    <3> QED
      BY <3>1 DEF ArePages, IndInv, PagesInv
  <2> QED
    BY <2>1 DEF TypeOK, IndInv, PagesInv
<1> QED
  BY <1>1, CountedInvariance, PTL

(***************************************************************************)
(* No node ever holds more than its load, and none but the root less than  *)
(* half of it, whatever the loads and whatever the order of insertions:    *)
(* the writes to the arrays of LeafNode and InternalNode stay inside the   *)
(* page (btree.h:290, 488) and is_half_loaded holds (btree.h:122).         *)
(***************************************************************************)
THEOREM Loads == Spec => []LoadsWithinBounds
<1>1. IndInv => LoadsWithinBounds
  BY PageFacts DEF LoadsWithinBounds, LoadOf, LoadOfKind, PageInv, HasLoad, HalfLoaded
<1> QED
  BY <1>1, Invariance, PTL
==============================================================================
