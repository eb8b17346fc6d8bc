------------------------- MODULE BPlusTreeOrderProofs -------------------------
(***************************************************************************)
(* The tree of BPlusTree is linked and ordered between any two steps of    *)
(* any insert, for any keys, loads and number of pages.                    *)
(***************************************************************************)
EXTENDS BPlusTreeProofs

(***************************************************************************)
(* The shape of a tree: every page covers an interval lo < key <= hi of    *)
(* keys and has a height.  A page that was split covers less than the node *)
(* above it still believes; `up' is the upper bound as that node sees it.  *)
(***************************************************************************)
Shapes ==
  [lo : [PageId -> Int], hi : [PageId -> Int], up : [PageId -> Int],
   height : [PageId -> Nat]]

Ascending(keys) ==
  \A i, j \in 1 .. Len(keys) : i < j => keys[i] < keys[j]

Within(node, lo, hi) ==
  \A i \in 1 .. Len(node.keys) :
    /\ lo < node.keys[i] /\ node.keys[i] <= hi
    /\ node.kind = "inner" => node.keys[i] < hi

NodeOrdered(node, lo, hi) == Ascending(node.keys) /\ Within(node, lo, hi)

(***************************************************************************)
(* The interval of the i-th child of a node with these keys.               *)
(***************************************************************************)
Lower(keys, lo, i) == IF i = 1 THEN lo ELSE keys[i - 1]
Upper(keys, hi, i) == IF i = Len(keys) + 1 THEN hi ELSE keys[i]

LinkOrdered(ps, s, p, i) ==
  LET c == ps[p].children[i] IN
  /\ ps[c].parent = p
  /\ s.lo[c] = Lower(ps[p].keys, s.lo[p], i)
  /\ s.up[c] = Upper(ps[p].keys, s.hi[p], i)
  /\ s.height[p] = s.height[c] + 1

IsChild(ps, q) ==
  \E i \in 1 .. Len(ps[ps[q].parent].children) :
    ps[ps[q].parent].children[i] = q

PageShape(ps, root, s, p) ==
  /\ NodeOrdered(ps[p], s.lo[p], s.hi[p])
  /\ ps[p].kind = "leaf" => s.height[p] = 0
  /\ ps[p].kind = "inner" =>
       \A i \in 1 .. Len(ps[p].children) : LinkOrdered(ps, s, p, i)
  /\ p # root /\ ps[p].parent # Unwritten => IsChild(ps, p)

RootShape(ps, root, s) ==
  /\ ps[root].parent = NODE_PARENT_INVALID
  /\ s.lo[root] = -1 /\ s.up[root] = UINT32_MAX

LeavesApart(ps, A, s) ==
  \A p, q \in A :
    p # q /\ ps[p].kind = "leaf" /\ ps[q].kind = "leaf" =>
      s.hi[p] <= s.lo[q] \/ s.hi[q] <= s.lo[p]

TreeShape(ps, A, root, s) ==
  /\ \A p \in A : PageShape(ps, root, s, p)
  /\ RootShape(ps, root, s)
  /\ LeavesApart(ps, A, s)

(***************************************************************************)
(* What an insert in progress knows: find is at a page whose interval      *)
(* contains the key; a climb carries the key that separates two pages of   *)
(* the same height, the left one being linked and the right one not.       *)
(***************************************************************************)
ClimbShape(c, ps, s) ==
  /\ ps[c.left].parent = c.parent
  /\ ps[c.right].parent = Unwritten /\ c.parent # c.right
  /\ c.key_upward = s.hi[c.left] /\ c.key_upward = s.lo[c.right]
  /\ s.lo[c.left] < c.key_upward /\ c.key_upward < s.hi[c.right]
  /\ s.up = [s.hi EXCEPT ![c.left] = s.hi[c.right]]
  /\ s.height[c.left] = s.height[c.right]

CallShape(c, ps, s) ==
  /\ c.pc = "find" => s.lo[c.page_id] < c.key /\ c.key <= s.hi[c.page_id]
  /\ c.pc # "climb" => s.up = s.hi
  /\ c.pc = "climb" => ClimbShape(c, ps, s)

ShapeInv ==
  \E s \in Shapes : /\ TreeShape(pages, Allocated, root_pid, s)
                    /\ CallShape(call, pages, s)

------------------------------------------------------------------------------
(***************************************************************************)
(* Sorted sequences.                                                       *)
(***************************************************************************)

\* A key inserted at its position leaves the keys ascending, adds itself and
\* nothing else (search_insert_location and both insert functions).
LEMMA InsertAscending ==
  ASSUME NEW keys \in Seq(Key), NEW key \in Key, NEW pos \in 0 .. Len(keys),
         Ascending(keys), IsKeyPosition(keys, key, pos), ~HasKeyAt(keys, key, pos)
  PROVE  LET new == InsertAt(keys, pos + 1, key) IN
         /\ new \in Seq(Key)
         /\ Len(new) = Len(keys) + 1
         /\ \A j \in 1 .. Len(keys) + 1 :
              new[j] = IF j < pos + 1 THEN keys[j]
                       ELSE IF j = pos + 1 THEN key ELSE keys[j - 1]
         /\ Ascending(new)
         /\ \A j \in 1 .. Len(new) :
              new[j] = key \/ \E i \in 1 .. Len(keys) : new[j] = keys[i]
<1> DEFINE new == InsertAt(keys, pos + 1, key)
<1>1. Len(keys) \in Nat /\ (\A i \in 1 .. Len(keys) : keys[i] \in Int) /\ key \in Int
  BY ElementOfSeq, LenProperties, InputAssumption DEF Key
<1>2. pos + 1 \in 1 .. Len(keys) + 1
  BY <1>1
<1>3. /\ new \in Seq(Key) /\ Len(new) = Len(keys) + 1
      /\ \A j \in 1 .. Len(keys) + 1 :
           new[j] = IF j < pos + 1 THEN keys[j]
                    ELSE IF j = pos + 1 THEN key ELSE keys[j - 1]
  <2>1. new \in Seq(Key) /\ IsInserted(new, keys, pos + 1, key)
    BY <1>2, Inserted
  <2> HIDE DEF new
  <2> QED
    BY <2>1 DEF IsInserted
<1> HIDE DEF new
<1>4. /\ \A i \in 1 .. pos : keys[i] < key
      /\ \A i \in pos + 1 .. Len(keys) : key < keys[i]
  <2>1. ASSUME NEW i \in 1 .. pos
        PROVE  keys[i] < key
    <3>1. pos \in 1 .. Len(keys) /\ keys[pos] < key
      BY <1>1 DEF IsKeyPosition, HasKeyAt
    <3>2. i = pos \/ keys[i] < keys[pos]
      BY <1>1, <3>1 DEF Ascending
    <3> QED
      BY <1>1, <3>1, <3>2
  <2> QED
    BY <2>1 DEF IsKeyPosition
<1>5. Ascending(new)
  <2> SUFFICES ASSUME NEW i \in 1 .. Len(keys) + 1, NEW j \in 1 .. Len(keys) + 1, i < j
               PROVE  new[i] < new[j]
    BY <1>3 DEF Ascending
  <2>1. CASE j < pos + 1
    BY <1>1, <1>3, <2>1 DEF Ascending
  <2>2. CASE j = pos + 1
    BY <1>1, <1>3, <1>4, <2>2
  <2>3. CASE j > pos + 1 /\ i < pos + 1
    <3>1. new[i] = keys[i] /\ new[j] = keys[j - 1] /\ i \in 1 .. pos /\ j - 1 \in pos + 1 .. Len(keys)
      BY <1>1, <1>3, <2>3
    <3>2. keys[i] < key /\ key < keys[j - 1] /\ keys[i] \in Int /\ keys[j - 1] \in Int
      BY <1>1, <1>4, <3>1
    <3> QED
      BY <1>1, <3>1, <3>2
  <2>4. CASE j > pos + 1 /\ i = pos + 1
    <3>1. new[i] = key /\ new[j] = keys[j - 1] /\ j - 1 \in pos + 1 .. Len(keys)
      BY <1>1, <1>3, <2>4
    <3> QED
      BY <1>4, <3>1
  <2>5. CASE j > pos + 1 /\ i > pos + 1
    <3>1. /\ new[i] = keys[i - 1] /\ new[j] = keys[j - 1] /\ i - 1 < j - 1
          /\ i - 1 \in 1 .. Len(keys) /\ j - 1 \in 1 .. Len(keys)
      BY <1>1, <1>3, <2>5
    <3> QED
      BY <3>1 DEF Ascending
  <2> QED
    BY <1>1, <2>1, <2>2, <2>3, <2>4, <2>5
<1>6. \A j \in 1 .. Len(new) :
        new[j] = key \/ \E i \in 1 .. Len(keys) : new[j] = keys[i]
  <2> TAKE j \in 1 .. Len(new)
  <2>1. j \in 1 .. pos \/ j = pos + 1 \/ (j > pos + 1 /\ j - 1 \in 1 .. Len(keys))
    BY <1>1, <1>3
  <2> QED
    BY <1>1, <1>3, <2>1
<1> QED
  BY <1>3, <1>5, <1>6 DEF new

\* A stretch of ascending keys is ascending.
LEMMA SubSeqAscending ==
  ASSUME NEW keys \in Seq(Key), Ascending(keys),
         NEW m \in 1 .. Len(keys) + 1, NEW n \in m - 1 .. Len(keys)
  PROVE  /\ SubSeq(keys, m, n) \in Seq(Key)
         /\ IsSlice(SubSeq(keys, m, n), keys, m, n)
         /\ Ascending(SubSeq(keys, m, n))
<1> DEFINE part == SubSeq(keys, m, n)
<1>1. Len(keys) \in Nat
  BY LenProperties
<1>2. part \in Seq(Key) /\ IsSlice(part, keys, m, n)
  BY Sliced
<1> HIDE DEF part
<1>3. Ascending(part)
  <2> SUFFICES ASSUME NEW i \in 1 .. n - m + 1, NEW j \in 1 .. n - m + 1, i < j
               PROVE  part[i] < part[j]
    BY <1>2 DEF Ascending, IsSlice
  <2>1. m + i - 1 \in 1 .. Len(keys) /\ m + j - 1 \in 1 .. Len(keys) /\ m + i - 1 < m + j - 1
    BY <1>1
  <2>2. keys[m + i - 1] < keys[m + j - 1]
    BY <2>1 DEF Ascending
  <2>3. part[i] = keys[m + i - 1] /\ part[j] = keys[m + j - 1]
    BY <1>2 DEF IsSlice
  <2> QED
    BY <2>2, <2>3
<1> QED
  BY <1>2, <1>3 DEF part

------------------------------------------------------------------------------
(***************************************************************************)
(* Pages whose links lead to allocated pages.  This is PagesInv without    *)
(* the loads, so that it also holds of a parent that has one key too many. *)
(***************************************************************************)
WellLinked(ps, A, root) ==
  /\ A \in SUBSET PageId /\ root \in A
  /\ \A p \in A :
       /\ IsNode(ps[p], A)
       /\ ps[p].parent \in PageId =>
            ps[p].parent \in A /\ ps[ps[p].parent].kind = "inner"
       /\ ps[p].parent = NODE_PARENT_INVALID => p = root

LEMMA PagesAreWellLinked ==
  ASSUME NEW ps, NEW A, NEW root, PagesInv(ps, A, root)
  PROVE  WellLinked(ps, A, root)
BY DEF WellLinked, PagesInv, PageInv

LEMMA LinkedPage ==
  ASSUME NEW ps, NEW A, NEW root, WellLinked(ps, A, root), NEW p \in A
  PROVE  /\ p \in PageId /\ p \in Int
         /\ ps[p] \in Node /\ ps[p].kind \in {"leaf", "inner"}
         /\ ps[p].keys \in Seq(Key) /\ Len(ps[p].keys) \in Nat
         /\ \A i \in 1 .. Len(ps[p].keys) : ps[p].keys[i] \in Int
         /\ ps[p].kind = "inner" =>
              /\ Len(ps[p].children) = Len(ps[p].keys) + 1
              /\ \A i \in 1 .. Len(ps[p].children) : ps[p].children[i] \in A
         /\ p # root /\ ps[p].parent # Unwritten =>
              ps[p].parent \in A /\ ps[ps[p].parent].kind = "inner"
<1>1. IsNode(ps[p], A)
  BY DEF WellLinked
<1>2. p \in PageId /\ p \in Int
  BY PageAssumption DEF WellLinked, PageId
<1>3. /\ ps[p] \in Node /\ ps[p].kind \in {"leaf", "inner"}
      /\ ps[p].keys \in Seq(Key) /\ ps[p].children \in Seq(A)
      /\ ps[p].parent \in ParentPointer
      /\ ps[p].kind = "inner" => Len(ps[p].children) = Len(ps[p].keys) + 1
  BY <1>1 DEF IsNode, Node
<1>4. Len(ps[p].keys) \in Nat /\ \A i \in 1 .. Len(ps[p].keys) : ps[p].keys[i] \in Int
  BY <1>3, LenProperties, ElementOfSeq, InputAssumption DEF Key
<1>5. \A i \in 1 .. Len(ps[p].children) : ps[p].children[i] \in A
  BY <1>3, ElementOfSeq
<1>6. p # root /\ ps[p].parent # Unwritten =>
        ps[p].parent \in A /\ ps[ps[p].parent].kind = "inner"
  BY <1>3 DEF ParentPointer, WellLinked
<1> QED
  BY <1>1, <1>2, <1>3, <1>4, <1>5, <1>6

\* What a shape says of one page and of one link.
LEMMA ShapeOfPage ==
  ASSUME NEW ps, NEW A, NEW root, NEW s \in Shapes, WellLinked(ps, A, root),
         TreeShape(ps, A, root, s), NEW p \in A
  PROVE  /\ s.lo[p] \in Int /\ s.hi[p] \in Int /\ s.up[p] \in Int /\ s.height[p] \in Nat
         /\ PageShape(ps, root, s, p)
<1>1. p \in PageId
  BY LinkedPage
<1>2. s.lo[p] \in Int /\ s.hi[p] \in Int /\ s.up[p] \in Int /\ s.height[p] \in Nat
  BY <1>1 DEF Shapes
<1> QED
  BY <1>2 DEF TreeShape

LEMMA ShapeOfLink ==
  ASSUME NEW ps, NEW A, NEW root, NEW s \in Shapes, WellLinked(ps, A, root),
         TreeShape(ps, A, root, s), NEW p \in A, ps[p].kind = "inner",
         NEW i \in 1 .. Len(ps[p].keys) + 1
  PROVE  LET c == ps[p].children[i] IN
         /\ c \in A /\ c # p /\ c # root
         /\ ps[c].parent = p /\ ps[c].parent # Unwritten
         /\ s.lo[c] = Lower(ps[p].keys, s.lo[p], i)
         /\ s.up[c] = Upper(ps[p].keys, s.hi[p], i)
         /\ s.height[p] = s.height[c] + 1
<1> DEFINE c == ps[p].children[i]
<1>1. c \in A /\ p \in PageId /\ i \in 1 .. Len(ps[p].children)
  BY LinkedPage
<1>2. LinkOrdered(ps, s, p, i)
  BY <1>1, ShapeOfPage DEF PageShape
<1>3. c # p
  <2>1. s.height[c] \in Nat /\ s.height[p] \in Nat
    BY <1>1, ShapeOfPage
  <2> QED
    BY <1>2, <2>1 DEF LinkOrdered
<1>4. p # Unwritten /\ p # NODE_PARENT_INVALID
  BY <1>1, PageAssumption DEF PageId
<1>5. c # root
  BY <1>2, <1>4 DEF LinkOrdered, TreeShape, RootShape
<1> QED
  BY <1>1, <1>2, <1>3, <1>4, <1>5 DEF LinkOrdered

\* The same, of a child that has a name.
LEMMA ShapeOfChild ==
  ASSUME NEW ps, NEW A, NEW root, NEW s \in Shapes, WellLinked(ps, A, root),
         TreeShape(ps, A, root, s), NEW p \in A, ps[p].kind = "inner",
         NEW i \in 1 .. Len(ps[p].keys) + 1, NEW c, c = ps[p].children[i]
  PROVE  /\ c \in A /\ c # p /\ c # root
         /\ ps[c].parent = p /\ ps[c].parent # Unwritten
         /\ s.lo[c] = Lower(ps[p].keys, s.lo[p], i)
         /\ s.up[c] = Upper(ps[p].keys, s.hi[p], i)
         /\ s.height[p] = s.height[c] + 1
BY ShapeOfLink

\* No page is in two slots of a node: the slots have different lower bounds.
LEMMA ChildOnce ==
  ASSUME NEW ps, NEW A, NEW root, NEW s \in Shapes, WellLinked(ps, A, root),
         TreeShape(ps, A, root, s), NEW p \in A, ps[p].kind = "inner",
         NEW i \in 1 .. Len(ps[p].keys) + 1, NEW j \in 1 .. Len(ps[p].keys) + 1,
         ps[p].children[i] = ps[p].children[j]
  PROVE  i = j
<1> DEFINE keys == ps[p].keys
           lo   == s.lo[p]
<1>1. /\ Len(keys) \in Nat /\ lo \in Int
      /\ \A k \in 1 .. Len(keys) : keys[k] \in Int /\ lo < keys[k]
      /\ Ascending(keys)
  BY LinkedPage, ShapeOfPage DEF PageShape, NodeOrdered, Within
<1>2. Lower(keys, lo, i) = Lower(keys, lo, j)
  BY ShapeOfLink
<1> HIDE DEF keys, lo
<1>3. ASSUME NEW a \in 1 .. Len(keys) + 1, NEW b \in 1 .. Len(keys) + 1, a < b
      PROVE  Lower(keys, lo, a) < Lower(keys, lo, b)
  <2>1. b - 1 \in 1 .. Len(keys) /\ Lower(keys, lo, b) = keys[b - 1]
    BY <1>1, <1>3 DEF Lower
  <2>2. CASE a = 1
    BY <1>1, <2>1, <2>2 DEF Lower
  <2>3. CASE a # 1
    <3>1. a - 1 \in 1 .. Len(keys) /\ a - 1 < b - 1 /\ Lower(keys, lo, a) = keys[a - 1]
      BY <1>1, <1>3, <2>3 DEF Lower
    <3> QED
      BY <1>1, <2>1, <3>1 DEF Ascending
  <2> QED
    BY <2>2, <2>3
<1>4. \A a \in 1 .. Len(keys) + 1 : Lower(keys, lo, a) \in Int
  BY <1>1 DEF Lower
<1> QED
  <2>1. i \in 1 .. Len(keys) + 1 /\ j \in 1 .. Len(keys) + 1
    BY DEF keys
  <2>2. ~(i < j) /\ ~(j < i)
    BY <1>2, <1>3, <1>4, <2>1
  <2> QED
    BY <1>1, <2>1, <2>2

(***************************************************************************)
(* Where a climb enters its parent: right after the left half, and at a    *)
(* key the parent does not have.                                           *)
(***************************************************************************)
EntersAfterLeft(c, ps, root, s) ==
  LET keys == ps[c.parent].keys IN
  /\ ps[c.parent].kind = "inner"
  /\ c.left # c.right /\ c.left # root /\ c.right # root
  /\ c.parent # c.left /\ c.parent # c.right
  /\ s.lo[c.parent] < c.key_upward /\ c.key_upward < s.hi[c.parent]
  /\ \A i \in 1 .. Len(keys) : keys[i] # c.key_upward
  /\ \A pos \in 0 .. Len(keys) : IsKeyPosition(keys, c.key_upward, pos) =>
       /\ ps[c.parent].children[pos + 1] = c.left
       /\ s.hi[c.right] = Upper(keys, s.hi[c.parent], pos + 1)

LEMMA ClimbSlot ==
  ASSUME NEW ps, NEW A, NEW root, NEW s \in Shapes, WellLinked(ps, A, root),
         TreeShape(ps, A, root, s), NEW c, ClimbShape(c, ps, s),
         c.left \in A, c.right \in A,
         c.parent \in A, c.key_upward \in Key
  PROVE  EntersAfterLeft(c, ps, root, s)
<1> DEFINE p    == c.parent
           keys == ps[p].keys
           up   == c.key_upward
           l    == c.left
           r    == c.right
<1>1. /\ p \in A /\ l \in A /\ r \in A
      /\ p \in PageId /\ p # NODE_PARENT_INVALID /\ p # Unwritten /\ up \in Int
      /\ l \in PageId /\ r \in PageId
  <2>1. p \in PageId /\ l \in PageId /\ r \in PageId
    BY LinkedPage
  <2> QED
    BY <2>1, PageAssumption, InputAssumption DEF PageId, Key
<1>2. ps[l].parent = p /\ ps[r].parent = Unwritten /\ p # r
  BY DEF ClimbShape
<1>8. s.lo[l] < up /\ up < s.hi[r] /\ s.up[l] = s.hi[r]
  BY <1>1 DEF ClimbShape, Shapes
<1> HIDE DEF p, up, l, r
<1>3. l # r /\ l # root /\ r # root
  BY <1>1, <1>2, PageAssumption DEF TreeShape, RootShape
<1>4. ps[p].kind = "inner"
  BY <1>1, <1>2, <1>3, LinkedPage
<1>5. PICK j \in 1 .. Len(ps[p].children) : ps[p].children[j] = l
  <2>1. PageShape(ps, root, s, l)
    BY <1>1, ShapeOfPage
  <2>2. IsChild(ps, l)
    BY <1>1, <1>2, <1>3, <2>1 DEF PageShape
  <2> QED
    BY <1>2, <2>2 DEF IsChild
<1>6. /\ Len(keys) \in Nat /\ j \in 1 .. Len(keys) + 1
      /\ s.lo[p] \in Int /\ s.hi[p] \in Int /\ Ascending(keys)
      /\ \A i \in 1 .. Len(keys) : /\ keys[i] \in Int
                                   /\ s.lo[p] < keys[i] /\ keys[i] < s.hi[p]
  BY <1>1, <1>4, <1>5, LinkedPage, ShapeOfPage DEF PageShape, NodeOrdered, Within
<1>7. /\ l # p
      /\ s.lo[l] = Lower(keys, s.lo[p], j) /\ s.up[l] = Upper(keys, s.hi[p], j)
  <2>1. j \in 1 .. Len(ps[p].keys) + 1
    BY <1>6
  <2> QED
    <3>1. /\ p \in A /\ ps[p].kind = "inner"
          /\ l = ps[p].children[j] /\ j \in 1 .. Len(ps[p].keys) + 1
      BY <1>1, <1>4, <1>5, <2>1
    <3> HIDE DEF keys
    <3>2. /\ l # p /\ s.lo[l] = Lower(ps[p].keys, s.lo[p], j)
          /\ s.up[l] = Upper(ps[p].keys, s.hi[p], j)
      BY <3>1, ShapeOfChild
    <3> QED
      BY <3>2 DEF keys
<1>9. Lower(keys, s.lo[p], j) < up /\ up < Upper(keys, s.hi[p], j)
  BY <1>7, <1>8
<1> HIDE DEF keys
<1>10. /\ \A i \in 1 .. j - 1 : keys[i] < up
       /\ \A i \in j .. Len(keys) : up < keys[i]
  <2>1. ASSUME NEW i \in 1 .. j - 1
        PROVE  keys[i] < up
    <3>1. j - 1 \in 1 .. Len(keys) /\ keys[j - 1] < up
      BY <1>6, <1>9 DEF Lower
    <3>2. i \in 1 .. Len(keys) /\ (i = j - 1 \/ keys[i] < keys[j - 1])
      BY <1>6, <3>1 DEF Ascending
    <3>3. keys[i] \in Int /\ keys[j - 1] \in Int
      BY <1>6, <3>1, <3>2
    <3> QED
      BY <1>1, <3>1, <3>2, <3>3
  <2>2. ASSUME NEW i \in j .. Len(keys)
        PROVE  up < keys[i]
    <3>1. j \in 1 .. Len(keys) /\ up < keys[j]
      BY <1>6, <1>9 DEF Upper
    <3>2. i \in 1 .. Len(keys) /\ (i = j \/ keys[j] < keys[i])
      BY <1>6, <3>1 DEF Ascending
    <3> QED
      BY <1>1, <1>6, <3>1, <3>2
  <2> QED
    BY <2>1, <2>2
<1>11. \A i \in 1 .. Len(keys) : keys[i] # up
  <2> TAKE i \in 1 .. Len(keys)
  <2>1. i \in 1 .. j - 1 \/ i \in j .. Len(keys)
    BY <1>6
  <2> QED
    BY <1>1, <1>6, <1>10, <2>1
<1>12. s.lo[p] < up /\ up < s.hi[p]
  <2>1. j = 1 \/ (j - 1 \in 1 .. Len(keys) /\ Lower(keys, s.lo[p], j) = keys[j - 1])
    BY <1>6 DEF Lower
  <2>5. s.lo[p] \in Int /\ up \in Int /\ s.hi[p] \in Int
    BY <1>1, <1>6
  <2>2. s.lo[p] < up
    <3>1. CASE j = 1
      BY <1>9, <3>1 DEF Lower
    <3>2. CASE j # 1
      <4> DEFINE k == j - 1
      <4>1. k \in 1 .. Len(keys) /\ keys[k] < up
        BY <1>9, <2>1, <3>2
      <4> HIDE DEF k
      <4>2. keys[k] \in Int /\ s.lo[p] < keys[k]
        BY <1>6, <4>1
      <4> QED
        BY <2>5, <4>1, <4>2
    <3> QED
      BY <3>1, <3>2
  <2>6. Len(keys) \in Nat /\ j \in 1 .. Len(keys) + 1
    BY <1>6
  <2>3. j = Len(keys) + 1 \/ (j \in 1 .. Len(keys) /\ Upper(keys, s.hi[p], j) = keys[j])
    BY <2>6 DEF Upper
  <2>4. up < s.hi[p]
    BY <1>1, <1>6, <1>9, <2>3 DEF Upper
  <2> QED
    BY <2>2, <2>4
<1>13. ASSUME NEW pos \in 0 .. Len(keys), IsKeyPosition(keys, up, pos)
       PROVE  pos + 1 = j
  <2>1. ~(pos + 1 < j)
    <3> SUFFICES ASSUME pos + 1 < j PROVE FALSE
      OBVIOUS
    <3>1. j - 1 \in (pos + 1) .. Len(keys) /\ j - 1 \in 1 .. j - 1 /\ j - 1 \in 1 .. Len(keys)
      BY <1>6
    <3>2. up < keys[j - 1] /\ keys[j - 1] < up /\ keys[j - 1] \in Int
      BY <1>6, <1>10, <1>13, <3>1 DEF IsKeyPosition
    <3> QED
      BY <1>1, <3>2
  <2>2. ~(pos + 1 > j)
    <3> SUFFICES ASSUME pos + 1 > j PROVE FALSE
      OBVIOUS
    <3>1. j \in 1 .. pos /\ j \in j .. Len(keys) /\ j \in 1 .. Len(keys)
      BY <1>6
    <3>2. keys[j] <= up /\ up < keys[j] /\ keys[j] \in Int
      BY <1>6, <1>10, <1>13, <3>1 DEF IsKeyPosition
    <3> QED
      BY <1>1, <3>2
  <2> QED
    BY <1>6, <2>1, <2>2
<1>14. \A pos \in 0 .. Len(keys) : IsKeyPosition(keys, up, pos) =>
         ps[p].children[pos + 1] = l /\ s.hi[r] = Upper(keys, s.hi[p], pos + 1)
  BY <1>5, <1>7, <1>8, <1>13
<1> QED
  BY <1>2, <1>3, <1>4, <1>7, <1>11, <1>12, <1>14 DEF p, keys, up, l, r, EntersAfterLeft

------------------------------------------------------------------------------
(***************************************************************************)
(* What the changes an insert makes do to the shape.  First, the links of  *)
(* a node that is not touched, and a leaf that gets a cell.                *)
(***************************************************************************)
LinkKept(qs, s, t, p, c) ==
  /\ qs[c].parent = p /\ t.lo[c] = s.lo[c] /\ t.up[c] = s.up[c]
  /\ t.height[c] = s.height[c]

LEMMA SameLinks ==
  ASSUME NEW ps, NEW A, NEW root, NEW s \in Shapes, WellLinked(ps, A, root),
         TreeShape(ps, A, root, s), NEW p \in A, ps[p].kind = "inner",
         NEW qs, NEW t,
         qs[p].keys = ps[p].keys, qs[p].children = ps[p].children,
         t.lo[p] = s.lo[p], t.hi[p] = s.hi[p], t.height[p] = s.height[p],
         \A i \in 1 .. Len(ps[p].keys) + 1 :
           LinkKept(qs, s, t, p, ps[p].children[i])
  PROVE  \A i \in 1 .. Len(qs[p].children) : LinkOrdered(qs, t, p, i)
<1> TAKE i \in 1 .. Len(qs[p].children)
<1>1. i \in 1 .. Len(ps[p].keys) + 1
  BY LinkedPage
<1> DEFINE c == ps[p].children[i]
<1>2. LinkKept(qs, s, t, p, c) /\ c = ps[p].children[i] /\ c = qs[p].children[i]
  BY <1>1
<1> HIDE DEF c
<1>3. /\ s.lo[c] = Lower(ps[p].keys, s.lo[p], i)
      /\ s.up[c] = Upper(ps[p].keys, s.hi[p], i)
      /\ s.height[p] = s.height[c] + 1
  BY <1>1, <1>2, ShapeOfChild
<1> QED
  BY <1>2, <1>3 DEF LinkOrdered, LinkKept

LEMMA LeafGrows ==
  ASSUME NEW ps, NEW A, NEW root, NEW s \in Shapes, WellLinked(ps, A, root),
         TreeShape(ps, A, root, s), NEW p \in A, ps[p].kind = "leaf",
         NEW qs, SameHeader(qs[p], ps[p]), NodeOrdered(qs[p], s.lo[p], s.hi[p]),
         \A q \in A : q # p => qs[q] = ps[q]
  PROVE  TreeShape(qs, A, root, s)
<1>1. \A q \in A : SameHeader(qs[q], ps[q])
  BY DEF SameHeader
<1>2. ASSUME NEW q \in A
      PROVE  PageShape(qs, root, s, q)
  <2>1. PageShape(ps, root, s, q)
    BY ShapeOfPage
  <2>2. NodeOrdered(qs[q], s.lo[q], s.hi[q]) /\ (qs[q].kind = "leaf" => s.height[q] = 0)
    BY <1>1, <2>1 DEF PageShape, SameHeader
  <2>3. ASSUME qs[q].kind = "inner"
        PROVE  \A i \in 1 .. Len(qs[q].children) : LinkOrdered(qs, s, q, i)
    <3>1. ps[q].kind = "inner" /\ qs[q] = ps[q]
      BY <1>1, <2>3 DEF SameHeader
    <3>2. ASSUME NEW i \in 1 .. Len(ps[q].keys) + 1
          PROVE  LinkKept(qs, s, s, q, ps[q].children[i])
      BY <1>1, <3>1, ShapeOfLink DEF SameHeader, LinkKept
    <3> QED
      BY <3>1, <3>2, SameLinks
  <2>4. ASSUME q # root, qs[q].parent # Unwritten
        PROVE  IsChild(qs, q)
    <3>1. /\ qs[q].parent = ps[q].parent /\ ps[q].parent \in A
          /\ ps[ps[q].parent].kind = "inner"
      BY <1>1, <2>4, LinkedPage DEF SameHeader
    <3>2. qs[ps[q].parent] = ps[ps[q].parent]
      BY <3>1
    <3>3. IsChild(ps, q)
      BY <2>1, <2>4, <3>1 DEF PageShape
    <3> QED
      BY <3>1, <3>2, <3>3 DEF IsChild
  <2> QED
    BY <2>2, <2>3, <2>4 DEF PageShape
<1>3. RootShape(qs, root, s)
  BY <1>1 DEF TreeShape, RootShape, WellLinked, SameHeader
<1>4. LeavesApart(qs, A, s)
  BY <1>1 DEF TreeShape, LeavesApart, SameHeader
<1> QED
  BY <1>2, <1>3, <1>4 DEF TreeShape

(***************************************************************************)
(* Halves of a leaf: the left one covers the keys up to the one that goes  *)
(* up, the right one the rest of the leaf's interval.                      *)
(***************************************************************************)
LEMMA LeafHalvesOrdered ==
  ASSUME NEW over, over.kind = "leaf", over.keys \in Seq(Key),
         NEW lo \in Int, NEW hi \in Int, NodeOrdered(over, lo, hi),
         NEW h \in 1 .. Len(over.keys) - 1,
         NEW left, left.kind = "leaf", left.keys = SubSeq(over.keys, 1, h),
         NEW right, right.kind = "leaf",
         right.keys = SubSeq(over.keys, h + 1, Len(over.keys))
  PROVE  LET up == over.keys[h] IN
         /\ NodeOrdered(left, lo, up) /\ NodeOrdered(right, up, hi)
         /\ up \in Int /\ lo < up /\ up < hi
<1> DEFINE keys == over.keys
           m    == Len(keys)
<1>1. /\ m \in Nat /\ h \in Nat /\ h + 1 \in 1 .. m /\ h \in 1 .. m
      /\ \A i \in 1 .. m : keys[i] \in Int /\ lo < keys[i] /\ keys[i] <= hi
      /\ Ascending(keys)
  <2>1. m \in Nat /\ h \in Nat /\ h + 1 \in 1 .. m /\ h \in 1 .. m
    BY LenProperties
  <2>2. \A i \in 1 .. m : keys[i] \in Key
    BY ElementOfSeq
  <2>5. \A k \in Key : k \in Int
    BY InputAssumption DEF Key
  <2>3. \A i \in 1 .. m : keys[i] \in Int
    BY <2>2, <2>5
  <2>4. /\ \A i \in 1 .. m : lo < keys[i] /\ keys[i] <= hi
        /\ Ascending(keys)
    BY DEF NodeOrdered, Within
  <2> QED
    BY <2>1, <2>3, <2>4
<1>2. /\ Len(left.keys) = h /\ Ascending(left.keys)
      /\ \A j \in 1 .. h : left.keys[j] = keys[j]
  <2>1. 1 \in 1 .. m + 1 /\ h \in 1 - 1 .. m
    BY <1>1
  <2>2. IsSlice(left.keys, keys, 1, h) /\ Ascending(left.keys)
    BY <1>1, <2>1, SubSeqAscending
  <2>3. h - 1 + 1 = h /\ \A j \in 1 .. h : 1 + j - 1 = j
    BY <1>1
  <2> HIDE DEF keys, m
  <2> QED
    BY <2>2, <2>3 DEF IsSlice
<1>3. /\ Len(right.keys) = m - h /\ Ascending(right.keys)
      /\ \A j \in 1 .. m - h : right.keys[j] = keys[h + j]
  <2>1. h + 1 \in 1 .. m + 1 /\ m \in (h + 1) - 1 .. m
    BY <1>1
  <2>2. IsSlice(right.keys, keys, h + 1, m) /\ Ascending(right.keys)
    BY <1>1, <2>1, SubSeqAscending
  <2>3. m - (h + 1) + 1 = m - h /\ \A j \in 1 .. m - h : (h + 1) + j - 1 = h + j
    BY <1>1
  <2> HIDE DEF keys, m
  <2> QED
    BY <2>2, <2>3 DEF IsSlice
<1> HIDE DEF keys, m
<1>4. /\ keys[h] \in Int /\ lo < keys[h] /\ keys[h] < hi
      /\ \A i \in 1 .. h : keys[i] <= keys[h]
      /\ \A i \in h + 1 .. m : keys[h] < keys[i]
  <2>1. keys[h] < keys[h + 1] /\ keys[h + 1] <= hi /\ keys[h + 1] \in Int
    BY <1>1 DEF Ascending, m
  <2>2. ASSUME NEW i \in 1 .. h PROVE keys[i] <= keys[h]
    <3>1. i \in 1 .. m /\ (i = h \/ i < h)
      BY <1>1
    <3>2. i = h \/ keys[i] < keys[h]
      BY <1>1, <3>1 DEF Ascending, m
    <3>3. keys[i] \in Int /\ keys[h] \in Int
      BY <1>1, <3>1
    <3> QED
      BY <3>2, <3>3
  <2>3. ASSUME NEW i \in h + 1 .. m PROVE keys[h] < keys[i]
    BY <1>1 DEF Ascending, m
  <2> QED
    BY <1>1, <2>1, <2>2, <2>3
<1>5. Within(left, lo, keys[h])
  BY <1>1, <1>2, <1>4 DEF Within
<1>6. Within(right, keys[h], hi)
  <2> SUFFICES ASSUME NEW j \in 1 .. m - h
               PROVE  keys[h] < right.keys[j] /\ right.keys[j] <= hi
    BY <1>3 DEF Within
  <2>1. h + j \in h + 1 .. m /\ h + j \in 1 .. m
    BY <1>1
  <2> QED
    BY <1>1, <1>3, <1>4, <2>1
<1> QED
  BY <1>2, <1>3, <1>4, <1>5, <1>6 DEF NodeOrdered, keys

(***************************************************************************)
(* The shape after page p was split at the key `up' and its upper half     *)
(* went to page n.  The node above still takes p for the whole interval.   *)
(***************************************************************************)
IsSplit(t, s, p, n, up) ==
  /\ t \in Shapes
  /\ t.lo[n] = up /\ t.hi[p] = up /\ t.hi[n] = s.hi[p]
  /\ t.height[n] = s.height[p]
  /\ \A q \in PageId : q # n =>
       /\ t.lo[q] = s.lo[q] /\ t.up[q] = s.hi[q] /\ t.height[q] = s.height[q]
       /\ q # p => t.hi[q] = s.hi[q]
  /\ t.up = [t.hi EXCEPT ![p] = t.hi[n]]

LEMMA SplitShape ==
  ASSUME NEW s \in Shapes, NEW p \in PageId, NEW n \in PageId, p # n, NEW up \in Int
  PROVE  \E t : IsSplit(t, s, p, n, up)
<1> DEFINE hi == [s.hi EXCEPT ![p] = up, ![n] = s.hi[p]]
<1>1. /\ s.lo \in [PageId -> Int] /\ s.hi \in [PageId -> Int]
      /\ s.height \in [PageId -> Nat]
  BY DEF Shapes
<1>2. /\ hi \in [PageId -> Int] /\ hi[p] = up /\ hi[n] = s.hi[p]
      /\ \A q \in PageId : q # n /\ q # p => hi[q] = s.hi[q]
  BY <1>1
<1> HIDE DEF hi
<1> DEFINE t == [lo |-> [s.lo EXCEPT ![n] = up], hi |-> hi,
                 up |-> [hi EXCEPT ![p] = s.hi[p]],
                 height |-> [s.height EXCEPT ![n] = s.height[p]]]
<1>3. /\ t.lo = [s.lo EXCEPT ![n] = up] /\ t.hi = hi
      /\ t.up = [hi EXCEPT ![p] = s.hi[p]]
      /\ t.height = [s.height EXCEPT ![n] = s.height[p]]
      /\ t = [lo |-> t.lo, hi |-> t.hi, up |-> t.up, height |-> t.height]
  OBVIOUS
<1> HIDE DEF t
<1>4. /\ t.lo \in [PageId -> Int] /\ t.lo[n] = up
      /\ \A q \in PageId : q # n => t.lo[q] = s.lo[q]
  BY <1>1, <1>3
<1>5. /\ t.up \in [PageId -> Int] /\ t.up[p] = s.hi[p]
      /\ \A q \in PageId : q # p => t.up[q] = hi[q]
  BY <1>1, <1>2, <1>3
<1>6. /\ t.height \in [PageId -> Nat] /\ t.height[n] = s.height[p]
      /\ \A q \in PageId : q # n => t.height[q] = s.height[q]
  BY <1>1, <1>3
<1>7. t \in Shapes
  <2>1. t.hi \in [PageId -> Int]
    BY <1>2, <1>3
  <2> QED
    BY <1>3, <1>4, <1>5, <1>6, <2>1 DEF Shapes
<1>8. IsSplit(t, s, p, n, up)
  BY <1>2, <1>3, <1>4, <1>5, <1>6, <1>7 DEF IsSplit
<1> QED
  BY <1>8

(***************************************************************************)
(* A split, of a leaf or of an inner node.  M are the children that moved  *)
(* to the new page n, which was allocated for the upper half.              *)
(***************************************************************************)
Halved(ps, qs, A, n, p, M) ==
  /\ qs[p].kind = ps[p].kind /\ qs[n].kind = ps[p].kind
  /\ qs[n].parent = Unwritten
  /\ p \notin M
  /\ \A q \in A :
       /\ qs[q].parent = IF q \in M THEN n ELSE ps[q].parent
       /\ q # p => /\ qs[q].kind = ps[q].kind /\ qs[q].keys = ps[q].keys
                   /\ qs[q].children = ps[q].children

HasChild(ps, p, q) ==
  \E i \in 1 .. Len(ps[p].children) : ps[p].children[i] = q

HalvesOrdered(ps, qs, A, n, root, s, t, p, up, M) ==
  /\ NodeOrdered(qs[p], s.lo[p], up) /\ NodeOrdered(qs[n], up, s.hi[p])
  /\ s.lo[p] < up /\ up < s.hi[p]
  /\ qs[p].kind = "inner" =>
       /\ \A i \in 1 .. Len(qs[p].children) : LinkOrdered(qs, t, p, i)
       /\ \A i \in 1 .. Len(qs[n].children) : LinkOrdered(qs, t, n, i)
  /\ \A q \in M : ps[q].parent = p /\ HasChild(qs, n, q)
  /\ \A q \in A \ M :
       q # root /\ ps[q].parent = p => HasChild(qs, p, q)

LEMMA NodeSplits ==
  ASSUME NEW ps, NEW A, NEW root, NEW s \in Shapes, WellLinked(ps, A, root),
         TreeShape(ps, A, root, s), s.up = s.hi, NEW n \in PageId, n \notin A,
         NEW p \in A, NEW qs, NEW M \in SUBSET A,
         Halved(ps, qs, A, n, p, M), NEW up \in Int,
         NEW t, IsSplit(t, s, p, n, up),
         HalvesOrdered(ps, qs, A, n, root, s, t, p, up, M)
  PROVE  TreeShape(qs, A \cup {n}, root, t)
<1>1. /\ p \in PageId /\ p # n /\ root \in A
      /\ \A q \in A : q \in PageId /\ q # n
      /\ \A q \in A \cup {n} : q \in A \/ q = n
  BY LinkedPage, PageAssumption DEF PageId, WellLinked
<1>2. /\ t \in Shapes
      /\ t.lo[n] = up /\ t.hi[p] = up /\ t.hi[n] = s.hi[p]
      /\ t.height[n] = s.height[p]
      /\ \A q \in A :
           /\ t.lo[q] = s.lo[q] /\ t.up[q] = s.up[q] /\ t.height[q] = s.height[q]
           /\ q # p => t.hi[q] = s.hi[q]
  BY <1>1 DEF IsSplit
<1>3. /\ NodeOrdered(qs[p], t.lo[p], t.hi[p]) /\ NodeOrdered(qs[n], t.lo[n], t.hi[n])
      /\ s.lo[p] < up /\ up < s.hi[p]
      /\ qs[p].kind = "inner" =>
           /\ \A i \in 1 .. Len(qs[p].children) : LinkOrdered(qs, t, p, i)
           /\ \A i \in 1 .. Len(qs[n].children) : LinkOrdered(qs, t, n, i)
      /\ \A q \in M : ps[q].parent = p /\ HasChild(qs, n, q)
      /\ \A q \in A \ M :
           q # root /\ ps[q].parent = p => HasChild(qs, p, q)
  BY <1>1, <1>2 DEF HalvesOrdered
<1>4. /\ qs[p].kind = ps[p].kind /\ qs[n].kind = ps[p].kind
      /\ qs[n].parent = Unwritten /\ p \notin M
      /\ \A q \in A :
           /\ qs[q].parent = IF q \in M THEN n ELSE ps[q].parent
           /\ qs[q].kind = ps[q].kind
           /\ q # p => qs[q].keys = ps[q].keys /\ qs[q].children = ps[q].children
  BY DEF Halved
<1>5. PageShape(qs, root, t, n)
  <2>1. qs[n].kind = "leaf" => t.height[n] = 0
    BY <1>2, <1>4, ShapeOfPage DEF PageShape
  <2> QED
    BY <1>3, <1>4, <2>1 DEF PageShape
<1>6. ASSUME NEW q \in A
      PROVE  PageShape(qs, root, t, q)
  <2>1. PageShape(ps, root, s, q)
    BY ShapeOfPage
  <2>2. NodeOrdered(qs[q], t.lo[q], t.hi[q])
    <3>1. CASE q = p
      BY <1>3, <3>1
    <3>2. CASE q # p
      BY <1>2, <1>4, <2>1, <3>2 DEF PageShape, NodeOrdered, Within
    <3> QED
      BY <3>1, <3>2
  <2>3. qs[q].kind = "leaf" => t.height[q] = 0
    BY <1>2, <1>4, <2>1 DEF PageShape
  <2>4. ASSUME qs[q].kind = "inner"
        PROVE  \A i \in 1 .. Len(qs[q].children) : LinkOrdered(qs, t, q, i)
    <3>1. CASE q = p
      BY <1>3, <2>4, <3>1
    <3>2. CASE q # p
      <4>1. /\ ps[q].kind = "inner" /\ t.hi[q] = s.hi[q]
            /\ qs[q].keys = ps[q].keys /\ qs[q].children = ps[q].children
        BY <1>2, <1>4, <2>4, <3>2
      <4>2. ASSUME NEW i \in 1 .. Len(ps[q].keys) + 1
            PROVE  LinkKept(qs, s, t, q, ps[q].children[i])
        <5> DEFINE c == ps[q].children[i]
        <5>1. c \in A /\ ps[c].parent = q
          BY <4>1, ShapeOfLink
        <5>2. c \notin M
          BY <1>3, <3>2, <5>1
        <5> HIDE DEF c
        <5>3. qs[c].parent = q
          BY <1>4, <5>1, <5>2
        <5> QED
          BY <1>2, <5>1, <5>3 DEF c, LinkKept
      <4>3. t.lo[q] = s.lo[q] /\ t.height[q] = s.height[q]
        BY <1>2
      <4> QED
        BY <4>1, <4>2, <4>3, SameLinks
    <3> QED
      BY <3>1, <3>2
  <2>5. ASSUME q # root, qs[q].parent # Unwritten
        PROVE  IsChild(qs, q)
    <3>1. CASE q \in M
      BY <1>3, <1>4, <3>1 DEF HasChild, IsChild
    <3>2. CASE q \notin M
      <4>1. /\ qs[q].parent = ps[q].parent /\ ps[q].parent \in A
            /\ IsChild(ps, q)
        BY <1>4, <2>1, <2>5, <3>2, LinkedPage DEF PageShape
      <4>2. CASE ps[q].parent = p
        BY <1>3, <2>5, <3>2, <4>1, <4>2 DEF HasChild, IsChild
      <4>3. CASE ps[q].parent # p
        <5>1. qs[ps[q].parent].children = ps[ps[q].parent].children
          BY <1>4, <4>1, <4>3
        <5> QED
          BY <4>1, <5>1 DEF IsChild
      <4> QED
        BY <4>2, <4>3
    <3> QED
      BY <3>1, <3>2
  <2> QED
    BY <2>2, <2>3, <2>4, <2>5 DEF PageShape
<1>7. RootShape(qs, root, t)
  <2>1. root \notin M
    <3>1. ps[root].parent = NODE_PARENT_INVALID /\ p # NODE_PARENT_INVALID
      BY <1>1, PageAssumption DEF TreeShape, RootShape, PageId
    <3> QED
      BY <1>3, <3>1
  <2> QED
    BY <1>1, <1>2, <1>4, <2>1 DEF TreeShape, RootShape
<1>8. LeavesApart(qs, A \cup {n}, t)
  <2>1. ASSUME NEW a \in A, NEW b \in A, a # b,
               ps[a].kind = "leaf", ps[b].kind = "leaf"
        PROVE  /\ t.hi[a] <= t.lo[b] \/ t.hi[b] <= t.lo[a]
               /\ a = p => t.hi[n] <= t.lo[b] \/ t.hi[b] <= t.lo[n]
    <3>1. s.hi[a] <= s.lo[b] \/ s.hi[b] <= s.lo[a]
      BY <2>1 DEF TreeShape, LeavesApart
    <3>2. /\ s.hi[a] \in Int /\ s.lo[a] \in Int /\ s.hi[b] \in Int /\ s.lo[b] \in Int
      BY ShapeOfPage
    <3>3. /\ t.lo[a] = s.lo[a] /\ t.lo[b] = s.lo[b]
          /\ t.hi[a] <= s.hi[a] /\ t.hi[b] <= s.hi[b]
          /\ t.hi[a] \in Int /\ t.hi[b] \in Int
      BY <1>2, <1>3, <3>2
    <3> QED
      BY <1>2, <1>3, <2>1, <3>1, <3>2, <3>3
  <2>2. t.hi[p] <= t.lo[n]
    BY <1>2
  <2>3. SUFFICES ASSUME NEW a \in A \cup {n}, NEW b \in A \cup {n}, a # b,
                        qs[a].kind = "leaf", qs[b].kind = "leaf"
                 PROVE  t.hi[a] <= t.lo[b] \/ t.hi[b] <= t.lo[a]
    BY DEF LeavesApart
  <2>4. CASE a \in A /\ b \in A
    BY <1>4, <2>1, <2>3, <2>4
  <2>5. CASE a = n /\ b \in A
    BY <1>4, <2>1, <2>2, <2>3, <2>5
  <2>6. CASE a \in A /\ b = n
    BY <1>4, <2>1, <2>2, <2>3, <2>6
  <2> QED
    BY <1>1, <2>3, <2>4, <2>5, <2>6
<1> QED
  BY <1>1, <1>5, <1>6, <1>7, <1>8 DEF TreeShape

(***************************************************************************)
(* The pending page becomes a child, right after the left half: now the    *)
(* parent, too, knows how far the left half reaches.                       *)
(***************************************************************************)
Adopted(ps, qs, A, p, r, keys, children) ==
  /\ qs[p].keys = keys /\ qs[p].children = children
  /\ \A q \in A :
       /\ qs[q].kind = ps[q].kind
       /\ qs[q].parent = IF q = r THEN p ELSE ps[q].parent
       /\ q # p => qs[q].keys = ps[q].keys /\ qs[q].children = ps[q].children

IsSettled(t, s) ==
  /\ t \in Shapes
  /\ t.lo = s.lo /\ t.hi = s.hi /\ t.up = s.hi /\ t.height = s.height

LEMMA SettledShape ==
  ASSUME NEW s \in Shapes
  PROVE  \E t : IsSettled(t, s)
<1> DEFINE t == [lo |-> s.lo, hi |-> s.hi, up |-> s.hi, height |-> s.height]
<1>1. IsSettled(t, s)
  BY DEF IsSettled, Shapes
<1> QED
  BY <1>1

\* The bounds of the children of a node with a key inserted after slot pos.
BoundsGrow(keys, new, pos, up, lo, hi, j) ==
  /\ j < pos + 1 => /\ Lower(new, lo, j) = Lower(keys, lo, j)
                    /\ Upper(new, hi, j) = Upper(keys, hi, j)
  /\ j = pos + 1 => Lower(new, lo, j) = Lower(keys, lo, j) /\ Upper(new, hi, j) = up
  /\ j = pos + 2 => Lower(new, lo, j) = up /\ Upper(new, hi, j) = Upper(keys, hi, j - 1)
  /\ j > pos + 2 => /\ Lower(new, lo, j) = Lower(keys, lo, j - 1)
                    /\ Upper(new, hi, j) = Upper(keys, hi, j - 1)

LEMMA GrownBounds ==
  ASSUME NEW keys, NEW new, NEW m \in Nat, Len(keys) = m, Len(new) = m + 1,
         NEW pos \in 0 .. m, NEW up, NEW lo, NEW hi,
         \A j \in 1 .. m + 1 : new[j] =
           IF j < pos + 1 THEN keys[j] ELSE IF j = pos + 1 THEN up ELSE keys[j - 1],
         NEW j \in 1 .. m + 2
  PROVE  BoundsGrow(keys, new, pos, up, lo, hi, j)
<1>1. j # 1 => j - 1 \in 1 .. m + 1
  OBVIOUS
<1>2. /\ j # 1 /\ j <= pos + 1 => new[j - 1] = keys[j - 1]
      /\ j = pos + 2 => j # 1 /\ new[j - 1] = up
      /\ j > pos + 2 => j # 1 /\ j - 1 # 1 /\ new[j - 1] = keys[(j - 1) - 1]
  <2> DEFINE k == j - 1
  <2>1. /\ j # 1 => k \in 1 .. m + 1
        /\ j # 1 /\ j <= pos + 1 => k < pos + 1
        /\ j = pos + 2 => j # 1 /\ k = pos + 1 /\ ~(k < pos + 1)
        /\ j > pos + 2 => j # 1 /\ k # 1 /\ ~(k < pos + 1) /\ k # pos + 1
    BY <1>1
  <2> HIDE DEF k
  <2>2. /\ j # 1 /\ j <= pos + 1 => new[k] = keys[k]
        /\ j = pos + 2 => j # 1 /\ new[k] = up
        /\ j > pos + 2 => j # 1 /\ k # 1 /\ new[k] = keys[k - 1]
    BY <2>1
  <2> QED
    BY <2>2 DEF k
<1>3. /\ j < pos + 1 => j # m + 2 /\ j # m + 1 /\ new[j] = keys[j]
      /\ j = pos + 1 => j # m + 2 /\ new[j] = up
      /\ j # m + 2 /\ j > pos + 1 => j - 1 # m + 1 /\ new[j] = keys[j - 1]
      /\ j = m + 2 => j - 1 = m + 1
  OBVIOUS
<1>4. /\ Lower(new, lo, j) = IF j = 1 THEN lo ELSE new[j - 1]
      /\ Lower(keys, lo, j) = IF j = 1 THEN lo ELSE keys[j - 1]
      /\ Lower(keys, lo, j - 1) = IF j - 1 = 1 THEN lo ELSE keys[(j - 1) - 1]
      /\ Upper(new, hi, j) = IF j = m + 2 THEN hi ELSE new[j]
      /\ Upper(keys, hi, j) = IF j = m + 1 THEN hi ELSE keys[j]
      /\ Upper(keys, hi, j - 1) = IF j - 1 = m + 1 THEN hi ELSE keys[j - 1]
  BY DEF Lower, Upper
<1> QED
  BY <1>2, <1>3, <1>4 DEF BoundsGrow

LEMMA InnerGrows ==
  ASSUME NEW ps, NEW A, NEW root, NEW s \in Shapes, WellLinked(ps, A, root),
         TreeShape(ps, A, root, s),
         NEW p \in A, NEW l \in A, NEW r \in A,
         NEW up \in Key, NEW pos \in 0 .. Len(ps[p].keys),
         IsKeyPosition(ps[p].keys, up, pos),
         \E c : ClimbShape(c, ps, s) /\ c.left = l /\ c.right = r
                /\ c.parent = p /\ c.key_upward = up,
         NEW qs, Adopted(ps, qs, A, p, r, InsertAt(ps[p].keys, pos + 1, up),
                         InsertAt(ps[p].children, pos + 2, r)),
         NEW t, IsSettled(t, s)
  PROVE  TreeShape(qs, A, root, t)
<1> DEFINE keys == ps[p].keys
           kids == ps[p].children
           m    == Len(keys)
<1>1. PICK c : /\ ClimbShape(c, ps, s) /\ c.left = l /\ c.right = r
               /\ c.parent = p /\ c.key_upward = up
  OBVIOUS
<1>2. /\ ps[p].kind = "inner"
      /\ l # r /\ r # root /\ p # l /\ p # r
      /\ s.lo[p] < up /\ up < s.hi[p]
      /\ \A i \in 1 .. m : keys[i] # up
      /\ kids[pos + 1] = l /\ s.hi[r] = Upper(keys, s.hi[p], pos + 1)
  <2>1. /\ c.left \in A /\ c.right \in A
        /\ c.parent \in A /\ c.key_upward \in Key
    BY <1>1
  <2>2. EntersAfterLeft(c, ps, root, s)
    BY <1>1, <2>1, ClimbSlot
  <2> QED
    BY <1>1, <2>2 DEF EntersAfterLeft
<1>3. /\ ps[l].parent = p /\ ps[r].parent = Unwritten
      /\ up = s.hi[l] /\ up = s.lo[r] /\ s.height[l] = s.height[r]
      /\ \A q \in A : q # l => s.up[q] = s.hi[q]
  <2>1. \A q \in A : q \in PageId
    BY LinkedPage
  <2> QED
    BY <1>1, <2>1 DEF ClimbShape, Shapes
<1>4. /\ m \in Nat /\ Len(kids) = m + 1 /\ keys \in Seq(Key) /\ Ascending(keys)
      /\ kids \in Seq(A) /\ pos \in 0 .. m
      /\ s.lo[p] \in Int /\ s.hi[p] \in Int /\ up \in Int
      /\ \A i \in 1 .. m : keys[i] \in Int /\ s.lo[p] < keys[i] /\ keys[i] < s.hi[p]
  <2>1. PageShape(ps, root, s, p) /\ s.lo[p] \in Int /\ s.hi[p] \in Int
    BY ShapeOfPage
  <2>2. kids \in Seq(A)
    BY DEF WellLinked, IsNode
  <2>3. /\ m \in Nat /\ Len(kids) = m + 1 /\ keys \in Seq(Key)
        /\ \A i \in 1 .. m : keys[i] \in Int
    BY <1>2, LinkedPage
  <2>4. NodeOrdered(ps[p], s.lo[p], s.hi[p])
    BY <2>1 DEF PageShape
  <2>5. /\ Ascending(keys)
        /\ \A i \in 1 .. m : s.lo[p] < keys[i] /\ keys[i] < s.hi[p]
    BY <1>2, <2>4 DEF NodeOrdered, Within
  <2>6. up \in Int
    BY InputAssumption DEF Key
  <2> QED
    BY <2>1, <2>2, <2>3, <2>5, <2>6
<1>5. /\ qs[p].keys = InsertAt(keys, pos + 1, up)
      /\ qs[p].children = InsertAt(kids, pos + 2, r)
      /\ \A q \in A :
           /\ qs[q].kind = ps[q].kind
           /\ qs[q].parent = IF q = r THEN p ELSE ps[q].parent
           /\ q # p => qs[q].keys = ps[q].keys /\ qs[q].children = ps[q].children
  BY DEF Adopted
<1>6. t \in Shapes /\ t.lo = s.lo /\ t.hi = s.hi /\ t.up = s.hi /\ t.height = s.height
  BY DEF IsSettled
<1> HIDE DEF keys, kids, m
<1>7. /\ Len(qs[p].keys) = m + 1
      /\ \A j \in 1 .. m + 1 : qs[p].keys[j] =
           IF j < pos + 1 THEN keys[j] ELSE IF j = pos + 1 THEN up ELSE keys[j - 1]
      /\ Ascending(qs[p].keys)
      /\ \A j \in 1 .. m + 1 :
           qs[p].keys[j] = up \/ \E i \in 1 .. m : qs[p].keys[j] = keys[i]
  <2>1. ~HasKeyAt(keys, up, pos)
    BY <1>2, <1>4 DEF HasKeyAt
  <2>2. IsKeyPosition(keys, up, pos) /\ pos \in 0 .. Len(keys)
    BY DEF keys
  <2> QED
    BY <1>4, <1>5, <2>1, <2>2, InsertAscending DEF m
<1>8. /\ Len(qs[p].children) = m + 2
      /\ \A j \in 1 .. m + 2 : qs[p].children[j] =
           IF j < pos + 2 THEN kids[j] ELSE IF j = pos + 2 THEN r ELSE kids[j - 1]
  <2> DEFINE k == pos + 2
             S == A
  <2>6. m \in Nat /\ pos \in 0 .. m /\ Len(kids) = m + 1 /\ kids \in Seq(S)
    BY <1>4
  <2>1. k \in 1 .. Len(kids) + 1 /\ kids \in Seq(S) /\ r \in S
    BY <2>6
  <2> HIDE DEF k, S
  <2>2. IsInserted(InsertAt(kids, k, r), kids, k, r)
    BY <2>1, Inserted
  <2>3. Len(kids) + 1 = m + 2
    BY <1>4
  <2>4. qs[p].children = InsertAt(kids, k, r)
    BY <1>5 DEF k
  <2>5. IsInserted(qs[p].children, kids, k, r)
    BY <2>2, <2>4
  <2> QED
    BY <2>3, <2>5 DEF k, IsInserted
<1>9. \A i \in 1 .. m + 1 :
        /\ kids[i] \in A /\ kids[i] # r
        /\ ps[kids[i]].parent = p
        /\ s.lo[kids[i]] = Lower(keys, s.lo[p], i)
        /\ s.up[kids[i]] = Upper(keys, s.hi[p], i)
        /\ s.height[p] = s.height[kids[i]] + 1
        /\ i # pos + 1 => s.hi[kids[i]] = Upper(keys, s.hi[p], i)
  <2> TAKE i \in 1 .. m + 1
  <2>5. m \in Nat /\ pos \in 0 .. m
    BY <1>4
  <2>6. i \in 1 .. m + 1 /\ pos + 1 \in 1 .. m + 1
    BY <2>5
  <2>1. i \in 1 .. Len(ps[p].keys) + 1 /\ pos + 1 \in 1 .. Len(ps[p].keys) + 1
    BY <2>6 DEF m, keys
  <2>4. kids[pos + 1] = l /\ ps[p].kind = "inner"
    BY <1>2
  <2>2. /\ kids[i] \in A /\ ps[kids[i]].parent = p /\ ps[kids[i]].parent # Unwritten
        /\ s.lo[kids[i]] = Lower(keys, s.lo[p], i)
        /\ s.up[kids[i]] = Upper(keys, s.hi[p], i)
        /\ s.height[p] = s.height[kids[i]] + 1
    <3> DEFINE kid == kids[i]
    <3>1. kid = ps[p].children[i]
      BY DEF kids
    <3> HIDE DEF kid
    <3>2. /\ kid \in A /\ ps[kid].parent = p /\ ps[kid].parent # Unwritten
          /\ s.lo[kid] = Lower(ps[p].keys, s.lo[p], i)
          /\ s.up[kid] = Upper(ps[p].keys, s.hi[p], i)
          /\ s.height[p] = s.height[kid] + 1
      BY <2>1, <2>4, <3>1, ShapeOfChild
    <3> QED
      BY <3>2 DEF kid, keys
  <2>3. i # pos + 1 => kids[i] # l
    <3> DEFINE k == pos + 1
    <3>1. k \in 1 .. Len(ps[p].keys) + 1
      BY <2>1
    <3> HIDE DEF k
    <3>2. ps[p].children[i] = ps[p].children[k] => i = k
      BY <2>1, <2>4, <3>1, ChildOnce
    <3> QED
      BY <2>4, <3>2 DEF k, kids
  <2> QED
    BY <1>3, <2>2, <2>3
<1>10. NodeOrdered(qs[p], t.lo[p], t.hi[p])
  <2>1. \A j \in 1 .. m + 1 : s.lo[p] < qs[p].keys[j] /\ qs[p].keys[j] < s.hi[p]
    BY <1>2, <1>4, <1>7
  <2>2. \A j \in 1 .. m + 1 : qs[p].keys[j] \in Int
    BY <1>4, <1>7
  <2>3. \A j \in 1 .. m + 1 : qs[p].keys[j] <= s.hi[p]
    <3> TAKE j \in 1 .. m + 1
    <3>1. qs[p].keys[j] < s.hi[p] /\ qs[p].keys[j] \in Int /\ s.hi[p] \in Int
      BY <1>4, <2>1, <2>2
    <3> QED
      BY <3>1
  <2> QED
    BY <1>6, <1>7, <2>1, <2>3 DEF NodeOrdered, Within
<1>11. ASSUME NEW j \in 1 .. m + 2
       PROVE  LinkOrdered(qs, t, p, j)
  <2> DEFINE new == qs[p].keys
             ch  == qs[p].children[j]
             lo  == Lower(new, s.lo[p], j)
             hi  == Upper(new, s.hi[p], j)
  <2>0. /\ j < pos + 1 => /\ lo = Lower(keys, s.lo[p], j)
                          /\ hi = Upper(keys, s.hi[p], j)
        /\ j = pos + 1 => lo = Lower(keys, s.lo[p], j) /\ hi = up
        /\ j = pos + 2 => lo = up /\ hi = Upper(keys, s.hi[p], j - 1)
        /\ j > pos + 2 => /\ lo = Lower(keys, s.lo[p], j - 1)
                          /\ hi = Upper(keys, s.hi[p], j - 1)
    <3>1. /\ m \in Nat /\ Len(keys) = m /\ Len(new) = m + 1 /\ pos \in 0 .. m
          /\ \A i \in 1 .. m + 1 : new[i] =
               IF i < pos + 1 THEN keys[i] ELSE IF i = pos + 1 THEN up ELSE keys[i - 1]
      BY <1>4, <1>7 DEF m
    <3> HIDE DEF new
    <3>2. BoundsGrow(keys, new, pos, up, s.lo[p], s.hi[p], j)
      BY <3>1, GrownBounds
    <3> QED
      BY <3>2 DEF BoundsGrow
  <2>5. m \in Nat /\ pos \in 0 .. m
    BY <1>4
  <2> HIDE DEF new, ch, lo, hi
  <2>1. CASE j < pos + 1
    <3>3. j \in 1 .. m + 1 /\ j # pos + 1 /\ j < pos + 2
      BY <2>1, <2>5
    <3>1. ch = kids[j] /\ j \in 1 .. m + 1 /\ j # pos + 1
      BY <1>8, <3>3 DEF ch
    <3>2. /\ qs[ch].parent = p /\ s.lo[ch] = lo /\ s.hi[ch] = hi
          /\ s.height[p] = s.height[ch] + 1
      BY <1>5, <1>9, <2>0, <2>1, <3>1
    <3> QED
      BY <1>6, <3>2 DEF LinkOrdered, new, ch, lo, hi
  <2>2. CASE j = pos + 1
    <3>3. j \in 1 .. m + 1 /\ j < pos + 2
      BY <2>2, <2>5
    <3>4. kids[j] = l
      BY <1>2, <2>2
    <3>1. ch = l /\ j \in 1 .. m + 1 /\ kids[j] = l
      BY <1>8, <3>3, <3>4 DEF ch
    <3>2. /\ qs[ch].parent = p /\ s.lo[ch] = lo /\ s.hi[ch] = hi
          /\ s.height[p] = s.height[ch] + 1
      BY <1>3, <1>5, <1>9, <2>0, <2>2, <3>1
    <3> QED
      BY <1>6, <3>2 DEF LinkOrdered, new, ch, lo, hi
  <2>3. CASE j = pos + 2
    <3>4. pos + 1 \in 1 .. m + 1 /\ j - 1 = pos + 1 /\ ~(j < pos + 2)
      BY <2>3, <2>5
    <3>5. ch = r
      BY <1>8, <2>3, <3>4 DEF ch
    <3>1. ch = r /\ pos + 1 \in 1 .. m + 1 /\ j - 1 = pos + 1
      BY <3>4, <3>5
    <3>2. s.height[p] = s.height[r] + 1
      BY <1>2, <1>3, <1>9, <3>1
    <3>3. /\ qs[ch].parent = p /\ s.lo[ch] = lo /\ s.hi[ch] = hi
      BY <1>2, <1>3, <1>5, <2>0, <2>3, <3>1
    <3> QED
      BY <1>6, <3>1, <3>2, <3>3 DEF LinkOrdered, new, ch, lo, hi
  <2>4. CASE j > pos + 2
    <3>3. j - 1 \in 1 .. m + 1 /\ j - 1 # pos + 1 /\ ~(j < pos + 2) /\ j # pos + 2
      BY <2>4, <2>5
    <3>1. ch = kids[j - 1] /\ j - 1 \in 1 .. m + 1 /\ j - 1 # pos + 1
      BY <1>8, <3>3 DEF ch
    <3>2. /\ qs[ch].parent = p /\ s.lo[ch] = lo /\ s.hi[ch] = hi
          /\ s.height[p] = s.height[ch] + 1
      BY <1>5, <1>9, <2>0, <2>4, <3>1
    <3> QED
      BY <1>6, <3>2 DEF LinkOrdered, new, ch, lo, hi
  <2> QED
    BY <2>1, <2>2, <2>3, <2>4, <2>5
<1>12. ASSUME NEW q \in A
       PROVE  PageShape(qs, root, t, q)
  <2>1. PageShape(ps, root, s, q)
    BY ShapeOfPage
  <2>2. NodeOrdered(qs[q], t.lo[q], t.hi[q])
    <3>1. CASE q = p
      BY <1>10, <3>1
    <3>2. CASE q # p
      BY <1>5, <1>6, <2>1, <3>2 DEF PageShape, NodeOrdered, Within
    <3> QED
      BY <3>1, <3>2
  <2>3. qs[q].kind = "leaf" => t.height[q] = 0
    BY <1>5, <1>6, <2>1 DEF PageShape
  <2>4. ASSUME qs[q].kind = "inner"
        PROVE  \A i \in 1 .. Len(qs[q].children) : LinkOrdered(qs, t, q, i)
    <3>1. CASE q = p
      BY <1>8, <1>11, <3>1
    <3>2. CASE q # p
      <4>1. /\ ps[q].kind = "inner"
            /\ qs[q].keys = ps[q].keys /\ qs[q].children = ps[q].children
        BY <1>5, <2>4, <3>2
      <4>2. ASSUME NEW i \in 1 .. Len(ps[q].keys) + 1
            PROVE  LinkKept(qs, s, t, q, ps[q].children[i])
        <5> DEFINE ch == ps[q].children[i]
        <5>1. ch \in A /\ ps[ch].parent = q /\ ps[ch].parent # Unwritten
          BY <4>1, ShapeOfLink
        <5>2. ch # l /\ ch # r
          BY <1>3, <3>2, <5>1
        <5> HIDE DEF ch
        <5>3. qs[ch].parent = q
          BY <1>5, <5>1, <5>2
        <5>4. t.up[ch] = s.up[ch]
          BY <1>3, <1>6, <5>1, <5>2
        <5> QED
          BY <1>6, <5>3, <5>4 DEF LinkKept, ch
      <4>3. t.lo[q] = s.lo[q] /\ t.hi[q] = s.hi[q] /\ t.height[q] = s.height[q]
        BY <1>6
      <4> QED
        BY <4>1, <4>2, <4>3, SameLinks
    <3> QED
      BY <3>1, <3>2
  <2>5. ASSUME q # root, qs[q].parent # Unwritten
        PROVE  IsChild(qs, q)
    <3>1. CASE q = r
      <4>1. pos + 2 \in 1 .. m + 2 /\ ~(pos + 2 < pos + 2)
        BY <1>4
      <4>3. qs[p].children[pos + 2] = r
        BY <1>8, <4>1
      <4>2. qs[q].parent = p
        BY <1>5, <3>1
      <4> QED
        BY <1>8, <3>1, <4>1, <4>2, <4>3 DEF IsChild
    <3>2. CASE q # r
      <4>1. /\ qs[q].parent = ps[q].parent /\ ps[q].parent \in A
            /\ IsChild(ps, q)
        BY <1>5, <2>1, <2>5, <3>2, LinkedPage DEF PageShape
      <4>2. CASE ps[q].parent = p
        <5>1. PICK i \in 1 .. Len(kids) : kids[i] = q
          BY <4>1, <4>2 DEF IsChild, kids
        <5>2. \E j \in 1 .. m + 2 : qs[p].children[j] = q
          <6>0. i \in 1 .. m + 1 /\ m \in Nat /\ pos \in 0 .. m
            BY <1>4, <5>1
          <6>1. i < pos + 2 => i \in 1 .. m + 2 /\ qs[p].children[i] = q
            <7>1. i \in 1 .. m + 2
              BY <6>0
            <7> QED
              BY <1>8, <5>1, <7>1
          <6>2. ~(i < pos + 2) => i + 1 \in 1 .. m + 2 /\ qs[p].children[i + 1] = q
            <7>1. ~(i < pos + 2) => /\ i + 1 \in 1 .. m + 2 /\ ~(i + 1 < pos + 2)
                                    /\ i + 1 # pos + 2 /\ (i + 1) - 1 = i
              BY <6>0
            <7> HAVE ~(i < pos + 2)
            <7> DEFINE j == i + 1
            <7>2. /\ j \in 1 .. m + 2 /\ ~(j < pos + 2)
                  /\ j # pos + 2 /\ j - 1 = i
              BY <7>1
            <7> HIDE DEF j
            <7>3. qs[p].children[j] = q
              BY <1>8, <5>1, <7>2
            <7> QED
              BY <7>2, <7>3 DEF j
          <6> QED
            BY <6>1, <6>2
        <5> QED
          BY <1>8, <4>1, <4>2, <5>2 DEF IsChild
      <4>3. CASE ps[q].parent # p
        <5>1. qs[ps[q].parent].children = ps[ps[q].parent].children
          BY <1>5, <4>1, <4>3
        <5> QED
          BY <4>1, <5>1 DEF IsChild
      <4> QED
        BY <4>2, <4>3
    <3> QED
      BY <3>1, <3>2
  <2> QED
    BY <2>2, <2>3, <2>4, <2>5 DEF PageShape
<1>13. RootShape(qs, root, t)
  <2>1. root \in A /\ root # r
    BY <1>2 DEF WellLinked
  <2>2. root # l
    BY <1>3, LinkedPage, PageAssumption DEF TreeShape, RootShape, PageId
  <2> QED
    BY <1>3, <1>5, <1>6, <2>1, <2>2 DEF TreeShape, RootShape
<1>14. LeavesApart(qs, A, t)
  BY <1>5, <1>6 DEF TreeShape, LeavesApart
<1> QED
  BY <1>12, <1>13, <1>14 DEF TreeShape

(***************************************************************************)
(* Halves of an inner node: the h-th key goes up, the children after it    *)
(* move with the keys after it, and M are those children.                  *)
(***************************************************************************)
InnerHalved(ps, qs, A, n, p, h, M) ==
  LET keys == ps[p].keys
      kids == ps[p].children
      m    == Len(keys)
  IN  /\ h \in 1 .. m
      /\ qs[p].kind = "inner" /\ qs[n].kind = "inner"
      /\ qs[p].keys = SubSeq(keys, 1, h - 1) /\ qs[p].children = SubSeq(kids, 1, h)
      /\ qs[n].keys = SubSeq(keys, h + 1, m)
      /\ qs[n].children = SubSeq(kids, h + 1, m + 1)
      /\ M = {kids[i] : i \in h + 1 .. m + 1}
      /\ \A q \in A : qs[q].parent = IF q \in M THEN n ELSE ps[q].parent

InnerHalvesInOrder(ps, qs, A, n, root, s, t, p, h, M) ==
  /\ M \in SUBSET A /\ p \notin M /\ ps[p].keys[h] \in Int
  /\ HalvesOrdered(ps, qs, A, n, root, s, t, p, ps[p].keys[h], M)

LEMMA InnerHalvesOrdered ==
  ASSUME NEW ps, NEW A, NEW root, NEW s \in Shapes, WellLinked(ps, A, root),
         TreeShape(ps, A, root, s), s.up = s.hi, NEW n \in PageId, n \notin A,
         NEW p \in A, ps[p].kind = "inner",
         NEW qs, NEW h, NEW M, InnerHalved(ps, qs, A, n, p, h, M),
         NEW t, IsSplit(t, s, p, n, ps[p].keys[h])
  PROVE  InnerHalvesInOrder(ps, qs, A, n, root, s, t, p, h, M)
<1> DEFINE keys == ps[p].keys
           kids == ps[p].children
           m    == Len(keys)
           lo   == s.lo[p]
           hi   == s.hi[p]
           up   == keys[h]
<1>1. /\ m \in Nat /\ Len(kids) = m + 1
      /\ keys \in Seq(Key) /\ p # n
      /\ \A i \in 1 .. m : keys[i] \in Int
      /\ \A q \in A : q \in PageId /\ q # n
  <2>1. /\ m \in Nat /\ Len(kids) = m + 1 /\ keys \in Seq(Key)
        /\ \A i \in 1 .. m : keys[i] \in Int
    BY LinkedPage
  <2>2. \A q \in A : q \in PageId /\ q # n
    BY DEF WellLinked
  <2> QED
    BY <2>1, <2>2
<1>2. /\ lo \in Int /\ hi \in Int /\ Ascending(keys)
      /\ \A i \in 1 .. m : lo < keys[i] /\ keys[i] < hi
  <2>1. PageShape(ps, root, s, p) /\ lo \in Int /\ hi \in Int
    BY ShapeOfPage
  <2> QED
    BY <2>1 DEF PageShape, NodeOrdered, Within
<1>3. ASSUME NEW i \in 1 .. m + 1
      PROVE  /\ kids[i] \in A /\ kids[i] # p /\ ps[kids[i]].parent = p
             /\ s.lo[kids[i]] = Lower(keys, lo, i) /\ s.hi[kids[i]] = Upper(keys, hi, i)
             /\ s.height[p] = s.height[kids[i]] + 1
  BY ShapeOfLink
<1>4. \A i, j \in 1 .. m + 1 : kids[i] = kids[j] => i = j
  BY ChildOnce
<1>5. kids \in Seq(A)
  BY DEF WellLinked, IsNode
<1>6. /\ h \in 1 .. m /\ qs[p].kind = "inner" /\ qs[n].kind = "inner"
      /\ qs[p].keys = SubSeq(keys, 1, h - 1) /\ qs[p].children = SubSeq(kids, 1, h)
      /\ qs[n].keys = SubSeq(keys, h + 1, m)
      /\ qs[n].children = SubSeq(kids, h + 1, m + 1)
      /\ M = {kids[i] : i \in h + 1 .. m + 1}
      /\ \A q \in A : qs[q].parent = IF q \in M THEN n ELSE ps[q].parent
  BY DEF InnerHalved
<1>7. /\ t.lo[n] = up /\ t.hi[p] = up /\ t.hi[n] = hi /\ t.height[n] = s.height[p]
      /\ t.lo[p] = lo /\ t.height[p] = s.height[p]
      /\ \A q \in A :
           t.lo[q] = s.lo[q] /\ t.up[q] = s.hi[q] /\ t.height[q] = s.height[q]
  BY <1>1 DEF IsSplit
<1>21. \A q \in A : q # root /\ ps[q].parent = p =>
         \E i \in 1 .. m + 1 : kids[i] = q
  <2> SUFFICES ASSUME NEW q \in A, q # root, ps[q].parent = p
               PROVE  \E i \in 1 .. m + 1 : kids[i] = q
    OBVIOUS
  <2>1. PageShape(ps, root, s, q)
    BY ShapeOfPage
  <2>2. p # Unwritten
    BY <1>1, PageAssumption DEF PageId
  <2>3. IsChild(ps, q)
    BY <2>1, <2>2 DEF PageShape
  <2> QED
    BY <1>1, <2>3 DEF IsChild
<1> HIDE DEF keys, kids, m, lo, hi, up
<1>8. /\ Len(qs[p].keys) = h - 1 /\ Ascending(qs[p].keys)
      /\ \A j \in 1 .. h - 1 : qs[p].keys[j] = keys[j]
  <2>1. 1 \in 1 .. Len(keys) + 1 /\ h - 1 \in 1 - 1 .. Len(keys)
    BY <1>1, <1>6 DEF m
  <2> DEFINE e == h - 1
  <2>2. 1 \in 1 .. Len(keys) + 1 /\ e \in 1 - 1 .. Len(keys) /\ qs[p].keys = SubSeq(keys, 1, e)
    BY <1>6, <2>1
  <2>3. e - 1 + 1 = h - 1 /\ \A j \in 1 .. h - 1 : 1 + j - 1 = j
    BY <1>1, <1>6
  <2> HIDE DEF e
  <2>4. IsSlice(qs[p].keys, keys, 1, e) /\ Ascending(qs[p].keys)
    BY <1>1, <1>2, <2>2, SubSeqAscending
  <2> QED
    BY <2>3, <2>4 DEF IsSlice
<1>9. /\ Len(qs[n].keys) = m - h /\ Ascending(qs[n].keys)
      /\ \A j \in 1 .. m - h : qs[n].keys[j] = keys[h + j]
  <2> DEFINE k == h + 1
  <2>1. /\ k \in 1 .. Len(keys) + 1 /\ m \in k - 1 .. Len(keys)
        /\ qs[n].keys = SubSeq(keys, k, m)
    BY <1>1, <1>6 DEF m
  <2>2. k = h + 1 /\ h \in Nat /\ m \in Nat
    BY <1>1, <1>6
  <2> HIDE DEF k
  <2>3. IsSlice(qs[n].keys, keys, k, m) /\ Ascending(qs[n].keys)
    BY <1>1, <1>2, <2>1, SubSeqAscending
  <2>4. m - k + 1 = m - h /\ \A j \in 1 .. m - h : k + j - 1 = h + j
    BY <2>2
  <2> QED
    BY <2>3, <2>4 DEF IsSlice
<1>10. /\ Len(qs[p].children) = h
       /\ \A j \in 1 .. h : qs[p].children[j] = kids[j]
  <2>1. 1 \in 1 .. Len(kids) + 1 /\ h \in 1 - 1 .. Len(kids)
    BY <1>1, <1>6
  <2> DEFINE S == A
  <2>2. kids \in Seq(S)
    BY <1>5
  <2>3. h - 1 + 1 = h /\ \A j \in 1 .. h : 1 + j - 1 = j
    BY <1>1, <1>6
  <2> HIDE DEF S
  <2>4. IsSlice(SubSeq(kids, 1, h), kids, 1, h)
    BY <2>1, <2>2, Sliced
  <2>5. IsSlice(qs[p].children, kids, 1, h)
    BY <1>6, <2>4
  <2> QED
    BY <2>3, <2>5 DEF IsSlice
<1>11. /\ Len(qs[n].children) = m + 1 - h
       /\ \A j \in 1 .. m + 1 - h : qs[n].children[j] = kids[h + j]
  <2> DEFINE k == h + 1
             e == m + 1
             S == A
  <2>1. /\ k \in 1 .. Len(kids) + 1 /\ e \in k - 1 .. Len(kids)
        /\ qs[n].children = SubSeq(kids, k, e) /\ kids \in Seq(S)
    BY <1>1, <1>5, <1>6
  <2>2. e - k + 1 = m + 1 - h /\ \A j \in 1 .. m + 1 - h : k + j - 1 = h + j
    BY <1>1, <1>6
  <2> HIDE DEF k, e, S
  <2>3. IsSlice(SubSeq(kids, k, e), kids, k, e)
    BY <2>1, Sliced
  <2>4. IsSlice(qs[n].children, kids, k, e)
    BY <2>1, <2>3
  <2> QED
    BY <2>2, <2>4 DEF IsSlice
<1>12. \A i \in 1 .. m + 1 : kids[i] \in M <=> i > h
  BY <1>1, <1>4, <1>6
<1>13. ASSUME NEW j \in 1 .. h
       PROVE  LinkOrdered(qs, t, p, j)
  <2> DEFINE c == kids[j]
  <2>1. j \in 1 .. m + 1 /\ j # m + 1 /\ ~(j > h) /\ h \in Int
    BY <1>1, <1>6
  <2>2. /\ c \in A /\ ps[c].parent = p /\ c \notin M
        /\ s.lo[c] = Lower(keys, lo, j) /\ s.hi[c] = Upper(keys, hi, j)
        /\ s.height[p] = s.height[c] + 1
    BY <1>3, <1>12, <2>1
  <2>3. Lower(qs[p].keys, lo, j) = Lower(keys, lo, j)
    <3>1. j = 1 \/ j - 1 \in 1 .. h - 1
      BY <2>1
    <3> QED
      BY <1>8, <3>1 DEF Lower
  <2>4. Upper(keys, hi, j) = keys[j]
    BY <2>1 DEF Upper, m
  <2>5. Upper(qs[p].keys, up, j) = keys[j]
    <3>1. j = h \/ (j # h /\ j \in 1 .. h - 1)
      BY <2>1
    <3> QED
      BY <1>8, <2>1, <3>1 DEF Upper, up
  <2>6. qs[c].parent = p /\ qs[p].children[j] = c
    BY <1>6, <1>10, <2>2
  <2>7. t.lo[c] = s.lo[c] /\ t.up[c] = s.hi[c] /\ t.height[c] = s.height[c]
    BY <1>7, <2>2
  <2> HIDE DEF c
  <2> QED
    BY <1>7, <2>2, <2>3, <2>4, <2>5, <2>6, <2>7 DEF LinkOrdered
<1>14. ASSUME NEW j \in 1 .. m + 1 - h
       PROVE  LinkOrdered(qs, t, n, j)
  <2> DEFINE i == h + j
             c == kids[i]
  <2>1. i \in 1 .. m + 1 /\ i > h /\ i # 1 /\ i - 1 = h + (j - 1) /\ h \in Int
    BY <1>1, <1>6
  <2>2. /\ c \in A /\ c \in M
        /\ s.lo[c] = Lower(keys, lo, i) /\ s.hi[c] = Upper(keys, hi, i)
        /\ s.height[p] = s.height[c] + 1
    BY <1>3, <1>12, <2>1
  <2>3. Lower(qs[n].keys, up, j) = Lower(keys, lo, i)
    <3>1. Lower(keys, lo, i) = keys[i - 1]
      BY <2>1 DEF Lower
    <3>2. CASE j = 1
      <4>1. i - 1 = h
        BY <2>1, <3>2
      <4> QED
        BY <3>1, <3>2, <4>1 DEF Lower, up
    <3>3. CASE j # 1
      <4>1. j - 1 \in 1 .. m - h
        BY <1>1, <1>6, <3>3
      <4>2. qs[n].keys[j - 1] = keys[h + (j - 1)]
        BY <1>9, <4>1
      <4> QED
        BY <2>1, <3>1, <3>3, <4>2 DEF Lower
    <3> QED
      BY <3>2, <3>3
  <2>4. Upper(qs[n].keys, hi, j) = Upper(keys, hi, i)
    <3>1. CASE j = m - h + 1
      <4>1. i = m + 1
        BY <1>1, <1>6, <3>1
      <4> QED
        BY <1>9, <3>1, <4>1 DEF Upper, m
    <3>2. CASE j # m - h + 1
      <4>1. i # m + 1 /\ j \in 1 .. m - h
        BY <1>1, <1>6, <3>2
      <4>2. qs[n].keys[j] = keys[i]
        BY <1>9, <4>1
      <4> HIDE DEF i
      <4> QED
        BY <1>9, <3>2, <4>1, <4>2 DEF Upper, m
    <3> QED
      BY <3>1, <3>2
  <2>6. qs[c].parent = n /\ qs[n].children[j] = c
    BY <1>6, <1>11, <2>2
  <2>7. t.lo[c] = s.lo[c] /\ t.up[c] = s.hi[c] /\ t.height[c] = s.height[c]
    BY <1>7, <2>2
  <2> HIDE DEF c, i
  <2> QED
    BY <1>7, <2>2, <2>3, <2>4, <2>6, <2>7 DEF LinkOrdered
<1>15. /\ up \in Int /\ lo < up /\ up < hi
       /\ \A i \in 1 .. h - 1 : keys[i] < up
       /\ \A i \in h + 1 .. m : up < keys[i]
  <2>0. m \in Int /\ h \in Int /\ 1 <= h /\ h <= m
    BY <1>1, <1>6
  <2>1. /\ \A i \in 1 .. h - 1 : i \in 1 .. m /\ i < h
        /\ \A i \in h + 1 .. m : i \in 1 .. m /\ h < i
    BY <2>0
  <2>2. \A i \in 1 .. m : (i < h => keys[i] < keys[h]) /\ (h < i => keys[h] < keys[i])
    BY <1>2, <1>6 DEF Ascending, m
  <2> QED
    BY <1>1, <1>2, <1>6, <2>1, <2>2 DEF up
<1>16. NodeOrdered(qs[p], lo, up)
  <2> SUFFICES ASSUME NEW j \in 1 .. h - 1
               PROVE  lo < qs[p].keys[j] /\ qs[p].keys[j] <= up /\ qs[p].keys[j] < up
    BY <1>8 DEF NodeOrdered, Within
  <2>1. j \in 1 .. m /\ keys[j] \in Int
    BY <1>1, <1>6
  <2> QED
    BY <1>2, <1>8, <1>15, <2>1
<1>17. NodeOrdered(qs[n], up, hi)
  <2> SUFFICES ASSUME NEW j \in 1 .. m - h
               PROVE  up < qs[n].keys[j] /\ qs[n].keys[j] <= hi /\ qs[n].keys[j] < hi
    BY <1>9 DEF NodeOrdered, Within
  <2>3. m \in Nat /\ h \in 1 .. m
    BY <1>1, <1>6
  <2>4. h + j \in h + 1 .. m /\ h + j \in 1 .. m
    BY <2>3
  <2>1. h + j \in h + 1 .. m /\ h + j \in 1 .. m /\ keys[h + j] \in Int
    BY <1>1, <2>4
  <2>2. qs[n].keys[j] = keys[h + j] /\ up < keys[h + j] /\ keys[h + j] < hi
    BY <1>2, <1>9, <1>15, <2>1
  <2> QED
    BY <1>2, <2>1, <2>2
<1>18. /\ M \in SUBSET A /\ p \notin M
  <2>1. \A i \in h + 1 .. m + 1 : i \in 1 .. m + 1
    BY <1>1, <1>6
  <2> QED
    BY <1>3, <1>6, <2>1
<1>19. \A q \in M : ps[q].parent = p /\ HasChild(qs, n, q)
  <2> SUFFICES ASSUME NEW i \in h + 1 .. m + 1
               PROVE  ps[kids[i]].parent = p /\ HasChild(qs, n, kids[i])
    BY <1>6
  <2>1. i \in 1 .. m + 1 /\ i - h \in 1 .. m + 1 - h /\ h + (i - h) = i
    BY <1>1, <1>6
  <2>2. qs[n].children[i - h] = kids[i]
    BY <1>11, <2>1
  <2> QED
    BY <1>3, <1>11, <2>1, <2>2 DEF HasChild
<1>20. \A q \in A \ M : q # root /\ ps[q].parent = p => HasChild(qs, p, q)
  <2> SUFFICES ASSUME NEW q \in A, q \notin M, q # root, ps[q].parent = p
               PROVE  HasChild(qs, p, q)
    OBVIOUS
  <2>1. PICK i \in 1 .. m + 1 : kids[i] = q
    BY <1>21
  <2>2. i \in 1 .. h
    BY <1>1, <1>6, <1>12, <2>1
  <2> QED
    BY <1>10, <2>1, <2>2 DEF HasChild
<1>22. HalvesOrdered(ps, qs, A, n, root, s, t, p, up, M)
  BY <1>10, <1>11, <1>13, <1>14, <1>15, <1>16, <1>17, <1>19, <1>20
     DEF HalvesOrdered, lo, hi
<1> QED
  BY <1>15, <1>18, <1>22 DEF up, keys, InnerHalvesInOrder

(***************************************************************************)
(* A new root over the two halves of the old one, l and r.                 *)
(***************************************************************************)
RootAdded(ps, qs, A, n, l, r, up) ==
  /\ qs[n].kind = "inner" /\ qs[n].parent = NODE_PARENT_INVALID
  /\ qs[n].keys = <<up>> /\ qs[n].children = <<l, r>>
  /\ \A q \in A :
       /\ qs[q].kind = ps[q].kind /\ qs[q].keys = ps[q].keys
       /\ qs[q].children = ps[q].children
       /\ qs[q].parent = IF q = l \/ q = r THEN n ELSE ps[q].parent

IsRaised(t, s, n, l) ==
  /\ t \in Shapes /\ t.up = t.hi
  /\ t.lo[n] = -1 /\ t.hi[n] = UINT32_MAX /\ t.height[n] = s.height[l] + 1
  /\ \A q \in PageId : q # n =>
       t.lo[q] = s.lo[q] /\ t.hi[q] = s.hi[q] /\ t.height[q] = s.height[q]

LEMMA RaisedShape ==
  ASSUME NEW s \in Shapes, NEW n \in PageId, NEW l \in PageId
  PROVE  \E t : IsRaised(t, s, n, l)
<1> DEFINE hi == [s.hi EXCEPT ![n] = UINT32_MAX]
           t  == [lo |-> [s.lo EXCEPT ![n] = -1], hi |-> hi, up |-> hi,
                  height |-> [s.height EXCEPT ![n] = s.height[l] + 1]]
<1>1. /\ s.lo \in [PageId -> Int] /\ s.hi \in [PageId -> Int]
      /\ s.height \in [PageId -> Nat] /\ UINT32_MAX \in Int
  BY InputAssumption DEF Shapes
<1>2. /\ t.lo = [s.lo EXCEPT ![n] = -1] /\ t.hi = hi /\ t.up = hi
      /\ t.height = [s.height EXCEPT ![n] = s.height[l] + 1]
      /\ t = [lo |-> t.lo, hi |-> t.hi, up |-> t.up, height |-> t.height]
  OBVIOUS
<1>3. /\ hi \in [PageId -> Int] /\ hi[n] = UINT32_MAX
      /\ \A q \in PageId : q # n => hi[q] = s.hi[q]
  BY <1>1
<1> HIDE DEF t, hi
<1>4. /\ t.lo \in [PageId -> Int] /\ t.lo[n] = -1
      /\ \A q \in PageId : q # n => t.lo[q] = s.lo[q]
  BY <1>1, <1>2
<1>5. /\ t.height \in [PageId -> Nat] /\ t.height[n] = s.height[l] + 1
      /\ \A q \in PageId : q # n => t.height[q] = s.height[q]
  BY <1>1, <1>2
<1>6. t \in Shapes
  <2>1. t.hi \in [PageId -> Int] /\ t.up \in [PageId -> Int]
    BY <1>2, <1>3
  <2> QED
    BY <1>2, <1>4, <1>5, <2>1 DEF Shapes
<1>7. IsRaised(t, s, n, l)
  BY <1>2, <1>3, <1>4, <1>5, <1>6 DEF IsRaised
<1> QED
  BY <1>7

LEMMA RootGrows ==
  ASSUME NEW ps, NEW A, NEW root, NEW s \in Shapes, WellLinked(ps, A, root),
         TreeShape(ps, A, root, s), NEW n \in PageId, n \notin A,
         NEW c, ClimbShape(c, ps, s), c.left = root, c.right \in A,
         c.key_upward \in Key,
         NEW qs, RootAdded(ps, qs, A, n, c.left, c.right, c.key_upward),
         NEW t, IsRaised(t, s, n, c.left)
  PROVE  TreeShape(qs, A \cup {n}, n, t)
<1> DEFINE l  == c.left
           r  == c.right
           up == c.key_upward
<1>1. /\ l \in A /\ r \in A /\ l = root
      /\ up \in Int /\ n # Unwritten
      /\ \A q \in A : q \in PageId /\ q # n
      /\ \A q \in A \cup {n} : q \in A \/ q = n
  <2>1. A \in SUBSET PageId /\ l \in A
    BY DEF WellLinked
  <2> QED
    BY <2>1, PageAssumption, InputAssumption DEF PageId, Key
<1>2. /\ ps[l].parent = NODE_PARENT_INVALID /\ ps[r].parent = Unwritten /\ l # r
      /\ s.lo[l] = -1 /\ s.up[l] = UINT32_MAX
  BY <1>1, PageAssumption DEF TreeShape, RootShape, ClimbShape
<1>3. /\ up = s.hi[l] /\ up = s.lo[r] /\ s.lo[l] < up /\ up < s.hi[r]
      /\ s.hi[r] = s.up[l] /\ s.height[l] = s.height[r]
      /\ \A q \in A : q # l => s.up[q] = s.hi[q]
  BY <1>1 DEF ClimbShape, Shapes
<1>4. /\ qs[n].kind = "inner" /\ qs[n].parent = NODE_PARENT_INVALID
      /\ qs[n].keys = <<up>> /\ qs[n].children = <<l, r>>
      /\ \A q \in A :
           /\ qs[q].kind = ps[q].kind /\ qs[q].keys = ps[q].keys
           /\ qs[q].children = ps[q].children
           /\ qs[q].parent = IF q = l \/ q = r THEN n ELSE ps[q].parent
  BY DEF RootAdded
<1>5. /\ t \in Shapes /\ t.up = t.hi
      /\ t.lo[n] = -1 /\ t.hi[n] = UINT32_MAX /\ t.height[n] = s.height[l] + 1
      /\ \A q \in A :
           t.lo[q] = s.lo[q] /\ t.hi[q] = s.hi[q] /\ t.height[q] = s.height[q]
  BY <1>1 DEF IsRaised
<1> HIDE DEF l, r, up
<1>6. PageShape(qs, n, t, n)
  <2>1. NodeOrdered(qs[n], -1, UINT32_MAX)
    <3>1. Len(qs[n].keys) = 1 /\ qs[n].keys[1] = up
      BY <1>4
    <3>2. -1 < up /\ up < UINT32_MAX /\ up <= UINT32_MAX
      BY <1>1, <1>2, <1>3, InputAssumption
    <3>3. \A i \in 1 .. 1 : i = 1
      OBVIOUS
    <3> QED
      BY <3>1, <3>2, <3>3 DEF NodeOrdered, Ascending, Within
  <2>2. Len(qs[n].children) = 2 /\ qs[n].children[1] = l /\ qs[n].children[2] = r
    BY <1>4
  <2>3. /\ Lower(<<up>>, -1, 1) = -1 /\ Upper(<<up>>, UINT32_MAX, 1) = up
        /\ Lower(<<up>>, -1, 2) = up /\ Upper(<<up>>, UINT32_MAX, 2) = UINT32_MAX
    BY DEF Lower, Upper
  <2>4. LinkOrdered(qs, t, n, 1)
    <3>1. /\ qs[l].parent = n /\ t.lo[l] = t.lo[n] /\ t.up[l] = up
          /\ t.height[n] = t.height[l] + 1
      <4>1. t.lo[l] = s.lo[l] /\ t.hi[l] = s.hi[l] /\ t.height[l] = s.height[l]
        BY <1>1, <1>5
      <4>2. t.lo[l] = t.lo[n]
        BY <1>2, <1>5, <4>1
      <4>3. t.up[l] = up
        BY <1>3, <1>5, <4>1
      <4>4. t.height[n] = t.height[l] + 1
        BY <1>5, <4>1
      <4> QED
        BY <1>1, <1>4, <4>2, <4>3, <4>4
    <3>2. /\ Lower(qs[n].keys, t.lo[n], 1) = t.lo[n]
          /\ Upper(qs[n].keys, t.hi[n], 1) = up
      BY <1>4, <1>5, <2>3 DEF Lower
    <3> QED
      BY <2>2, <3>1, <3>2 DEF LinkOrdered
  <2>5. LinkOrdered(qs, t, n, 2)
    BY <1>1, <1>2, <1>3, <1>4, <1>5, <2>2, <2>3 DEF LinkOrdered
  <2>6. \A i \in 1 .. Len(qs[n].children) : LinkOrdered(qs, t, n, i)
    <3>1. \A i \in 1 .. 2 : i = 1 \/ i = 2
      OBVIOUS
    <3> QED
      BY <2>2, <2>4, <2>5, <3>1
  <2> QED
    BY <1>4, <1>5, <2>1, <2>6 DEF PageShape
<1>7. ASSUME NEW q \in A
      PROVE  PageShape(qs, n, t, q)
  <2>1. PageShape(ps, root, s, q)
    BY ShapeOfPage
  <2>2. NodeOrdered(qs[q], t.lo[q], t.hi[q]) /\ (qs[q].kind = "leaf" => t.height[q] = 0)
    BY <1>4, <1>5, <2>1 DEF PageShape, NodeOrdered, Within
  <2>3. ASSUME qs[q].kind = "inner"
        PROVE  \A i \in 1 .. Len(qs[q].children) : LinkOrdered(qs, t, q, i)
    <3>1. /\ ps[q].kind = "inner"
          /\ qs[q].keys = ps[q].keys /\ qs[q].children = ps[q].children
      BY <1>4, <2>3
    <3>2. ASSUME NEW i \in 1 .. Len(ps[q].keys) + 1
          PROVE  LinkKept(qs, s, t, q, ps[q].children[i])
      <4> DEFINE ch == ps[q].children[i]
      <4>1. /\ ch \in A /\ ch # l
            /\ ps[ch].parent = q /\ ps[ch].parent # Unwritten
        BY <1>1, <3>1, ShapeOfLink
      <4>2. ch # r
        BY <1>2, <4>1
      <4> HIDE DEF ch
      <4>3. qs[ch].parent = q
        BY <1>4, <4>1, <4>2
      <4>4. t.lo[ch] = s.lo[ch] /\ t.up[ch] = s.up[ch] /\ t.height[ch] = s.height[ch]
        BY <1>3, <1>5, <4>1, <4>2
      <4> QED
        BY <4>3, <4>4 DEF ch, LinkKept
    <3>3. t.lo[q] = s.lo[q] /\ t.hi[q] = s.hi[q] /\ t.height[q] = s.height[q]
      BY <1>5
    <3> QED
      BY <3>1, <3>2, <3>3, SameLinks
  <2>4. ASSUME qs[q].parent # Unwritten
        PROVE  IsChild(qs, q)
    <3>1. CASE q = l
      <4>1. 1 \in 1 .. Len(qs[n].children) /\ qs[n].children[1] = q
        BY <1>4, <3>1
      <4> QED
        BY <1>4, <3>1, <4>1 DEF IsChild
    <3>2. CASE q = r
      <4>1. 2 \in 1 .. Len(qs[n].children) /\ qs[n].children[2] = q
        BY <1>4, <3>2
      <4> QED
        BY <1>4, <3>2, <4>1 DEF IsChild
    <3>3. CASE q # l /\ q # r
      <4>1. qs[q].parent = ps[q].parent /\ ps[q].parent # Unwritten /\ q # root
        BY <1>1, <1>4, <2>4, <3>3
      <4>2. ps[q].parent \in A /\ IsChild(ps, q)
        BY <2>1, <4>1, LinkedPage DEF PageShape
      <4>3. qs[ps[q].parent].children = ps[ps[q].parent].children
        BY <1>4, <4>2
      <4> QED
        BY <4>1, <4>2, <4>3 DEF IsChild
    <3> QED
      BY <3>1, <3>2, <3>3
  <2> QED
    BY <2>2, <2>3, <2>4 DEF PageShape
<1>8. RootShape(qs, n, t)
  BY <1>4, <1>5 DEF RootShape
<1>9. LeavesApart(qs, A \cup {n}, t)
  <2> SUFFICES ASSUME NEW a \in A \cup {n}, NEW b \in A \cup {n}, a # b,
                      qs[a].kind = "leaf", qs[b].kind = "leaf"
               PROVE  t.hi[a] <= t.lo[b] \/ t.hi[b] <= t.lo[a]
    BY DEF LeavesApart
  <2>1. a \in A /\ b \in A
    BY <1>1, <1>4
  <2>2. s.hi[a] <= s.lo[b] \/ s.hi[b] <= s.lo[a]
    BY <1>4, <2>1 DEF TreeShape, LeavesApart
  <2> QED
    BY <1>5, <2>1, <2>2
<1> QED
  BY <1>1, <1>6, <1>7, <1>8, <1>9 DEF TreeShape

------------------------------------------------------------------------------
(***************************************************************************)
(* The steps of the specification.  Most of them leave the pages alone.    *)
(***************************************************************************)
IsShape(s) ==
  /\ s \in Shapes
  /\ TreeShape(pages, Allocated, root_pid, s)
  /\ CallShape(call, pages, s)

LEMMA InitShape ==
  ASSUME Init
  PROVE  ShapeInv
<1> DEFINE s == [lo |-> [p \in PageId |-> -1], hi |-> [p \in PageId |-> UINT32_MAX],
                 up |-> [p \in PageId |-> UINT32_MAX], height |-> [p \in PageId |-> 0]]
<1>1. 0 \in PageId /\ UINT32_MAX \in Int
  BY PageAssumption, InputAssumption DEF PageId
<1>2. s \in Shapes
  BY <1>1 DEF Shapes
<1>3. /\ s.lo[0] = -1 /\ s.hi[0] = UINT32_MAX /\ s.up[0] = UINT32_MAX
      /\ s.height[0] = 0 /\ s.up = s.hi
  BY <1>1
<1> HIDE DEF s
<1>4. /\ pages[0].kind = "leaf" /\ pages[0].keys = <<>>
      /\ pages[0].parent = NODE_PARENT_INVALID
      /\ num_pages = 1 /\ root_pid = 0
  BY <1>1 DEF Init, LeafNode
<1>5. PageShape(pages, 0, s, 0)
  BY <1>3, <1>4 DEF PageShape, NodeOrdered, Ascending, Within
<1>6. RootShape(pages, 0, s)
  BY <1>3, <1>4 DEF RootShape
<1>7. LeavesApart(pages, {0}, s)
  BY <1>1 DEF LeavesApart
<1>8. TreeShape(pages, {0}, 0, s)
  BY <1>1, <1>5, <1>6, <1>7 DEF TreeShape
<1>9. CallShape(call, pages, s)
  BY <1>3 DEF CallShape, Init, Idle
<1> QED
  BY <1>2, <1>4, <1>8, <1>9, InitIndInv DEF ShapeInv

LEMMA QuietShape ==
  ASSUME NEW s, IsShape(s), UNCHANGED <<pages, root_pid, num_pages>>,
         call'.pc # "climb", s.up = s.hi,
         call'.pc = "find" =>
           s.lo[call'.page_id] < call'.key /\ call'.key <= s.hi[call'.page_id]
  PROVE  ShapeInv'
<1>1. s \in Shapes' /\ TreeShape(pages', Allocated', root_pid', s)
  BY DEF IsShape, Shapes, PageId, Allocated
<1>2. CallShape(call', pages', s)
  BY DEF CallShape
<1> QED
  BY <1>1, <1>2 DEF ShapeInv

\* The child find descends into covers the key it looks for.
LEMMA SlotBounds ==
  ASSUME NEW keys \in Seq(Key), Ascending(keys), NEW key \in Int, NEW lo \in Int,
         NEW hi \in Int, lo < key, key <= hi,
         NEW pos \in 0 .. Len(keys), IsKeyPosition(keys, key, pos),
         NEW i, i = ChildSlot(keys, key, pos)
  PROVE  i \in 1 .. Len(keys) + 1 /\ Lower(keys, lo, i) < key /\ key <= Upper(keys, hi, i)
<1>1. Len(keys) \in Nat /\ \A j \in 1 .. Len(keys) : keys[j] \in Int
  BY LenProperties, ElementOfSeq, InputAssumption DEF Key
<1>2. CASE HasKeyAt(keys, key, pos)
  <2>1. i = pos /\ pos \in 1 .. Len(keys) /\ pos # Len(keys) + 1 /\ keys[pos] = key
    BY <1>1, <1>2 DEF HasKeyAt, ChildSlot
  <2>2. pos = 1 \/ (pos # 1 /\ keys[pos - 1] < keys[pos])
    <3>1. pos = 1 \/ (pos # 1 /\ pos - 1 \in 1 .. Len(keys) /\ pos - 1 < pos)
      BY <1>1, <2>1
    <3> QED
      BY <2>1, <3>1 DEF Ascending
  <2> QED
    BY <1>1, <2>1, <2>2 DEF Lower, Upper
<1>3. CASE ~HasKeyAt(keys, key, pos)
  <2>1. i = pos + 1
    BY <1>3 DEF ChildSlot
  <2>2. pos = 0 \/ (pos # 0 /\ pos \in 1 .. Len(keys) /\ keys[pos] < key)
    <3>1. pos = 0 \/ (pos # 0 /\ pos \in 1 .. Len(keys) /\ pos \in 1 .. pos /\ pos > 0)
      BY <1>1
    <3> QED
      BY <1>1, <1>3, <3>1 DEF IsKeyPosition, HasKeyAt
  <2>3. pos = Len(keys) \/ (pos # Len(keys) /\ key < keys[pos + 1])
    <3>1. pos = Len(keys) \/ (pos # Len(keys) /\ pos + 1 \in pos + 1 .. Len(keys))
      BY <1>1
    <3> QED
      BY <3>1 DEF IsKeyPosition
  <2>4. Lower(keys, lo, i) < key
    BY <1>1, <2>1, <2>2 DEF Lower
  <2>5. key <= Upper(keys, hi, i)
    <3>1. pos = Len(keys) \/ (pos + 1 \in 1 .. Len(keys) /\ pos + 1 # Len(keys) + 1)
      BY <1>1
    <3> QED
      BY <1>1, <2>1, <2>3, <3>1 DEF Upper
  <2> QED
    BY <1>1, <2>1, <2>4, <2>5
<1> QED
  BY <1>2, <1>3

LEMMA FindShape ==
  ASSUME IndInv, NEW s, IsShape(s), call.pc = "find"
  PROVE  LET p == call.page_id IN
         /\ s \in Shapes /\ s.up = s.hi
         /\ TreeShape(pages, Allocated, root_pid, s)
         /\ WellLinked(pages, Allocated, root_pid)
         /\ p \in Allocated /\ call.key \in Key /\ call.key \in Int
         /\ s.lo[p] < call.key /\ call.key <= s.hi[p]
         /\ pages[p].keys \in Seq(Key)
         /\ NodeOrdered(pages[p], s.lo[p], s.hi[p])
<1>1. WellLinked(pages, Allocated, root_pid)
  BY PagesAreWellLinked DEF IndInv
<1>2. call.page_id \in Allocated /\ call.key \in Key
  BY FindCall DEF IndInv
<1>3. /\ s \in Shapes /\ s.up = s.hi
      /\ TreeShape(pages, Allocated, root_pid, s)
      /\ s.lo[call.page_id] < call.key /\ call.key <= s.hi[call.page_id]
  BY DEF IsShape, CallShape
<1>4. PageShape(pages, root_pid, s, call.page_id)
  BY <1>1, <1>2, <1>3, ShapeOfPage
<1>5. pages[call.page_id].keys \in Seq(Key) /\ call.key \in Int
  BY <1>1, <1>2, LinkedPage, InputAssumption DEF Key
<1> QED
  BY <1>1, <1>2, <1>3, <1>4, <1>5 DEF PageShape

LEMMA InsertShape ==
  ASSUME IndInv, ShapeInv, NEW key \in Key, NEW row \in Row, Insert(key, row)
  PROVE  ShapeInv'
<1>1. PICK s : IsShape(s)
  BY DEF ShapeInv, IsShape
<1>2. /\ call.pc = "idle" /\ call'.pc = "find" /\ call'.key = key
      /\ call'.page_id = root_pid /\ UNCHANGED <<pages, root_pid, num_pages>>
  BY DEF Insert, Idle, Find
<1>3. s.up = s.hi /\ s.lo[root_pid] = -1 /\ s.up[root_pid] = UINT32_MAX
  BY <1>1, <1>2 DEF IsShape, CallShape, TreeShape, RootShape
<1>4. -1 < key /\ key <= UINT32_MAX
  BY InputAssumption DEF Key
<1> QED
  BY <1>1, <1>2, <1>3, <1>4, QuietShape

LEMMA DescendShape ==
  ASSUME IndInv, ShapeInv, Descend
  PROVE  ShapeInv'
<1> DEFINE p    == call.page_id
           keys == pages[p].keys
<1>1. PICK s : IsShape(s)
  BY DEF ShapeInv, IsShape
<1>2. call.pc = "find" /\ pages[p].kind = "inner"
  BY DEF Descend
<1>3. PICK pos \in 0 .. Len(keys) :
        /\ IsKeyPosition(keys, call.key, pos)
        /\ call' = [call EXCEPT
             !.page_id = pages[p].children[ChildSlot(keys, call.key, pos)]]
  BY DEF Descend
<1>4. /\ s \in Shapes /\ s.up = s.hi
      /\ TreeShape(pages, Allocated, root_pid, s)
      /\ WellLinked(pages, Allocated, root_pid)
      /\ p \in Allocated /\ call.key \in Int
      /\ s.lo[p] < call.key /\ call.key <= s.hi[p]
      /\ keys \in Seq(Key) /\ Ascending(keys)
  BY <1>1, <1>2, FindShape DEF NodeOrdered
<1>5. s.lo[p] \in Int /\ s.hi[p] \in Int
  BY <1>4, ShapeOfPage
<1> DEFINE i == ChildSlot(keys, call.key, pos)
<1>6. call.pc = "find" /\ call'.pc = "find" /\ call'.key = call.key
      /\ call'.page_id = pages[p].children[i]
  <2>1. call = [pc |-> "find", key |-> call.key, row |-> call.row, page_id |-> p]
    BY <1>2 DEF IndInv, Call
  <2> QED
    BY <1>3, <2>1
<1>7. /\ i \in 1 .. Len(keys) + 1
      /\ Lower(keys, s.lo[p], i) < call.key /\ call.key <= Upper(keys, s.hi[p], i)
  BY <1>3, <1>4, <1>5, SlotBounds
<1> HIDE DEF i
<1>8. /\ s.lo[call'.page_id] = Lower(keys, s.lo[p], i)
      /\ s.up[call'.page_id] = Upper(keys, s.hi[p], i)
  <2> DEFINE c == call'.page_id
  <2>1. /\ c = pages[p].children[i] /\ i \in 1 .. Len(pages[p].keys) + 1
        /\ pages[p].kind = "inner"
    BY <1>2, <1>6, <1>7
  <2> HIDE DEF c
  <2>3. /\ s \in Shapes /\ TreeShape(pages, Allocated, root_pid, s)
        /\ WellLinked(pages, Allocated, root_pid) /\ p \in Allocated
    BY <1>4
  <2> HIDE DEF p, keys
  <2>2. /\ s.lo[c] = Lower(pages[p].keys, s.lo[p], i)
        /\ s.up[c] = Upper(pages[p].keys, s.hi[p], i)
    BY <2>1, <2>3, ShapeOfChild
  <2> QED
    BY <2>2 DEF c, keys
<1>9. UNCHANGED <<pages, root_pid, num_pages>>
  BY DEF Descend
<1> QED
  BY <1>1, <1>4, <1>6, <1>7, <1>8, <1>9, QuietShape

\* A leaf with the new cell is in order.
LeafIsOver(over, s, pos) ==
  LET p == call.page_id IN
  /\ IsNode(over, Allocated) /\ SameHeader(over, pages[p]) /\ over.kind = "leaf"
  /\ over.keys \in Seq(Key) /\ Len(over.keys) = Len(pages[p].keys) + 1
  /\ NodeOrdered(over, s.lo[p], s.hi[p])

LEMMA LeafOver ==
  ASSUME IndInv, NEW s, IsShape(s), NEW pos \in LeafPositions,
         AtLeaf(pos), ~IsDuplicate(pos)
  PROVE  LeafIsOver(LeafWithCell(pages[call.page_id], call.key, call.row, pos), s, pos)
<1> DEFINE p    == call.page_id
           keys == pages[p].keys
           over == LeafWithCell(pages[p], call.key, call.row, pos)
<1>1. /\ call.pc = "find" /\ p \in Allocated /\ pages[p].kind = "leaf"
      /\ pos \in 0 .. Len(keys)
      /\ IsKeyPosition(keys, call.key, pos) /\ ~HasKeyAt(keys, call.key, pos)
  BY FoundPosition DEF AtLeaf, IsDuplicate
<1>2. /\ IsNode(pages[p], Allocated) /\ call.key \in Key /\ call.row \in Row
      /\ pages[p] \in Node
  BY <1>1, PageFacts, FindCall DEF IndInv
<1>3. /\ IsNode(over, Allocated) /\ SameHeader(over, pages[p])
      /\ Len(over.keys) = Len(keys) + 1
  BY <1>1, <1>2, LeafWithCellIsNode
<1>4. over.keys = InsertAt(keys, pos + 1, call.key)
  BY <1>2 DEF LeafWithCell, Node
<1> HIDE DEF over
<1>5. over.kind = "leaf" /\ over.keys \in Seq(Key)
  BY <1>1, <1>3 DEF SameHeader, IsNode, Node
<1>6. /\ s \in Shapes /\ keys \in Seq(Key) /\ call.key \in Int
      /\ s.lo[p] < call.key /\ call.key <= s.hi[p]
      /\ NodeOrdered(pages[p], s.lo[p], s.hi[p])
  BY <1>1, FindShape
<1>7. /\ Ascending(over.keys)
      /\ \A j \in 1 .. Len(over.keys) :
           over.keys[j] = call.key \/ \E i \in 1 .. Len(keys) : over.keys[j] = keys[i]
  <2>1. /\ Ascending(keys) /\ keys \in Seq(Key) /\ call.key \in Key
        /\ pos \in 0 .. Len(keys) /\ IsKeyPosition(keys, call.key, pos)
        /\ ~HasKeyAt(keys, call.key, pos)
    BY <1>1, <1>2, <1>6 DEF NodeOrdered
  <2> HIDE DEF keys
  <2> DEFINE new == InsertAt(keys, pos + 1, call.key)
  <2>2. /\ Ascending(new)
        /\ \A j \in 1 .. Len(new) :
             new[j] = call.key \/ \E i \in 1 .. Len(keys) : new[j] = keys[i]
    BY <2>1, InsertAscending
  <2> QED
    BY <1>4, <2>2
<1>8. Within(over, s.lo[p], s.hi[p])
  BY <1>1, <1>5, <1>6, <1>7 DEF NodeOrdered, Within
<1> QED
  BY <1>3, <1>5, <1>7, <1>8 DEF LeafIsOver, NodeOrdered, over

LEMMA LeafInsertShape ==
  ASSUME IndInv, ShapeInv, LeafInsert
  PROVE  ShapeInv'
<1> DEFINE p == call.page_id
<1>1. PICK s : IsShape(s)
  BY DEF ShapeInv, IsShape
<1>2. PICK pos \in LeafPositions :
        /\ AtLeaf(pos) /\ ~IsDuplicate(pos)
        /\ pages' = [pages EXCEPT ![p] = LeafWithCell(@, call.key, call.row, pos)]
  BY DEF LeafInsert
<1> DEFINE over == LeafWithCell(pages[p], call.key, call.row, pos)
<1>3. LeafIsOver(over, s, pos) /\ call.pc = "find" /\ pages[p].kind = "leaf"
  BY <1>1, <1>2, LeafOver DEF AtLeaf
<1>4. pages' = [pages EXCEPT ![p] = over]
  BY <1>2
<1> HIDE DEF over
<1>5. /\ s \in Shapes /\ s.up = s.hi /\ WellLinked(pages, Allocated, root_pid)
      /\ TreeShape(pages, Allocated, root_pid, s)
      /\ p \in Allocated
  BY <1>1, <1>3, FindShape
<1>6. DOMAIN pages = PageId /\ \A q \in Allocated : q \in PageId
  BY <1>5, LinkedPage DEF IndInv, PagesInv
<1>7. pages'[p] = over /\ \A q \in Allocated : q # p => pages'[q] = pages[q]
  BY <1>4, <1>5, <1>6
<1>8. TreeShape(pages', Allocated, root_pid, s)
  BY <1>3, <1>5, <1>7, LeafGrows DEF LeafIsOver
<1>9. CallShape(call', pages', s)
  BY <1>5 DEF LeafInsert, Return, Idle, CallShape
<1>10. num_pages' = num_pages /\ root_pid' = root_pid /\ s \in Shapes'
  BY <1>5 DEF LeafInsert, Shapes, PageId
<1>11. Allocated' = Allocated
  BY LeafInsertStep DEF PagesKept
<1> QED
  BY <1>8, <1>9, <1>10, <1>11 DEF ShapeInv

\* Rewriting a node keeps the pages linked.
LEMMA RewriteLinked ==
  ASSUME NEW ps, NEW A, NEW root, WellLinked(ps, A, root),
         NEW p \in A, NEW qs, IsNode(qs[p], A),
         SameHeader(qs[p], ps[p]), \A q \in A : q # p => qs[q] = ps[q]
  PROVE  WellLinked(qs, A, root)
<1>1. \A q \in A : qs[q].kind = ps[q].kind /\ qs[q].parent = ps[q].parent
  BY DEF SameHeader
<1>2. \A q \in A : IsNode(qs[q], A)
  BY DEF WellLinked
<1> QED
  BY <1>1, <1>2 DEF WellLinked

LEMMA LeafSplitShape ==
  ASSUME IndInv, ShapeInv, LeafSplit
  PROVE  ShapeInv'
<1> DEFINE p == call.page_id
           n == num_pages
<1>1. PICK s : IsShape(s)
  BY DEF ShapeInv, IsShape
<1>2. PICK pos \in LeafPositions, byte \in FreshRootByte :
        /\ AtLeaf(pos) /\ ~IsDuplicate(pos) /\ LeafIsFull
        /\ LET over == LeafWithCell(pages[p], call.key, call.row, pos)
           IN  /\ pages' = [pages EXCEPT
                    ![p] = LeftLeaf(over, LeafLoad),
                    ![n] = RightLeaf(over, LeafLoad, byte, Unwritten)]
               /\ call' = Climb(KeyUpward(over, LeafLoad), p, n, pages[p].parent)
  BY DEF LeafSplit
<1> DEFINE over  == LeafWithCell(pages[p], call.key, call.row, pos)
           left  == LeftLeaf(over, LeafLoad)
           right == RightLeaf(over, LeafLoad, byte, Unwritten)
           up    == KeyUpward(over, LeafLoad)
           h     == LeftLoad(LeafLoad)
<1>3. LeafIsOver(over, s, pos) /\ call.pc = "find" /\ pages[p].kind = "leaf"
  BY <1>1, <1>2, LeafOver DEF AtLeaf
<1>4. pages' = [pages EXCEPT ![p] = left, ![n] = right]
  BY <1>2
<1>5. call' = [pc |-> "climb", key_upward |-> up, left |-> p, right |-> n,
               parent |-> pages[p].parent]
  BY <1>2 DEF Climb
<1> HIDE DEF over
<1>6. /\ s \in Shapes /\ s.up = s.hi /\ WellLinked(pages, Allocated, root_pid)
      /\ TreeShape(pages, Allocated, root_pid, s)
      /\ p \in Allocated
  BY <1>1, <1>3, FindShape
<1>7. /\ n \in Nat /\ n < TABLE_MAX_PAGES /\ n \in PageId /\ p \in PageId /\ p # n
      /\ num_pages' = n + 1 /\ root_pid' = root_pid
      /\ \A q \in Allocated : q \in PageId /\ q # n
      /\ DOMAIN pages = PageId
  BY <1>6, LinkedPage, NextPage DEF LeafSplit, IndInv, PagesInv
<1>8. /\ over \in Node /\ over.kind = "leaf" /\ over.keys \in Seq(Key)
      /\ Len(over.keys) = LeafLoad + 1
      /\ SameHeader(over, pages[p]) /\ IsNode(over, Allocated)
      /\ NodeOrdered(over, s.lo[p], s.hi[p])
  BY <1>2, <1>3 DEF LeafIsOver, IsNode, LeafIsFull
<1>9. h \in Nat /\ LeafLoad \in Nat /\ h - 1 > 0 /\ LeafLoad = 2 * (h - 1)
  BY LoadsAreEven, Halves DEF LeftLoad
<1>10. /\ left.kind = "leaf" /\ left.parent = over.parent
       /\ left.keys = SubSeq(over.keys, 1, h)
       /\ right.kind = "leaf" /\ right.parent = Unwritten
       /\ right.keys = SubSeq(over.keys, h + 1, Len(over.keys))
       /\ up = over.keys[h] /\ left.children = over.children
  <2>1. left = [over EXCEPT !.keys = SubSeq(over.keys, 1, h),
                            !.rows = SubSeq(over.rows, 1, h)]
    BY DEF LeftLeaf
  <2>2. /\ left.kind = over.kind /\ left.parent = over.parent
        /\ left.keys = SubSeq(over.keys, 1, h) /\ left.children = over.children
    BY <1>8, <2>1 DEF Node
  <2>3. /\ right.kind = "leaf" /\ right.parent = Unwritten
        /\ right.keys = SubSeq(over.keys, h + 1, Len(over.keys))
    BY <1>8 DEF RightLeaf, LeafNode
  <2>4. up = over.keys[h]
    BY DEF KeyUpward
  <2> QED
    BY <1>8, <2>2, <2>3, <2>4
<1>11. /\ pages'[p] = left /\ pages'[n] = right
       /\ \A q \in Allocated : q # p => pages'[q] = pages[q]
  BY <1>4, <1>7
<1> HIDE DEF left, right, up, h
<1> DEFINE mid == [pages EXCEPT ![p] = over]
<1>12. mid[p] = over /\ \A q \in Allocated : q # p => mid[q] = pages[q]
  BY <1>7
<1> HIDE DEF mid
<1>13. TreeShape(mid, Allocated, root_pid, s) /\ WellLinked(mid, Allocated, root_pid)
  <2>1. /\ SameHeader(mid[p], pages[p]) /\ IsNode(mid[p], Allocated)
        /\ NodeOrdered(mid[p], s.lo[p], s.hi[p])
    BY <1>8, <1>12
  <2>2. TreeShape(mid, Allocated, root_pid, s)
    BY <1>3, <1>6, <1>12, <2>1, LeafGrows
  <2>3. WellLinked(mid, Allocated, root_pid)
    BY <1>6, <1>12, <2>1, RewriteLinked
  <2> QED
    BY <2>2, <2>3
<1>14. /\ s.lo[p] \in Int /\ s.hi[p] \in Int /\ h \in 1 .. Len(over.keys) - 1
  BY <1>6, <1>8, <1>9, ShapeOfPage
<1>15. /\ NodeOrdered(left, s.lo[p], up) /\ NodeOrdered(right, up, s.hi[p])
       /\ up \in Int /\ s.lo[p] < up /\ up < s.hi[p]
  <2> DEFINE lo == s.lo[p]
             hi == s.hi[p]
  <2>1. /\ lo \in Int /\ hi \in Int /\ NodeOrdered(over, lo, hi)
        /\ over.kind = "leaf" /\ over.keys \in Seq(Key)
        /\ h \in 1 .. Len(over.keys) - 1
        /\ left.kind = "leaf" /\ left.keys = SubSeq(over.keys, 1, h)
        /\ right.kind = "leaf"
        /\ right.keys = SubSeq(over.keys, h + 1, Len(over.keys))
    BY <1>8, <1>10, <1>14
  <2> HIDE DEF lo, hi
  <2>2. /\ NodeOrdered(left, lo, over.keys[h]) /\ NodeOrdered(right, over.keys[h], hi)
        /\ over.keys[h] \in Int /\ lo < over.keys[h] /\ over.keys[h] < hi
    BY <2>1, LeafHalvesOrdered
  <2> QED
    BY <1>10, <2>2 DEF lo, hi
<1>16. PICK t : IsSplit(t, s, p, n, up)
  BY <1>6, <1>7, <1>15, SplitShape
<1>17. Halved(mid, pages', Allocated, n, p, {})
  BY <1>7, <1>8, <1>10, <1>11, <1>12 DEF Halved, SameHeader
<1>18. HalvesOrdered(mid, pages', Allocated, n, root_pid, s, t, p, up, {})
  <2>1. \A q \in Allocated : q # root_pid => mid[q].parent # p
    <3> SUFFICES ASSUME NEW q \in Allocated, q # root_pid, mid[q].parent = p
                 PROVE  FALSE
      OBVIOUS
    <3>1. p # Unwritten
      BY <1>7, PageAssumption DEF PageId
    <3>2. mid[p].kind = "inner"
      BY <1>13, <3>1, LinkedPage
    <3> QED
      BY <1>8, <1>12, <3>2
  <2> QED
    BY <1>10, <1>11, <1>15, <2>1 DEF HalvesOrdered
<1>19. TreeShape(pages', Allocated \cup {n}, root_pid, t)
  <2>1. {} \in SUBSET Allocated /\ n \notin Allocated
    BY <1>7
  <2> QED
    BY <1>6, <1>7, <1>13, <1>15, <1>16, <1>17, <1>18, <2>1, NodeSplits
<1>20. ClimbShape(call', pages', t)
  <2>1. pages[p].parent # n
    <3>1. WellLinked(pages, Allocated, root_pid) /\ p \in Allocated
      BY <1>6
    <3>2. pages[p].parent \in PageId => pages[p].parent \in Allocated
      BY <3>1 DEF WellLinked
    <3> QED
      BY <1>7, <3>2
  <2>2. pages'[p].parent = pages[p].parent
    BY <1>8, <1>10, <1>11 DEF SameHeader
  <2> QED
    BY <1>5, <1>7, <1>10, <1>11, <1>15, <1>16, <2>1, <2>2 DEF ClimbShape, IsSplit
<1>21. CallShape(call', pages', t)
  BY <1>5, <1>20 DEF CallShape
<1>22. t \in Shapes'
  BY <1>16 DEF IsSplit, Shapes, PageId
<1>23. Allocated' = Allocated \cup {n}
  BY LeafSplitStep DEF PageAdded
<1> QED
  BY <1>7, <1>19, <1>21, <1>22, <1>23 DEF ShapeInv

(***************************************************************************)
(* The climb.  What is known when <<left, key_upward, right>> enters the   *)
(* parent, and the pages with the overfull parent.                         *)
(***************************************************************************)
LEMMA ClimbingShape ==
  ASSUME IndInv, NEW s, IsShape(s), call.pc = "climb"
  PROVE  /\ s \in Shapes /\ ClimbShape(call, pages, s)
         /\ TreeShape(pages, Allocated, root_pid, s)
         /\ WellLinked(pages, Allocated, root_pid)
         /\ num_pages \in Nat
         /\ call.left \in Allocated /\ call.right \in Allocated
         /\ call.key_upward \in Key
         /\ call.parent # NODE_PARENT_INVALID => call.parent \in Allocated
         /\ DOMAIN pages = PageId
         /\ \A q \in Allocated : q \in PageId /\ q # num_pages /\ pages[q] \in Node
<1>1. WellLinked(pages, Allocated, root_pid)
  BY PagesAreWellLinked DEF IndInv
<1>2. num_pages \in Nat /\ \A q \in Allocated : q \in 0 .. num_pages - 1
  BY PageAssumption DEF IndInv
<1>3. \A q \in Allocated : q \in PageId /\ q # num_pages /\ pages[q] \in Node
  BY <1>1, <1>2, LinkedPage
<1>4. /\ s \in Shapes /\ ClimbShape(call, pages, s)
      /\ TreeShape(pages, Allocated, root_pid, s)
  BY DEF IsShape, CallShape
<1>5. DOMAIN pages = PageId
  BY DEF IndInv, PagesInv
<1>6. /\ call.left \in Allocated /\ call.right \in Allocated
      /\ call.key_upward \in Key
      /\ call.parent # NODE_PARENT_INVALID => call.parent \in Allocated
  BY ClimbCall DEF IndInv
<1> QED
  BY <1>1, <1>2, <1>3, <1>4, <1>5, <1>6

WithParent(ps, p, node, r) == [ps EXCEPT ![p] = node, ![r].parent = p]

AdoptedShape(qs, s, over) ==
  LET p == call.parent IN
      /\ Adopted(pages, qs, Allocated, p, call.right, over.keys, over.children)
      /\ IsNode(over, Allocated) /\ SameHeader(over, pages[p])
      /\ qs[p] = over
      /\ WellLinked(qs, Allocated, root_pid)
      /\ \E t : IsSettled(t, s) /\ TreeShape(qs, Allocated, root_pid, t)

LEMMA Adoption ==
  ASSUME IndInv, NEW s, IsShape(s), NEW pos \in ParentPositions, AtParent(pos)
  PROVE  LET over == InnerWithKey(pages[call.parent], call.key_upward, call.right, pos)
         IN  AdoptedShape(WithParent(pages, call.parent, over, call.right), s, over)
<1> DEFINE p    == call.parent
           r    == call.right
           l    == call.left
           up   == call.key_upward
           n    == num_pages
           over == InnerWithKey(pages[p], up, r, pos)
           new  == [pages[r] EXCEPT !.parent = p]
           qs   == WithParent(pages, p, over, r)
<1>1. /\ call.pc = "climb" /\ p # NODE_PARENT_INVALID
      /\ IsKeyPosition(pages[p].keys, up, pos) /\ pos \in 0 .. Len(pages[p].keys)
  BY DEF AtParent, ParentPositions
<1>2. /\ s \in Shapes /\ ClimbShape(call, pages, s)
      /\ TreeShape(pages, Allocated, root_pid, s) /\ WellLinked(pages, Allocated, root_pid)
      /\ n \in Nat /\ l \in Allocated /\ r \in Allocated /\ p \in Allocated
      /\ up \in Key /\ DOMAIN pages = PageId
      /\ \A q \in Allocated : q \in PageId /\ q # n /\ pages[q] \in Node
  BY <1>1, ClimbingShape
<1>3. p # r /\ p \in ParentPointer
  BY <1>2 DEF ClimbShape, ParentPointer
<1>4. pages[p].kind = "inner" /\ IsNode(over, Allocated) /\ SameHeader(over, pages[p])
  BY FoundParent
<1>5. SameBody(new, pages[r]) /\ new.parent = p
  BY <1>2, <1>3, SetParent
<1>6. /\ over.keys = InsertAt(pages[p].keys, pos + 1, up)
      /\ over.children = InsertAt(pages[p].children, pos + 2, r)
  BY <1>2 DEF InnerWithKey, Node
<1>7. qs = [pages EXCEPT ![p] = over, ![r] = new]
  BY <1>2, <1>3 DEF WithParent
<1> HIDE DEF over, new, qs
<1>8. /\ qs[p] = over /\ qs[r] = new
      /\ \A q \in Allocated : q # p /\ q # r => qs[q] = pages[q]
  BY <1>2, <1>3, <1>7
<1>9. Adopted(pages, qs, Allocated, p, r, over.keys, over.children)
  <2> SUFFICES ASSUME NEW q \in Allocated
               PROVE  /\ qs[q].kind = pages[q].kind
                      /\ qs[q].parent = IF q = r THEN p ELSE pages[q].parent
                      /\ q # p => /\ qs[q].keys = pages[q].keys
                                  /\ qs[q].children = pages[q].children
    BY <1>8 DEF Adopted
  <2>1. CASE q = p
    BY <1>3, <1>4, <1>8, <2>1 DEF SameHeader
  <2>2. CASE q = r
    BY <1>3, <1>5, <1>8, <2>2 DEF SameBody
  <2>3. CASE q # p /\ q # r
    BY <1>8, <2>3
  <2> QED
    BY <2>1, <2>2, <2>3
<1>10. WellLinked(qs, Allocated, root_pid)
  <2>1. /\ Allocated \in SUBSET PageId /\ root_pid \in Allocated
        /\ \A q \in Allocated :
             /\ IsNode(pages[q], Allocated)
             /\ pages[q].parent \in PageId =>
                  pages[q].parent \in Allocated /\ pages[pages[q].parent].kind = "inner"
             /\ pages[q].parent = NODE_PARENT_INVALID => q = root_pid
    BY <1>2 DEF WellLinked
  <2>2. IsNode(new, Allocated)
    BY <1>2, <1>5, <2>1 DEF IsNode, SameBody
  <2>3. \A q \in Allocated : IsNode(qs[q], Allocated)
    BY <1>4, <1>8, <2>1, <2>2
  <2>4. \A q \in Allocated :
          /\ qs[q].kind = pages[q].kind
          /\ qs[q].parent = IF q = r THEN p ELSE pages[q].parent
    BY <1>9 DEF Adopted
  <2>5. pages[p].kind = "inner" /\ p \in Allocated /\ p \in PageId
    BY <1>1, <1>2, <1>4
  <2>6. ASSUME NEW q \in Allocated
        PROVE  /\ qs[q].parent \in PageId =>
                    qs[q].parent \in Allocated /\ qs[qs[q].parent].kind = "inner"
               /\ qs[q].parent = NODE_PARENT_INVALID => q = root_pid
    <3>1. CASE q = r
      <4>1. qs[q].parent = p /\ p # NODE_PARENT_INVALID
        BY <2>4, <2>5, <3>1, PageAssumption DEF PageId
      <4> QED
        BY <2>4, <2>5, <4>1
    <3>2. CASE q # r
      BY <2>1, <2>4, <3>2
    <3> QED
      BY <3>1, <3>2
  <2> QED
    BY <2>1, <2>3, <2>6 DEF WellLinked
<1>11. PICK t : IsSettled(t, s)
  BY <1>2, SettledShape
<1>12. TreeShape(qs, Allocated, root_pid, t)
  <2>1. Adopted(pages, qs, Allocated, p, r, InsertAt(pages[p].keys, pos + 1, up),
                InsertAt(pages[p].children, pos + 2, r))
    BY <1>6, <1>9
  <2>2. \E c : ClimbShape(c, pages, s) /\ c.left = l /\ c.right = r
               /\ c.parent = p /\ c.key_upward = up
    BY <1>2
  <2> QED
    BY <1>1, <1>2, <1>11, <2>1, <2>2, InnerGrows
<1> QED
  BY <1>4, <1>8, <1>9, <1>10, <1>11, <1>12 DEF AdoptedShape, over, qs

LEMMA ParentInsertShape ==
  ASSUME IndInv, ShapeInv, ParentInsert
  PROVE  ShapeInv'
<1> DEFINE p == call.parent
<1>1. PICK s : IsShape(s)
  BY DEF ShapeInv, IsShape
<1>2. PICK pos \in ParentPositions :
        /\ AtParent(pos)
        /\ pages' = [pages EXCEPT
             ![p] = InnerWithKey(@, call.key_upward, call.right, pos),
             ![call.right].parent = p]
  BY DEF ParentInsert
<1> DEFINE over == InnerWithKey(pages[p], call.key_upward, call.right, pos)
<1>3. AdoptedShape(WithParent(pages, p, over, call.right), s, over)
  BY <1>1, <1>2, Adoption
<1>4. pages' = WithParent(pages, p, over, call.right)
  BY <1>2 DEF WithParent
<1> HIDE DEF over
<1>5. PICK t : IsSettled(t, s) /\ TreeShape(pages', Allocated, root_pid, t)
  BY <1>3, <1>4 DEF AdoptedShape
<1>6. /\ call'.pc = "idle" /\ num_pages' = num_pages /\ root_pid' = root_pid
  BY DEF ParentInsert, Return, Idle
<1>7. t \in Shapes' /\ CallShape(call', pages', t)
  BY <1>5, <1>6 DEF IsSettled, CallShape, Shapes, PageId
<1>8. Allocated' = Allocated
  BY ParentInsertStep DEF PagesKept
<1> QED
  BY <1>5, <1>6, <1>7, <1>8 DEF ShapeInv

(***************************************************************************)
(* Which half of a split parent the two children belong to: comparing the  *)
(* inserted key with the pivot finds exactly the children that moved.      *)
(***************************************************************************)
LEMMA Homes ==
  ASSUME NEW keys \in Seq(Key), Ascending(keys), NEW a \in 1 .. Len(keys),
         NEW h \in 1 .. Len(keys)
  PROVE  /\ a <= h <=> ~(keys[a] > keys[h])
         /\ a + 1 <= h <=> keys[a] < keys[h]
<1>1. /\ Len(keys) \in Nat /\ keys[a] \in Int /\ keys[h] \in Int
      /\ a < h => keys[a] < keys[h]
      /\ h < a => keys[h] < keys[a]
  BY LenProperties, ElementOfSeq, InputAssumption DEF Key, Ascending
<1> QED
  BY <1>1

LEMMA OverfullParent ==
  ASSUME IndInv, NEW s, IsShape(s), NEW pos \in ParentPositions, AtParent(pos),
         ParentIsFull, NEW over,
         over = InnerWithKey(pages[call.parent], call.key_upward, call.right, pos)
  PROVE  /\ over \in Node /\ over.kind = "inner"
         /\ over.keys \in Seq(Key) /\ over.children \in Seq(Allocated)
         /\ Len(over.keys) = InnerLoad + 1 /\ Len(over.children) = InnerLoad + 2
         /\ pos + 1 \in 1 .. InnerLoad + 1
         /\ over.keys[pos + 1] = call.key_upward
         /\ over.children[pos + 1] = call.left /\ over.children[pos + 2] = call.right
<1> DEFINE p    == call.parent
           keys == pages[p].keys
           kids == pages[p].children
           S    == Allocated
<1>1. /\ call.pc = "climb" /\ p # NODE_PARENT_INVALID
      /\ IsKeyPosition(keys, call.key_upward, pos) /\ pos \in 0 .. Len(keys)
  BY DEF AtParent, ParentPositions
<1>2. /\ s \in Shapes /\ ClimbShape(call, pages, s)
      /\ TreeShape(pages, Allocated, root_pid, s)
      /\ WellLinked(pages, Allocated, root_pid)
      /\ call.left \in S /\ call.right \in S /\ p \in S /\ call.key_upward \in Key
      /\ pages[p] \in Node
  BY <1>1, ClimbingShape
<1>3. /\ IsNode(over, S) /\ over.kind = "inner" /\ pages[p].kind = "inner"
      /\ Len(keys) = InnerLoad /\ Len(over.keys) = InnerLoad + 1
  BY <1>1, FoundParent DEF SameHeader, ParentIsFull
<1>4. /\ over \in Node /\ over.keys \in Seq(Key) /\ over.children \in Seq(S)
      /\ Len(over.children) = InnerLoad + 2 /\ InnerLoad \in Nat
  <2>1. InnerLoad \in Nat
    BY LoadsAreEven, Halves
  <2> QED
    BY <1>3, <2>1 DEF IsNode, Node
<1>5. /\ over.keys = InsertAt(keys, pos + 1, call.key_upward)
      /\ over.children = InsertAt(kids, pos + 2, call.right)
  BY <1>2 DEF InnerWithKey, Node
<1>6. /\ keys \in Seq(Key) /\ kids \in Seq(S) /\ Len(kids) = InnerLoad + 1
      /\ IsNode(pages[p], S)
  BY <1>2, <1>3 DEF WellLinked, IsNode, Node
<1>7. kids[pos + 1] = call.left
  <2>1. EntersAfterLeft(call, pages, root_pid, s)
    BY <1>2, ClimbSlot
  <2> QED
    BY <1>1, <2>1 DEF EntersAfterLeft
<1> HIDE DEF keys, kids, S, p
<1>8. over.keys[pos + 1] = call.key_upward
  <2> DEFINE k == pos + 1
  <2>1. k \in 1 .. Len(keys) + 1 /\ over.keys = InsertAt(keys, k, call.key_upward)
    BY <1>1, <1>3, <1>4, <1>5
  <2> HIDE DEF k
  <2>2. IsInserted(over.keys, keys, k, call.key_upward)
    <3> DEFINE e == call.key_upward
    <3>1. e \in Key
      BY <1>2
    <3> HIDE DEF e
    <3>2. IsInserted(InsertAt(keys, k, e), keys, k, e)
      BY <1>6, <2>1, <3>1, Inserted
    <3> QED
      BY <2>1, <3>2 DEF e
  <2>3. ~(k < k) /\ k \in 1 .. Len(keys) + 1
    BY <1>3, <1>4, <2>1
  <2>4. over.keys[k] = call.key_upward
    BY <2>2, <2>3 DEF IsInserted
  <2> QED
    BY <2>4 DEF k
<1>9. over.children[pos + 1] = call.left /\ over.children[pos + 2] = call.right
  <2> DEFINE k == pos + 2
  <2>1. k \in 1 .. Len(kids) + 1 /\ over.children = InsertAt(kids, k, call.right)
    BY <1>1, <1>3, <1>4, <1>5, <1>6
  <2>2. pos + 1 \in 1 .. Len(kids) + 1 /\ pos + 1 < k /\ ~(k < k)
    BY <1>1, <1>3, <1>4, <1>6
  <2> HIDE DEF k
  <2>3. IsInserted(over.children, kids, k, call.right)
    <3> DEFINE e == call.right
    <3>1. e \in S /\ kids \in Seq(S) /\ k \in 1 .. Len(kids) + 1
      BY <1>2, <1>6, <2>1
    <3> HIDE DEF e
    <3>2. IsInserted(InsertAt(kids, k, e), kids, k, e)
      BY <3>1, Inserted
    <3> QED
      BY <2>1, <3>2 DEF e
  <2>4. over.children[pos + 1] = call.left /\ over.children[k] = call.right
    BY <1>7, <2>1, <2>2, <2>3 DEF IsInserted
  <2> QED
    BY <2>4 DEF k
<1>10. pos + 1 \in 1 .. InnerLoad + 1
  BY <1>1, <1>3, <1>4
<1> QED
  BY <1>3, <1>4, <1>8, <1>9, <1>10 DEF S

(***************************************************************************)
(* The pages after a split of the parent, one by one.                      *)
(***************************************************************************)
SplitPages(ps, qs, A, p, n, l, r, left, right, toLeft, toRight) ==
  /\ qs[n].kind = right.kind /\ qs[n].parent = right.parent
  /\ qs[n].keys = right.keys /\ qs[n].children = right.children
  /\ qs[p].kind = left.kind /\ qs[p].keys = left.keys
  /\ qs[p].children = left.children
  /\ \A q \in A :
       /\ q # p => /\ qs[q].kind = ps[q].kind /\ qs[q].keys = ps[q].keys
                   /\ qs[q].children = ps[q].children
       /\ qs[q].parent = IF HasChild(qs, n, q) THEN n
                         ELSE IF q = l THEN toLeft
                         ELSE IF q = r THEN toRight
                         ELSE IF q = p THEN left.parent ELSE ps[q].parent

IsSplitInTwo(ps, qs, p, n, l, r, left, right, toLeft, toRight) ==
  qs = Relinked([[ps EXCEPT ![p] = left, ![n] = right]
                   EXCEPT ![l].parent = toLeft, ![r].parent = toRight], n)

LEMMA RelinkedSplit ==
  ASSUME NEW ps, DOMAIN ps = PageId, NEW n \in PageId,
         NEW A, NEW p \in A, NEW l \in A, NEW r \in A, p # l, p # r, l # r,
         \A q \in A : q \in PageId /\ q # n /\ ps[q] \in Node,
         NEW left \in Node, NEW right \in Node, right.children \in Seq(A),
         NEW a, NEW b, NEW qs, IsSplitInTwo(ps, qs, p, n, l, r, left, right, a, b)
  PROVE  SplitPages(ps, qs, A, p, n, l, r, left, right, a, b)
<1> DEFINE split  == [ps EXCEPT ![p] = left, ![n] = right]
           linked == [split EXCEPT ![l].parent = a, ![r].parent = b]
           moved  == {linked[n].children[i] : i \in 1 .. Len(linked[n].children)}
           atL    == [ps[l] EXCEPT !.parent = a]
           atR    == [ps[r] EXCEPT !.parent = b]
<1>1. /\ p \in PageId /\ l \in PageId /\ r \in PageId /\ p # n /\ l # n /\ r # n
      /\ ps[l] \in Node /\ ps[r] \in Node
  OBVIOUS
<1>2. /\ split[p] = left /\ split[n] = right /\ DOMAIN split = PageId
      /\ \A q \in A : q # p => split[q] = ps[q]
  BY <1>1
<1>3. linked = [split EXCEPT ![l] = atL, ![r] = atR]
  BY <1>1, <1>2
<1>4. /\ atL.kind = ps[l].kind /\ atL.keys = ps[l].keys
      /\ atL.children = ps[l].children /\ atL.parent = a
      /\ atR.kind = ps[r].kind /\ atR.keys = ps[r].keys
      /\ atR.children = ps[r].children /\ atR.parent = b
  BY <1>1 DEF Node
<1>5. /\ DOMAIN atL = DOMAIN left /\ DOMAIN atR = DOMAIN left
      /\ "parent" \in DOMAIN left
      /\ \A q \in A : DOMAIN ps[q] = DOMAIN left
  BY <1>1 DEF Node
<1>0. qs = Relinked(linked, n)
  BY DEF IsSplitInTwo
<1> HIDE DEF atL, atR, split, linked
<1>6. /\ linked[p] = left /\ linked[n] = right
      /\ linked[l] = atL /\ linked[r] = atR
      /\ \A q \in A : q # p /\ q # l /\ q # r => linked[q] = ps[q]
  BY <1>1, <1>2, <1>3
<1>7. qs = [q \in PageId |-> IF q \in moved THEN [linked[q] EXCEPT !.parent = n]
                                            ELSE linked[q]]
  BY <1>0 DEF Relinked
<1>8. moved = {right.children[i] : i \in 1 .. Len(right.children)}
      /\ moved \subseteq A
  BY <1>6, ElementOfSeq
<1> HIDE DEF moved
<1>9. qs[n] = right
  BY <1>6, <1>7, <1>8
<1>10. \A q \in A : q \in moved <=> HasChild(qs, n, q)
  BY <1>8, <1>9 DEF HasChild
<1>11. ASSUME NEW q \in A
       PROVE  /\ qs[q].kind = linked[q].kind /\ qs[q].keys = linked[q].keys
              /\ qs[q].children = linked[q].children
              /\ qs[q].parent = IF q \in moved THEN n ELSE linked[q].parent
  <2>1. "parent" \in DOMAIN linked[q]
    BY <1>5, <1>6
  <2>2. CASE q \in moved
    <3>1. qs[q] = [linked[q] EXCEPT !.parent = n]
      BY <1>7, <2>2
    <3> QED
      BY <2>1, <2>2, <3>1
  <2>3. CASE q \notin moved
    BY <1>7, <2>3
  <2> QED
    BY <2>2, <2>3
<1>12. ASSUME NEW q \in A
       PROVE  /\ q # p => /\ linked[q].kind = ps[q].kind /\ linked[q].keys = ps[q].keys
                          /\ linked[q].children = ps[q].children
              /\ linked[q].parent = IF q = l THEN a ELSE IF q = r THEN b
                                    ELSE IF q = p THEN left.parent ELSE ps[q].parent
  <2>1. CASE q = p
    BY <1>6, <2>1
  <2>2. CASE q = l
    BY <1>4, <1>6, <2>2
  <2>3. CASE q = r
    BY <1>4, <1>6, <2>3
  <2>4. CASE q # p /\ q # l /\ q # r
    BY <1>6, <2>4
  <2> QED
    BY <2>1, <2>2, <2>3, <2>4
<1>13. /\ qs[p].kind = left.kind /\ qs[p].keys = left.keys
       /\ qs[p].children = left.children
  BY <1>6, <1>11
<1> QED
  BY <1>9, <1>10, <1>11, <1>12, <1>13 DEF SplitPages

LEMMA ParentSplitShape ==
  ASSUME IndInv, ShapeInv, ParentSplit
  PROVE  ShapeInv'
<1> DEFINE p == call.parent
           l == call.left
           r == call.right
           n == num_pages
           h == PivotSlot(InnerLoad)
           m == InnerLoad + 1
<1>1. PICK s : IsShape(s)
  BY DEF ShapeInv, IsShape
<1>2. PICK pos \in ParentPositions, byte \in FreshRootByte :
        /\ AtParent(pos) /\ ParentIsFull
        /\ LET over  == InnerWithKey(pages[p], call.key_upward, r, pos)
               pivot == Pivot(over, InnerLoad)
               split == [pages EXCEPT
                  ![p] = LeftInner(over, InnerLoad),
                  ![n] = RightInner(over, InnerLoad, byte, Unwritten)]
               linked == [split EXCEPT ![l].parent = LeftHome(pivot, n),
                                       ![r].parent = RightHome(pivot, n)]
           IN  pages' = Relinked(linked, n) /\ call' = NextLevel(pages', pivot, n)
  BY DEF ParentSplit
<1> DEFINE over  == InnerWithKey(pages[p], call.key_upward, r, pos)
           pivot == Pivot(over, InnerLoad)
           left  == LeftInner(over, InnerLoad)
           right == RightInner(over, InnerLoad, byte, Unwritten)
           toL   == LeftHome(pivot, n)
           toR   == RightHome(pivot, n)
           mid   == WithParent(pages, p, over, r)
           M     == {over.children[i] : i \in h + 1 .. m + 1}
<1>3. /\ call.pc = "climb" /\ p # NODE_PARENT_INVALID
  BY <1>2 DEF AtParent
<1>4. /\ s \in Shapes /\ ClimbShape(call, pages, s) /\ n \in Nat
      /\ TreeShape(pages, Allocated, root_pid, s) /\ WellLinked(pages, Allocated, root_pid)
      /\ l \in Allocated /\ r \in Allocated /\ p \in Allocated
      /\ call.key_upward \in Key /\ DOMAIN pages = PageId
      /\ \A q \in Allocated : q \in PageId /\ q # n /\ pages[q] \in Node
  BY <1>1, <1>3, ClimbingShape
<1>5. /\ n < TABLE_MAX_PAGES /\ n \in PageId /\ num_pages' = n + 1
      /\ root_pid' = root_pid
  <2>1. n < TABLE_MAX_PAGES /\ num_pages' = n + 1 /\ root_pid' = root_pid
    BY DEF ParentSplit
  <2>2. n \in Nat
    BY <1>4
  <2> QED
    BY <2>1, <2>2, PageAssumption DEF PageId
<1>6. p # l /\ p # r /\ l # r
  <2>1. EntersAfterLeft(call, pages, root_pid, s)
    BY <1>4, ClimbSlot
  <2> QED
    BY <2>1 DEF EntersAfterLeft
<1>7. /\ over \in Node /\ over.kind = "inner"
      /\ over.keys \in Seq(Key) /\ over.children \in Seq(Allocated)
      /\ Len(over.keys) = m /\ Len(over.children) = m + 1
      /\ pos + 1 \in 1 .. m
      /\ over.keys[pos + 1] = call.key_upward
      /\ over.children[pos + 1] = l /\ over.children[pos + 2] = r
  <2>1. /\ over \in Node /\ over.kind = "inner"
        /\ over.keys \in Seq(Key) /\ over.children \in Seq(Allocated)
        /\ Len(over.keys) = InnerLoad + 1 /\ Len(over.children) = InnerLoad + 2
        /\ pos + 1 \in 1 .. InnerLoad + 1
        /\ over.keys[pos + 1] = call.key_upward
        /\ over.children[pos + 1] = l /\ over.children[pos + 2] = r
    <3>1. /\ pos \in ParentPositions /\ AtParent(pos) /\ ParentIsFull /\ IsShape(s)
          /\ over = InnerWithKey(pages[call.parent], call.key_upward, call.right, pos)
      BY <1>1, <1>2
    <3> HIDE DEF over
    <3> QED
      BY <3>1, OverfullParent
  <2>2. InnerLoad \in Nat
    BY LoadsAreEven, Halves
  <2> QED
    BY <2>1, <2>2
<1>8. AdoptedShape(mid, s, over)
  BY <1>1, <1>2, Adoption
<1>9. /\ h \in Nat /\ InnerLoad \in Nat /\ m \in Nat /\ h - 1 > 0
      /\ InnerLoad = 2 * (h - 1) /\ h \in 1 .. m
  BY LoadsAreEven, Halves DEF PivotSlot
<1>10. SplitPages(pages, pages', Allocated, p, n, l, r, left, right, toL, toR)
  <2>1. byte \in BOOLEAN /\ Unwritten \in ParentPointer
    BY InputAssumption DEF ParentPointer
  <2>2. /\ IsNode(over, Allocated) /\ over.kind = "inner"
        /\ Allocated \in SUBSET PageId /\ InnerLoad \in LoadType
        /\ Len(over.keys) = InnerLoad + 1
    BY <1>4, <1>7, <1>8, LoadsAreEven DEF AdoptedShape
  <2> HIDE DEF over
  <2>3. AreInnerHalves(left, right, pivot, over, Allocated, InnerLoad)
    BY <2>1, <2>2, InnerHalvesAreNodes
  <2>4. left \in Node /\ right \in Node /\ right.children \in Seq(Allocated)
    BY <2>3 DEF AreInnerHalves, IsNode
  <2>5. IsSplitInTwo(pages, pages', p, n, l, r, left, right, toL, toR)
    BY <1>2 DEF over, IsSplitInTwo
  <2>6. /\ DOMAIN pages = PageId /\ n \in PageId
        /\ p \in Allocated /\ l \in Allocated /\ r \in Allocated
        /\ p # l /\ p # r /\ l # r
        /\ \A q \in Allocated : q \in PageId /\ q # n /\ pages[q] \in Node
    BY <1>4, <1>5, <1>6
  <2> HIDE DEF left, right, toL, toR, n, p, l, r
  <2> QED
    BY <2>4, <2>5, <2>6, RelinkedSplit
<1>11. call' = [pc |-> "climb", key_upward |-> pivot, left |-> p, right |-> n,
                parent |-> pages'[p].parent]
  BY <1>2 DEF NextLevel, Climb
<1>12. pivot = over.keys[h]
  BY DEF Pivot
<1> HIDE DEF over
<1>13. /\ left.kind = "inner" /\ left.parent = over.parent
       /\ left.keys = SubSeq(over.keys, 1, h - 1)
       /\ left.children = SubSeq(over.children, 1, h)
       /\ right.kind = "inner" /\ right.parent = Unwritten
       /\ right.keys = SubSeq(over.keys, h + 1, m)
       /\ right.children = SubSeq(over.children, h + 1, m + 1)
  <2>1. left = [over EXCEPT !.keys = SubSeq(over.keys, 1, h - 1),
                            !.children = SubSeq(over.children, 1, h)]
    BY DEF LeftInner
  <2>2. InnerLoad + 2 = m + 1
    BY <1>9
  <2>3. /\ right.kind = "inner" /\ right.parent = Unwritten
        /\ right.keys = SubSeq(over.keys, h + 1, InnerLoad + 1)
        /\ right.children = SubSeq(over.children, h + 1, InnerLoad + 2)
    BY DEF RightInner, InternalNode
  <2> QED
    BY <1>7, <2>1, <2>2, <2>3 DEF Node
<1>14. /\ toL = IF call.key_upward > pivot THEN n ELSE p
       /\ toR = IF call.key_upward < pivot THEN p ELSE n
  BY DEF LeftHome, RightHome
<1> HIDE DEF left, right, toL, toR, pivot, mid, m, h
<1>15. PICK t1 : IsSettled(t1, s) /\ TreeShape(mid, Allocated, root_pid, t1)
  BY <1>8 DEF AdoptedShape
<1>16. t1 \in Shapes /\ t1.up = t1.hi
  BY <1>15 DEF IsSettled
<1>17. /\ WellLinked(mid, Allocated, root_pid) /\ mid[p] = over
       /\ over.parent = pages[p].parent
       /\ \A q \in Allocated :
            /\ mid[q].kind = pages[q].kind
            /\ mid[q].parent = IF q = r THEN p ELSE pages[q].parent
            /\ q # p => mid[q].keys = pages[q].keys /\ mid[q].children = pages[q].children
  BY <1>8 DEF AdoptedShape, Adopted, SameHeader
<1>18. PageShape(mid, root_pid, t1, p)
  BY <1>4, <1>15, <1>16, <1>17, ShapeOfPage
<1>19. Ascending(over.keys)
  BY <1>17, <1>18 DEF PageShape, NodeOrdered
<1>20. /\ pages'[n].kind = "inner" /\ pages'[n].parent = Unwritten
       /\ pages'[n].keys = right.keys /\ pages'[n].children = right.children
       /\ pages'[p].kind = "inner" /\ pages'[p].keys = left.keys
       /\ pages'[p].children = left.children
       /\ \A q \in Allocated :
            /\ q # p => /\ pages'[q].kind = pages[q].kind
                        /\ pages'[q].keys = pages[q].keys
                        /\ pages'[q].children = pages[q].children
            /\ pages'[q].parent = IF HasChild(pages', n, q) THEN n
                                  ELSE IF q = l THEN toL ELSE IF q = r THEN toR
                                  ELSE IF q = p THEN left.parent ELSE pages[q].parent
  BY <1>10, <1>13 DEF SplitPages
<1>21. \A q \in Allocated : q \in M <=> HasChild(pages', n, q)
  <2> DEFINE k == h + 1
             e == m + 1
  <2>1. /\ k \in 1 .. Len(over.children) + 1 /\ e \in k - 1 .. Len(over.children)
        /\ pages'[n].children = SubSeq(over.children, k, e)
        /\ over.children \in Seq(Allocated)
    <3>1. /\ Len(over.children) = m + 1 /\ h \in Int /\ m \in Int
          /\ 1 <= h /\ h <= m /\ over.children \in Seq(Allocated)
      BY <1>7, <1>9
    <3>2. pages'[n].children = SubSeq(over.children, k, e)
      BY <1>13, <1>20
    <3> QED
      BY <3>1, <3>2
  <2>2. k \in Int /\ e \in Int
    BY <1>9
  <2> HIDE DEF k, e
  <2>8. IsSlice(SubSeq(over.children, k, e), over.children, k, e)
    <3> DEFINE S == Allocated
               c == over.children
    <3>1. k \in 1 .. Len(c) + 1 /\ e \in k - 1 .. Len(c) /\ c \in Seq(S)
      BY <2>1
    <3> HIDE DEF S, c
    <3>2. IsSlice(SubSeq(c, k, e), c, k, e)
      BY <3>1, Sliced
    <3> QED
      BY <3>2 DEF c
  <2>3. /\ Len(SubSeq(over.children, k, e)) = e - k + 1
        /\ \A j \in 1 .. e - k + 1 : SubSeq(over.children, k, e)[j] = over.children[k + j - 1]
    BY <2>8 DEF IsSlice
  <2>4. M = {over.children[i] : i \in k .. e}
    BY DEF k, e
  <2> HIDE DEF M
  <2>5. /\ \A i \in k .. e : i - k + 1 \in 1 .. e - k + 1 /\ k + (i - k + 1) - 1 = i
        /\ \A j \in 1 .. e - k + 1 : k + j - 1 \in k .. e
    BY <2>2
  <2> TAKE q \in Allocated
  <2>6. ASSUME q \in M
        PROVE  HasChild(pages', n, q)
    <3>1. PICK i \in k .. e : q = over.children[i]
      BY <2>4, <2>6
    <3>2. /\ i - k + 1 \in 1 .. e - k + 1
          /\ SubSeq(over.children, k, e)[i - k + 1] = over.children[k + (i - k + 1) - 1]
      BY <2>3, <2>5
    <3> QED
      BY <2>1, <2>3, <2>5, <3>1, <3>2 DEF HasChild
  <2>7. ASSUME HasChild(pages', n, q)
        PROVE  q \in M
    BY <2>1, <2>3, <2>4, <2>5, <2>7 DEF HasChild
  <2> QED
    BY <2>6, <2>7
<1> HIDE DEF M
<1>22. \A q \in Allocated :
         pages'[q].parent = IF q \in M THEN n ELSE mid[q].parent
  <2>1. r \notin M => toR = p
    <3> SUFFICES ASSUME r \notin M PROVE toR = p
      OBVIOUS
    <3>1. ~(pos + 2 \in h + 1 .. m + 1)
      BY <1>7 DEF M
    <3>2. (pos + 1) + 1 <= h
      <4>1. pos \in Int
        BY DEF ParentPositions
      <4> QED
        BY <1>7, <1>9, <3>1, <4>1
    <3>3. call.key_upward < pivot
      BY <1>7, <1>9, <1>12, <1>19, <3>2, Homes
    <3> QED
      BY <1>14, <3>3
  <2>2. l \notin M => toL = p
    <3> SUFFICES ASSUME l \notin M PROVE toL = p
      OBVIOUS
    <3>1. ~(pos + 1 \in h + 1 .. m + 1)
      BY <1>7 DEF M
    <3>2. pos + 1 <= h
      BY <1>7, <1>9, <3>1
    <3>3. ~(call.key_upward > pivot)
      BY <1>7, <1>9, <1>12, <1>19, <3>2, Homes
    <3> QED
      BY <1>14, <3>3
  <2>3. pages[l].parent = p
    BY <1>4 DEF ClimbShape
  <2> TAKE q \in Allocated
  <2>4. left.parent = pages[p].parent
    BY <1>13, <1>17
  <2> QED
    BY <1>6, <1>17, <1>20, <1>21, <2>1, <2>2, <2>3, <2>4
<1>23. InnerHalved(mid, pages', Allocated, n, p, h, M)
  <2>1. /\ mid[p].keys = over.keys /\ mid[p].children = over.children
        /\ Len(over.keys) = m /\ h \in 1 .. m
        /\ M = {over.children[i] : i \in h + 1 .. m + 1}
    BY <1>7, <1>9, <1>17 DEF M
  <2>2. /\ pages'[p].kind = "inner" /\ pages'[n].kind = "inner"
        /\ pages'[p].keys = SubSeq(over.keys, 1, h - 1)
        /\ pages'[p].children = SubSeq(over.children, 1, h)
        /\ pages'[n].keys = SubSeq(over.keys, h + 1, m)
        /\ pages'[n].children = SubSeq(over.children, h + 1, m + 1)
    BY <1>13, <1>20
  <2> QED
    BY <1>22, <2>1, <2>2 DEF InnerHalved
<1>24. pivot \in Int /\ p \in PageId /\ p # n /\ mid[p].keys[h] = pivot
  <2>1. over.keys[h] \in Key
    BY <1>7, <1>9, ElementOfSeq
  <2> QED
    BY <1>4, <1>12, <1>17, <2>1, InputAssumption DEF Key
<1>25. PICK t : IsSplit(t, t1, p, n, pivot)
  BY <1>5, <1>16, <1>24, SplitShape
<1>26. /\ M \in SUBSET Allocated /\ p \notin M
       /\ HalvesOrdered(mid, pages', Allocated, n, root_pid, t1, t, p, pivot, M)
  <2>1. mid[p].kind = "inner"
    BY <1>7, <1>17
  <2>2. IsSplit(t, t1, p, n, mid[p].keys[h])
    BY <1>24, <1>25
  <2>3. /\ WellLinked(mid, Allocated, root_pid) /\ TreeShape(mid, Allocated, root_pid, t1)
        /\ t1 \in Shapes /\ t1.up = t1.hi /\ n \in PageId /\ n \notin Allocated
        /\ p \in Allocated
    BY <1>4, <1>5, <1>15, <1>16, <1>17
  <2> HIDE DEF n, p
  <2> DEFINE L == Allocated
  <2> HIDE DEF L
  <2>5. /\ WellLinked(mid, L, root_pid) /\ TreeShape(mid, L, root_pid, t1)
        /\ t1 \in Shapes /\ t1.up = t1.hi /\ n \in PageId /\ n \notin L /\ p \in L
        /\ InnerHalved(mid, pages', L, n, p, h, M)
    BY <1>23, <2>3 DEF L
  <2>4. InnerHalvesInOrder(mid, pages', L, n, root_pid, t1, t, p, h, M)
    BY <2>1, <2>2, <2>5, InnerHalvesOrdered
  <2> QED
    BY <1>24, <2>4 DEF L, InnerHalvesInOrder
<1>27. Halved(mid, pages', Allocated, n, p, M)
  BY <1>7, <1>17, <1>20, <1>22, <1>26 DEF Halved
<1>32. n \notin Allocated
  BY <1>4
<1>28. TreeShape(pages', Allocated \cup {n}, root_pid, t)
  BY <1>32, <1>4, <1>5, <1>15, <1>16, <1>17, <1>24, <1>25, <1>26, <1>27, NodeSplits
<1>29. ClimbShape(call', pages', t)
  <2>1. pages'[p].parent = pages[p].parent /\ pages[p].parent # n
    <3>1. pages'[p].parent = pages[p].parent
      BY <1>4, <1>6, <1>17, <1>22, <1>26
    <3>2. pages[p].parent \in PageId => pages[p].parent \in Allocated
      BY <1>4 DEF WellLinked
    <3> QED
      BY <1>4, <1>5, <3>1, <3>2
  <2>2. t1.lo[p] < pivot /\ pivot < t1.hi[p]
    BY <1>26 DEF HalvesOrdered
  <2> QED
    BY <1>4, <1>11, <1>20, <1>24, <1>25, <2>1, <2>2 DEF ClimbShape, IsSplit
<1>30. CallShape(call', pages', t)
  BY <1>11, <1>29 DEF CallShape
<1>31. t \in Shapes'
  BY <1>25 DEF IsSplit, Shapes, PageId
<1>33. Allocated' = Allocated \cup {n}
  BY ParentSplitStep DEF PageAdded
<1> QED
  BY <1>5, <1>28, <1>30, <1>31, <1>33 DEF ShapeInv

LEMMA NewRootShape ==
  ASSUME IndInv, ShapeInv, NewRoot
  PROVE  ShapeInv'
<1> DEFINE l  == call.left
           r  == call.right
           n  == num_pages
           up == call.key_upward
<1>1. PICK s : IsShape(s)
  BY DEF ShapeInv, IsShape
<1>2. PICK byte \in FreshRootByte :
        LET linked == [pages EXCEPT
              ![n] = InternalNode(byte, Unwritten, <<up>>, <<l, r>>),
              ![l].parent = n, ![r].parent = n]
        IN  pages' = UpdateRoot(linked, n)
  BY DEF NewRoot
<1>3. call.pc = "climb" /\ call.parent = NODE_PARENT_INVALID /\ l = root_pid
  BY DEF NewRoot, IndInv, ClimbInv
<1>4. /\ s \in Shapes /\ ClimbShape(call, pages, s) /\ n \in Nat
      /\ TreeShape(pages, Allocated, root_pid, s) /\ WellLinked(pages, Allocated, root_pid)
      /\ l \in Allocated /\ r \in Allocated
      /\ up \in Key /\ DOMAIN pages = PageId
      /\ \A q \in Allocated : q \in PageId /\ q # n /\ pages[q] \in Node
  BY <1>1, <1>3, ClimbingShape
<1>5. /\ n < TABLE_MAX_PAGES /\ n \in PageId /\ num_pages' = n + 1 /\ root_pid' = n
      /\ call'.pc = "idle"
  BY <1>4, PageAssumption DEF NewRoot, PageId, Return, Idle
<1>6. l # r
  BY <1>3, <1>4, PageAssumption DEF ClimbShape
<1> DEFINE top    == InternalNode(byte, Unwritten, <<up>>, <<l, r>>)
           atL    == [pages[l] EXCEPT !.parent = n]
           atR    == [pages[r] EXCEPT !.parent = n]
           linked == [pages EXCEPT ![n] = top, ![l] = atL, ![r] = atR]
           old    == [atL EXCEPT !.is_root = FALSE]
           new    == [top EXCEPT !.is_root = TRUE, !.parent = NODE_PARENT_INVALID]
<1>7. pages' = [linked EXCEPT ![l] = old, ![n] = new]
  <2>1. pages' = UpdateRoot([pages EXCEPT ![n] = top, ![l].parent = n, ![r].parent = n], n)
    BY <1>2
  <2> HIDE DEF top
  <2>2. [pages EXCEPT ![n] = top, ![l].parent = n, ![r].parent = n] = linked
    BY <1>4, <1>5, <1>6
  <2>3. linked[l] = atL /\ linked[n] = top /\ DOMAIN linked = PageId
    BY <1>4, <1>5, <1>6
  <2> HIDE DEF linked, atL, atR
  <2>4. pages' = UpdateRoot(linked, n)
    BY <2>1, <2>2
  <2> QED
    BY <1>3, <1>4, <1>5, <2>3, <2>4 DEF UpdateRoot
<1>8. /\ pages'[n] = new /\ pages'[l] = old /\ pages'[r] = atR
      /\ \A q \in Allocated : q # l /\ q # r => pages'[q] = pages[q]
  <2> HIDE DEF top, atL, atR, old, new
  <2> QED
    BY <1>4, <1>5, <1>6, <1>7
<1>9. /\ new.kind = "inner" /\ new.parent = NODE_PARENT_INVALID
      /\ new.keys = <<up>> /\ new.children = <<l, r>>
  BY DEF InternalNode
<1>10. /\ old.kind = pages[l].kind /\ old.keys = pages[l].keys
       /\ old.children = pages[l].children /\ old.parent = n
       /\ atR.kind = pages[r].kind /\ atR.keys = pages[r].keys
       /\ atR.children = pages[r].children /\ atR.parent = n
  BY <1>4 DEF Node
<1> HIDE DEF top, atL, atR, linked, old, new
<1>11. RootAdded(pages, pages', Allocated, n, l, r, up)
  BY <1>8, <1>9, <1>10 DEF RootAdded
<1>12. PICK t : IsRaised(t, s, n, l)
  BY <1>4, <1>5, RaisedShape
<1>15. n \notin Allocated
  BY <1>4
<1>13. TreeShape(pages', Allocated \cup {n}, n, t)
  BY <1>3, <1>4, <1>5, <1>11, <1>12, <1>15, RootGrows
<1>14. t \in Shapes' /\ CallShape(call', pages', t)
  BY <1>5, <1>12 DEF IsRaised, CallShape, Shapes, PageId
<1>16. Allocated' = Allocated \cup {n}
  BY NewRootStep DEF PageAdded
<1> QED
  BY <1>5, <1>13, <1>14, <1>16 DEF ShapeInv

LEMMA StepShape ==
  ASSUME IndInv, ShapeInv, [Next]_vars
  PROVE  ShapeInv'
<1>1. ASSUME NEW key \in Key, NEW row \in Row, Insert(key, row)
      PROVE  ShapeInv'
  BY <1>1, InsertShape
<1>2. PICK s : IsShape(s)
  BY DEF ShapeInv, IsShape
<1>3. ASSUME UNCHANGED <<pages, root_pid, num_pages, call>>
      PROVE  ShapeInv'
  <2>1. s \in Shapes' /\ TreeShape(pages', Allocated', root_pid', s)
        /\ CallShape(call', pages', s)
    BY <1>2, <1>3 DEF IsShape, Shapes, PageId, Allocated
  <2> QED
    BY <2>1 DEF ShapeInv
<1>4. ASSUME NEW range \in SelectRange, Select(range[1], range[2])
      PROVE  ShapeInv'
  BY <1>3, <1>4 DEF Select
<1>5. CASE Descend
  BY <1>5, DescendShape
<1>6. CASE RejectDuplicate
  <2>1. /\ call'.pc = "idle" /\ call.pc = "find"
        /\ UNCHANGED <<pages, root_pid, num_pages>>
    BY <1>6 DEF RejectDuplicate, AtLeaf, Return, Idle
  <2>2. s.up = s.hi
    BY <1>2, <2>1 DEF IsShape, CallShape
  <2> QED
    BY <1>2, <2>1, <2>2, QuietShape
<1>7. CASE LeafInsert
  BY <1>7, LeafInsertShape
<1>8. CASE LeafSplit
  BY <1>8, LeafSplitShape
<1>9. CASE ParentInsert
  BY <1>9, ParentInsertShape
<1>10. CASE ParentSplit
  BY <1>10, ParentSplitShape
<1>11. CASE NewRoot
  BY <1>11, NewRootShape
<1>12. CASE UNCHANGED vars
  BY <1>3, <1>12 DEF vars
<1> QED
  BY <1>1, <1>4, <1>5, <1>6, <1>7, <1>8, <1>9, <1>10, <1>11, <1>12 DEF Next, Step

------------------------------------------------------------------------------
(***************************************************************************)
(* At every moment of every insert the keys of the tree are in order: the  *)
(* pages can be given intervals and heights such that the keys of a page   *)
(* lie in its interval, the intervals of a node's children are cut by its  *)
(* keys, all leaves have height 0, a node is one higher than each of its   *)
(* children, no two leaves overlap, find is where its key belongs, and the *)
(* two halves of a split differ in nothing but the separator that is on    *)
(* its way up (BPlusTree::insert, btree.cpp:91-200).                       *)
(***************************************************************************)
THEOREM Ordered == Spec => [](IndInv /\ ShapeInv)
<1>1. Init => IndInv /\ ShapeInv
  BY InitIndInv, InitShape
<1>2. IndInv /\ ShapeInv /\ [Next]_vars => (IndInv /\ ShapeInv)'
  BY StepIndInv, StepShape
<1> QED
  BY <1>1, <1>2, PTL DEF Spec
==============================================================================
