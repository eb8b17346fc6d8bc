-------------------------- MODULE NodeArraysProofs ---------------------------
(***************************************************************************)
(* Theorems about NodeArrays, for nodes of any even load and any keys:     *)
(* the loops stay within the page, and what they leave in the pages is     *)
(* what the operators of BtreeNode say.                                    *)
(***************************************************************************)
EXTENDS NodeArrays, BtreeNodeProofs, FiniteSetTheorems

(***************************************************************************)
(* The keys of a node can be put in order.                                 *)
(***************************************************************************)
IsSortedList(s, n) == \A a, b \in 1 .. n : a < b => s[a] < s[b]

\* A set of numbers that is not empty has a least one.
LEMMA LeastKey ==
  ASSUME NEW S \in SUBSET Nat, S # {}
  PROVE  \E x \in S : \A y \in S : x <= y
<1> DEFINE R == OpToRel(<, Nat)
<1>1. IsWellFoundedOn(R, Nat)
  BY NatLessThanWellFounded
<1>2. \A x, y \in Nat : x < y => <<x, y>> \in R
  BY DEF OpToRel
<1> HIDE DEF R
<1>3. PICK x \in S : \A y \in S : <<y, x>> \notin R
  BY <1>1, WFMin
<1>4. \A y \in S : x <= y
  <2> SUFFICES ASSUME NEW y \in S, y < x PROVE FALSE
    BY <1>3
  <2>1. x \in Nat /\ y \in Nat
    BY <1>3
  <2> QED
    BY <1>2, <1>3, <2>1
<1> QED
  BY <1>3, <1>4

\* A finite set of numbers can be listed in order.
LEMMA SortExists ==
  ASSUME NEW S \in SUBSET Nat, IsFiniteSet(S)
  PROVE  /\ Cardinality(S) \in Nat
         /\ \E s \in [1 .. Cardinality(S) -> S] : IsSortedList(s, Cardinality(S))
<1> DEFINE T == {n \in Nat : \A X \in SUBSET Nat :
                   IsFiniteSet(X) /\ Cardinality(X) = n =>
                     \E s \in [1 .. n -> X] : IsSortedList(s, n)}
<1>1. 0 \in T
  <2> SUFFICES ASSUME NEW X \in SUBSET Nat
               PROVE  \E s \in [1 .. 0 -> X] : IsSortedList(s, 0)
    OBVIOUS
  <2> DEFINE s == [j \in 1 .. 0 |-> 0]
  <2>1. s \in [1 .. 0 -> X]
    OBVIOUS
  <2>2. IsSortedList(s, 0)
    BY DEF IsSortedList
  <2> QED
    BY <2>1, <2>2
<1>2. ASSUME NEW n \in Nat, n \in T
      PROVE  n + 1 \in T
  <2> SUFFICES ASSUME NEW X \in SUBSET Nat, IsFiniteSet(X), Cardinality(X) = n + 1
               PROVE  \E s \in [1 .. n + 1 -> X] : IsSortedList(s, n + 1)
    OBVIOUS
  <2>1. X # {}
    <3>1. Cardinality({}) = 0
      BY FS_EmptySet
    <3> QED
      BY <3>1
  <2>2. PICK x \in X : \A y \in X : x <= y
    BY <2>1, LeastKey
  <2> DEFINE Y == X \ {x}
  <2>3. Y \in SUBSET Nat /\ IsFiniteSet(Y) /\ Cardinality(Y) = n
    <3>1. IsFiniteSet(Y) /\ Cardinality(Y) = Cardinality(X) - 1
      BY <2>2, FS_RemoveElement
    <3> QED
      BY <3>1
  <2>4. \A y \in Y : y \in X /\ x < y
    BY <2>2
  <2>5. Y \subseteq X
    OBVIOUS
  <2> HIDE DEF Y
  <2>6. PICK t \in [1 .. n -> Y] : IsSortedList(t, n)
    BY <1>2, <2>3
  <2> DEFINE s == [j \in 1 .. n + 1 |-> IF j = 1 THEN x ELSE t[j - 1]]
  <2>7. \A j \in 1 .. n + 1 : j # 1 => j - 1 \in 1 .. n
    OBVIOUS
  <2>8. \A j \in 1 .. n + 1 : j # 1 => t[j - 1] \in Y
    BY <2>7
  <2>9. s \in [1 .. n + 1 -> X]
    BY <2>4, <2>8
  <2>10. s[1] = x /\ \A j \in 1 .. n + 1 : j # 1 => s[j] = t[j - 1]
    OBVIOUS
  <2> HIDE DEF s
  <2>11. ASSUME NEW a \in 1 .. n + 1, NEW b \in 1 .. n + 1, a < b
         PROVE  s[a] < s[b]
    <3>1. b # 1 /\ s[b] = t[b - 1] /\ t[b - 1] \in Y /\ b - 1 \in 1 .. n
      BY <2>7, <2>8, <2>10, <2>11
    <3>2. CASE a = 1
      BY <2>4, <2>10, <3>1, <3>2
    <3>3. CASE a # 1
      <4>1. s[a] = t[a - 1] /\ a - 1 \in 1 .. n /\ a - 1 < b - 1
        BY <2>7, <2>10, <2>11, <3>3
      <4> DEFINE c == a - 1  d == b - 1
      <4>2. c \in 1 .. n /\ d \in 1 .. n /\ c < d
        BY <3>1, <4>1
      <4> HIDE DEF c, d
      <4>3. t[c] < t[d]
        BY <2>6, <4>2 DEF IsSortedList
      <4> QED
        BY <3>1, <4>1, <4>3 DEF c, d
    <3> QED
      BY <3>2, <3>3
  <2> QED
    BY <2>9, <2>11 DEF IsSortedList
<1> HIDE DEF T
<1>3. Nat \subseteq T
  BY <1>1, <1>2, NatSetInduction
<1>4. Cardinality(S) \in Nat
  BY FS_CardinalityType
<1> QED
  BY <1>3, <1>4 DEF T

\* SortedKeys does so.
LEMMA SortedKeysAre ==
  ASSUME NEW keys \in SUBSET Key
  PROVE  /\ Cardinality(keys) \in Nat
         /\ SortedKeys(keys) \in [1 .. Cardinality(keys) -> keys]
         /\ IsSortedList(SortedKeys(keys), Cardinality(keys))
<1>1. keys \in SUBSET Nat /\ IsFiniteSet(keys)
  BY KeyAssumption, FS_Subset
<1>2. /\ Cardinality(keys) \in Nat
      /\ \E s \in [1 .. Cardinality(keys) -> keys] : IsSortedList(s, Cardinality(keys))
  BY <1>1, SortExists
<1> QED
  BY <1>2 DEF SortedKeys, IsSortedList

(***************************************************************************)
(* The inductive invariant.  It says of every loop how far it has come:    *)
(* which cells are still the node's old ones, which are already in the     *)
(* slot they have after the insertion, and on which side of the key those  *)
(* are that have been compared with it.                                    *)
(***************************************************************************)
Count == Cardinality(call.keys)

OldCell(j) == Before.cells[j]

\* The keys of the slots below p are smaller than the key, those of the slots
\* from p on are larger.
Smaller(p) == \A j \in 0 .. p - 1 : OldCell(j).key < call.key
Larger(p) == \A j \in p .. Count - 1 : call.key < OldCell(j).key
IsPlace(p) == p \in 0 .. Count /\ Smaller(p) /\ Larger(p)

\* The overfull node, that no page has room for.
NewCell == Cell(call.key, New)
OverCell(p, t) == IF t < p THEN OldCell(t) ELSE IF t = p THEN NewCell ELSE OldCell(t - 1)

\* Slot t of the overfull node is in place.
InHalf(t, cell) ==
  IF IsPivot(t) THEN page.cells[t].key = cell.key /\ right.head = cell.val
  ELSE IF t < LeftLoad(call.load) THEN page.cells[t] = cell
  ELSE right.cells[t - LeftLoad(call.load)] = cell

TargetSlot(p, j) == IF p <= j THEN j + 1 ELSE j

Untouched == page = Before

Shifting ==
  /\ call.fn \in Inserts
  /\ page.num = Count + 1 /\ page.head = Before.head
  /\ i \in 0 .. Count
  /\ Larger(i)
  /\ \A j \in 0 .. i - 1 : page.cells[j] = OldCell(j)
  /\ \A j \in i .. Count - 1 : page.cells[j + 1] = OldCell(j)
  /\ IsInner => Count > 0

Scanning ==
  /\ call.fn = "leaf_split"
  /\ Untouched
  /\ key_pos \in 0 .. Count /\ Larger(key_pos)

Searching ==
  /\ call.fn \in {"search", "inner_split"}
  /\ Untouched
  /\ 0 <= start /\ start <= end + 1 /\ end <= Count - 1
  /\ Smaller(start) /\ Larger(end + 1)

Moving ==
  /\ call.fn \in Splits
  /\ IsPlace(key_pos)
  /\ page.head = Before.head
  /\ right.num = RightLoad(call.load)
  /\ \A j \in 0 .. i : page.cells[j] = OldCell(j)
  /\ \A j \in i + 1 .. Count - 1 : InHalf(TargetSlot(key_pos, j), OldCell(j))

Moved ==
  /\ call.fn \in Splits
  /\ IsPlace(key_pos)
  /\ page.head = Before.head
  /\ right.num = RightLoad(call.load)
  /\ \A t \in 0 .. call.load : InHalf(t, OverCell(key_pos, t))

IndInv ==
  /\ NodeArraysTypeOK
  /\ pc = "call" => Untouched
  /\ pc = "shift" => Shifting
  /\ pc = "scan" => Scanning
  /\ pc = "search" => Searching
  /\ pc = "move" => Moving
  /\ pc = "cut" => Moved
  /\ ComputesReference
  /\ SearchFinds

(***************************************************************************)
(* The call, and the page it finds.                                        *)
(***************************************************************************)
CellOf(load) == [key : Key \cup {Junk}, val : 1 .. load \cup {New, Junk}]

\* How many keys there are where; a load is twice its half.
LEMMA CallFacts ==
  ASSUME call \in Calls
  PROVE  /\ call.load \in Nat \ {0} /\ call.key \in Key /\ call.key \in Nat
         /\ call.keys \subseteq Key
         /\ Count \in 0 .. call.load /\ Count \in Nat
         /\ call.fn \in Inserts \cup Splits \cup {"search"}
         /\ call.fn \in Inserts => Count < call.load /\ call.key \notin call.keys
         /\ call.fn \in Splits => Count = call.load /\ call.key \notin call.keys
         /\ call.fn = "search" => Count > 0
         /\ RightLoad(call.load) \in Nat \ {0}
         /\ call.load = 2 * RightLoad(call.load)
         /\ LeftLoad(call.load) = RightLoad(call.load) + 1
<1>1. /\ call.fn \in Inserts \cup Splits \cup {"search"} /\ call.load \in Loads
      /\ call.keys \in SUBSET Key /\ call.key \in Key /\ IsCall(call)
  BY DEF Calls
<1>2. Count \in Nat
  BY <1>1, SortedKeysAre DEF Count
<1>3. call.load \in Nat /\ call.load > 0 /\ call.load % 2 = 0
  BY <1>1, LoadsAssumption
<1>4. call.load \div 2 \in Nat \ {0} /\ call.load = 2 * (call.load \div 2)
  BY <1>3
<1>5. /\ call.fn \in Inserts => Count < call.load /\ call.key \notin call.keys
      /\ call.fn \in Splits => Count = call.load /\ call.key \notin call.keys
      /\ call.fn = "search" => Count \in 1 .. call.load
  BY <1>1 DEF IsCall, Count, Inserts, Splits
<1>6. Count \in 0 .. call.load
  BY <1>1, <1>2, <1>3, <1>5
<1>7. call.key \in Nat
  BY <1>1, KeyAssumption
<1> QED
  BY <1>1, <1>2, <1>3, <1>4, <1>5, <1>6, <1>7 DEF RightLoad, LeftLoad

\* The node's keys are in its page in order, each with its row or right child.
LEMMA BeforeFacts ==
  ASSUME call \in Calls
  PROVE  /\ Before \in Page(call.load) /\ Before.num = Count
         /\ \A j \in 0 .. Count - 1 :
              /\ OldCell(j) \in CellOf(call.load)
              /\ OldCell(j).key \in call.keys /\ OldCell(j).key \in Nat
         /\ \A a, b \in 0 .. Count - 1 : a < b => OldCell(a).key < OldCell(b).key
         /\ Before.head = IF call.keys = {} THEN Junk ELSE 0
<1> DEFINE n == call.load  s == SortedKeys(call.keys)
           c == [j \in 0 .. n - 1 |->
                  IF j < Len(s) THEN Cell(s[j + 1], j + 1) ELSE Cell(Junk, Junk)]
<1>1. n \in Nat \ {0} /\ Count \in 0 .. n /\ Count \in Nat /\ call.keys \subseteq Key
  BY CallFacts
<1>2. s \in [1 .. Count -> call.keys] /\ IsSortedList(s, Count)
  BY <1>1, SortedKeysAre DEF Count
<1>3. Len(s) = Count
  BY <1>1, <1>2
<1>4. Before = [num |-> Len(s), head |-> IF call.keys = {} THEN Junk ELSE 0, cells |-> c]
  BY DEF Before, PageOf
<1>5. \A j \in 0 .. Count - 1 : OldCell(j) = Cell(s[j + 1], j + 1)
  <2>1. \A j \in 0 .. Count - 1 : c[j] = Cell(s[j + 1], j + 1)
    BY <1>1, <1>3
  <2> HIDE DEF c
  <2> QED
    BY <1>4, <2>1 DEF OldCell
<1>6. \A j \in 0 .. Count - 1 : j + 1 \in 1 .. Count /\ j + 1 \in 1 .. n
  BY <1>1
<1> HIDE DEF s
<1>7. \A j \in 0 .. Count - 1 : s[j + 1] \in call.keys
  BY <1>2, <1>6
<1>8. \A j \in 0 .. Count - 1 :
        /\ OldCell(j) \in CellOf(n)
        /\ OldCell(j).key \in call.keys /\ OldCell(j).key \in Nat
  <2> SUFFICES ASSUME NEW j \in 0 .. Count - 1
               PROVE  /\ OldCell(j) \in CellOf(n)
                      /\ OldCell(j).key \in call.keys /\ OldCell(j).key \in Nat
    OBVIOUS
  <2> DEFINE k == s[j + 1]  v == j + 1
  <2>1. k \in call.keys /\ v \in 1 .. n /\ OldCell(j) = Cell(k, v)
    BY <1>5, <1>6, <1>7
  <2>2. k \in Key /\ k \in Nat
    BY <1>1, <2>1, KeyAssumption
  <2> HIDE DEF k, v
  <2> QED
    BY <2>1, <2>2 DEF Cell, CellOf
<1>9. ASSUME NEW a \in 0 .. Count - 1, NEW b \in 0 .. Count - 1, a < b
      PROVE  OldCell(a).key < OldCell(b).key
  <2> DEFINE d == a + 1  e == b + 1
  <2>1. d \in 1 .. Count /\ e \in 1 .. Count /\ d < e
    BY <1>1, <1>9
  <2>2. OldCell(a).key = s[d] /\ OldCell(b).key = s[e]
    BY <1>5 DEF Cell
  <2> HIDE DEF d, e
  <2> QED
    BY <1>2, <2>1, <2>2 DEF IsSortedList
<1>10. c \in [0 .. n - 1 -> CellOf(n)]
  <2>1. \A j \in 0 .. n - 1 : j < Count => j \in 0 .. Count - 1
    BY <1>1
  <2>2. \A j \in 0 .. n - 1 : j < Count => Cell(s[j + 1], j + 1) \in CellOf(n)
    BY <1>5, <1>8, <2>1
  <2>3. Cell(Junk, Junk) \in CellOf(n)
    BY DEF Cell, CellOf
  <2> QED
    BY <1>3, <2>2, <2>3
<1> HIDE DEF c
<1>11. Before \in Page(n)
  BY <1>1, <1>3, <1>4, <1>10 DEF Page, CellOf
<1> QED
  BY <1>3, <1>4, <1>8, <1>9, <1>11

\* A page with another cell in a slot.
WithCell(q, p, j, c) == q = [p EXCEPT !.cells[j] = c]

LEMMA PageWithCell ==
  ASSUME NEW n \in Nat, NEW p \in Page(n), NEW j \in 0 .. n - 1, NEW c \in CellOf(n),
         NEW q, WithCell(q, p, j, c)
  PROVE  /\ q \in Page(n) /\ q.num = p.num /\ q.head = p.head
         /\ q.cells[j] = c
         /\ \A t \in 0 .. n - 1 : t # j => q.cells[t] = p.cells[t]
BY DEF Page, CellOf, WithCell

\* The cells of a page.
LEMMA CellsOfPage ==
  ASSUME NEW n \in Nat, NEW p \in Page(n), NEW j \in 0 .. n - 1
  PROVE  p.cells[j] \in CellOf(n)
BY DEF Page, CellOf

(***************************************************************************)
(* The node of BtreeNode that the old cells and the new one make.          *)
(***************************************************************************)
OverKeys(p) == InsertAt(Keys(Before), p + 1, call.key)
OverRows(p) == InsertAt(Rows(Before), p + 1, New)
OverChildren(p) == InsertAt(Children(Before), p + 2, New)

\* The key's place is the position that BtreeNode asks for; there is only one.
LEMMA PlaceIsPosition ==
  ASSUME call \in Calls, NEW p, IsPlace(p)
  PROVE  PositionIn(Keys(Before)) = p
<1> DEFINE k == Keys(Before)
<1>1. /\ Count \in Nat /\ Before.num = Count /\ call.key \in Nat /\ p \in 0 .. Count
      /\ \A j \in 0 .. Count - 1 : OldCell(j).key \in Nat
  BY CallFacts, BeforeFacts DEF IsPlace
<1>2. Len(k) = Count /\ \A j \in 1 .. Count : k[j] = OldCell(j - 1).key
  BY <1>1 DEF Keys, OldCell
<1>3. \A j \in 1 .. Count : j - 1 \in 0 .. Count - 1 /\ k[j] \in Nat
  <2>1. \A j \in 1 .. Count : j - 1 \in 0 .. Count - 1
    BY <1>1
  <2> QED
    BY <1>1, <1>2, <2>1
<1>4. \A j \in 1 .. Count : (j <= p => k[j] < call.key) /\ (j > p => call.key < k[j])
  <2> SUFFICES ASSUME NEW j \in 1 .. Count
               PROVE  (j <= p => k[j] < call.key) /\ (j > p => call.key < k[j])
    OBVIOUS
  <2> DEFINE h == j - 1
  <2>1. k[j] = OldCell(h).key /\ h \in 0 .. Count - 1
    BY <1>2, <1>3
  <2>2. (j <= p => h \in 0 .. p - 1) /\ (j > p => h \in p .. Count - 1)
    BY <1>1
  <2> HIDE DEF h, k
  <2> QED
    BY <2>1, <2>2 DEF IsPlace, Smaller, Larger
<1> HIDE DEF k
<1>5. IsKeyPosition(k, call.key, p)
  <2>1. \A j \in 1 .. p : k[j] <= call.key
    <3>1. \A j \in 1 .. p : j \in 1 .. Count /\ j <= p
      BY <1>1
    <3> QED
      BY <1>1, <1>3, <1>4, <3>1
  <2>2. \A j \in (p + 1) .. Len(k) : call.key < k[j]
    <3>1. \A j \in (p + 1) .. Count : j \in 1 .. Count /\ j > p
      BY <1>1
    <3> QED
      BY <1>2, <1>4, <3>1
  <2> QED
    BY <1>1, <1>2, <2>1, <2>2 DEF IsKeyPosition
<1>6. ASSUME NEW q \in 0 .. Len(k), IsKeyPosition(k, call.key, q)
      PROVE  q = p
  <2>1. CASE q < p
    <3> DEFINE j == q + 1
    <3>1. j \in 1 .. Count /\ j <= p /\ j \in q + 1 .. Len(k)
      BY <1>1, <1>2, <2>1
    <3> HIDE DEF j
    <3>2. call.key < k[j]
      BY <1>6, <3>1 DEF IsKeyPosition
    <3> QED
      BY <1>1, <1>3, <1>4, <3>1, <3>2
  <2>2. CASE p < q
    <3> DEFINE j == p + 1
    <3>1. j \in 1 .. Count /\ j > p /\ j \in 1 .. q
      BY <1>1, <1>2, <2>2
    <3> HIDE DEF j
    <3>2. k[j] <= call.key
      BY <1>6, <3>1 DEF IsKeyPosition
    <3> QED
      BY <1>1, <1>3, <1>4, <3>1, <3>2
  <2> QED
    BY <1>1, <1>2, <2>1, <2>2
<1>7. p \in 0 .. Len(k)
  BY <1>1, <1>2
<1> QED
  BY <1>5, <1>6, <1>7 DEF PositionIn, k

\* The lists of that node, slot by slot.
LEMMA OverLists ==
  ASSUME call \in Calls, NEW p \in 0 .. Count
  PROVE  /\ OverKeys(p) \in Seq(Key) /\ Len(OverKeys(p)) = Count + 1
         /\ \A t \in 0 .. Count : OverKeys(p)[t + 1] = OverCell(p, t).key
         /\ OverRows(p) \in Seq(1 .. call.load \cup {New, Junk})
         /\ Len(OverRows(p)) = Count + 1
         /\ \A t \in 0 .. Count : OverRows(p)[t + 1] = OverCell(p, t).val
         /\ OverChildren(p) \in Seq(0 .. call.load \cup {New, Junk})
         /\ Len(OverChildren(p)) = Count + 2
         /\ OverChildren(p)[1] = Before.head
         /\ \A t \in 0 .. Count : OverChildren(p)[t + 2] = OverCell(p, t).val
<1> DEFINE n == call.load
<1>1. /\ Count \in Nat /\ Before.num = Count /\ call.key \in Key /\ p \in Nat
      /\ Before \in Page(n) /\ call.keys \subseteq Key /\ n \in Nat
      /\ \A j \in 0 .. Count - 1 : OldCell(j) \in CellOf(n) /\ OldCell(j).key \in call.keys
  BY CallFacts, BeforeFacts
<1>2. /\ Before.head \in 0 .. n \cup {New, Junk}
      /\ \A j \in 0 .. Count - 1 : OldCell(j).val \in 1 .. n \cup {New, Junk}
      /\ \A j \in 0 .. Count - 1 : OldCell(j).key \in Key
  BY <1>1 DEF Page, CellOf
<1>3. \A j \in 1 .. Count : j - 1 \in 0 .. Count - 1
  BY <1>1
<1>4. /\ Keys(Before) \in Seq(Key) /\ Len(Keys(Before)) = Count
      /\ \A j \in 1 .. Count : Keys(Before)[j] = OldCell(j - 1).key
  <2>1. Keys(Before) = [j \in 1 .. Count |-> OldCell(j - 1).key]
    BY <1>1 DEF Keys, OldCell
  <2>2. \A j \in 1 .. Count : OldCell(j - 1).key \in Key
    BY <1>2, <1>3
  <2> QED
    BY <1>1, <2>1, <2>2
<1>5. /\ Rows(Before) \in Seq(1 .. n \cup {New, Junk}) /\ Len(Rows(Before)) = Count
      /\ \A j \in 1 .. Count : Rows(Before)[j] = OldCell(j - 1).val
  <2>1. Rows(Before) = [j \in 1 .. Count |-> OldCell(j - 1).val]
    BY <1>1 DEF Rows, OldCell
  <2>2. \A j \in 1 .. Count : OldCell(j - 1).val \in 1 .. n \cup {New, Junk}
    BY <1>2, <1>3
  <2> QED
    BY <1>1, <2>1, <2>2
<1>6. /\ Children(Before) \in Seq(0 .. n \cup {New, Junk})
      /\ Len(Children(Before)) = Count + 1
      /\ Children(Before)[1] = Before.head
      /\ \A j \in 2 .. Count + 1 : Children(Before)[j] = OldCell(j - 2).val
  <2> DEFINE c(j) == IF j = 1 THEN Before.head ELSE OldCell(j - 2).val
  <2>1. \A j \in 1 .. Count + 1 : j # 1 => j - 2 \in 0 .. Count - 1
    BY <1>1
  <2>2. \A j \in 1 .. Count + 1 : c(j) \in 0 .. n \cup {New, Junk}
    BY <1>1, <1>2, <2>1
  <2>3. \A j \in 1 .. Count + 1 : ChildAt(Before, j - 1) = c(j)
    <3>1. \A j \in 1 .. Count + 1 : (j - 1 = 0 <=> j = 1) /\ (j - 1) - 1 = j - 2
      BY <1>1
    <3> QED
      BY <3>1 DEF ChildAt, OldCell
  <2>4. Children(Before) = [j \in 1 .. Count + 1 |-> c(j)]
    BY <1>1, <2>3 DEF Children
  <2>5. c(1) = Before.head /\ \A j \in 2 .. Count + 1 : c(j) = OldCell(j - 2).val
    OBVIOUS
  <2>6. 1 \in 1 .. Count + 1 /\ (2 .. Count + 1) \subseteq (1 .. Count + 1)
    BY <1>1
  <2>7. Count + 1 \in Nat
    BY <1>1
  <2> HIDE DEF c
  <2> QED
    BY <2>2, <2>4, <2>5, <2>6, <2>7
<1>7. /\ OverKeys(p) \in Seq(Key) /\ IsInserted(OverKeys(p), Keys(Before), p + 1, call.key)
  <2>1. p + 1 \in 1 .. Len(Keys(Before)) + 1
    BY <1>1, <1>4
  <2> QED
    BY <1>1, <1>4, <2>1, Inserted DEF OverKeys
<1>8. /\ OverRows(p) \in Seq(1 .. n \cup {New, Junk})
      /\ IsInserted(OverRows(p), Rows(Before), p + 1, New)
  <2>1. p + 1 \in 1 .. Len(Rows(Before)) + 1
    BY <1>1, <1>5
  <2>2. New \in 1 .. n \cup {New, Junk}
    OBVIOUS
  <2> QED
    BY <1>5, <2>1, <2>2, Inserted DEF OverRows
<1>9. /\ OverChildren(p) \in Seq(0 .. n \cup {New, Junk})
      /\ IsInserted(OverChildren(p), Children(Before), p + 2, New)
  <2>1. p + 2 \in 1 .. Len(Children(Before)) + 1
    BY <1>1, <1>6
  <2>2. New \in 0 .. n \cup {New, Junk}
    OBVIOUS
  <2> QED
    BY <1>6, <2>1, <2>2, Inserted DEF OverChildren
<1>10. ASSUME NEW t \in 0 .. Count
       PROVE  /\ OverKeys(p)[t + 1] = OverCell(p, t).key
              /\ OverRows(p)[t + 1] = OverCell(p, t).val
              /\ OverChildren(p)[t + 2] = OverCell(p, t).val
  <2>1. t \in Nat /\ t + 1 \in 1 .. Count + 1 /\ t + 2 \in 1 .. (Count + 1) + 1
    BY <1>1
  <2>2. CASE t < p
    <3>1. t + 1 < p + 1 /\ t + 2 < p + 2 /\ t + 1 \in 1 .. Count /\ t + 2 \in 2 .. Count + 1
          /\ (t + 1) - 1 = t /\ (t + 2) - 2 = t
      BY <1>1, <2>1, <2>2
    <3>2. OverCell(p, t) = OldCell(t)
      BY <2>2 DEF OverCell
    <3> QED
      BY <1>4, <1>5, <1>6, <1>7, <1>8, <1>9, <2>1, <3>1, <3>2 DEF IsInserted
  <2>3. CASE t = p
    <3>1. OverCell(p, t).key = call.key /\ OverCell(p, t).val = New
      BY <1>1, <2>1, <2>3 DEF OverCell, NewCell, Cell
    <3>2. ~(t + 1 < p + 1) /\ ~(t + 2 < p + 2) /\ t + 1 = p + 1 /\ t + 2 = p + 2
      BY <1>1, <2>3
    <3> QED
      BY <1>4, <1>5, <1>6, <1>7, <1>8, <1>9, <2>1, <3>1, <3>2 DEF IsInserted
  <2>4. CASE p < t
    <3>1. ~(t + 1 < p + 1) /\ ~(t + 2 < p + 2) /\ t + 1 # p + 1 /\ t + 2 # p + 2
          /\ (t + 1) - 1 \in 1 .. Count /\ (t + 2) - 1 \in 2 .. Count + 1
          /\ ((t + 1) - 1) - 1 = t - 1 /\ ((t + 2) - 1) - 2 = t - 1
      BY <1>1, <2>1, <2>4
    <3>2. OverCell(p, t) = OldCell(t - 1)
      BY <1>1, <2>1, <2>4 DEF OverCell
    <3> QED
      BY <1>4, <1>5, <1>6, <1>7, <1>8, <1>9, <2>1, <3>1, <3>2 DEF IsInserted
  <2> QED
    BY <1>1, <2>1, <2>2, <2>3, <2>4
<1>11. OverChildren(p)[1] = Before.head
  <2>1. 1 \in 1 .. (Count + 1) + 1 /\ 1 < p + 2
    BY <1>1
  <2> QED
    BY <1>6, <1>9, <2>1 DEF IsInserted
<1>12. Count + 1 + 1 = Count + 2
  BY <1>1
<1> QED
  BY <1>4, <1>5, <1>6, <1>7, <1>8, <1>9, <1>10, <1>11, <1>12 DEF IsInserted

\* A page of k cells that are those of the overfull node from slot o on has the
\* slice of its keys,
LEMMA PageKeys ==
  ASSUME call \in Calls, NEW p \in 0 .. Count, NEW o \in Nat, NEW k \in Nat,
         o + k <= Count + 1,
         NEW q, q.num = k,
         \A t \in 0 .. k - 1 : q.cells[t].key = OverCell(p, o + t).key
  PROVE  Keys(q) = SubSeq(OverKeys(p), o + 1, o + k)
<1> DEFINE s == OverKeys(p)  m == o + 1  r == o + k
<1>1. /\ s \in Seq(Key) /\ Len(s) = Count + 1 /\ Count \in Nat
      /\ \A t \in 0 .. Count : s[t + 1] = OverCell(p, t).key
  BY OverLists, CallFacts
<1> HIDE DEF s
<1>2. m \in 1 .. Len(s) + 1 /\ r \in m - 1 .. Len(s) /\ r - m + 1 = k
  BY <1>1
<1>3. SubSeq(s, m, r) \in Seq(Key) /\ IsSlice(SubSeq(s, m, r), s, m, r)
  BY <1>1, <1>2, Sliced
<1> HIDE DEF m, r
<1>4. Len(SubSeq(s, m, r)) = k /\ \A j \in 1 .. k : SubSeq(s, m, r)[j] = s[m + j - 1]
  BY <1>2, <1>3 DEF IsSlice
<1>5. \A j \in 1 .. k : s[m + j - 1] = q.cells[j - 1].key
  <2> SUFFICES ASSUME NEW j \in 1 .. k PROVE s[m + j - 1] = q.cells[j - 1].key
    OBVIOUS
  <2> DEFINE t == j - 1  u == o + t
  <2>1. t \in 0 .. k - 1 /\ u \in 0 .. Count /\ m + j - 1 = u + 1 /\ u = o + t
    BY <1>1 DEF m
  <2>2. q.cells[t].key = OverCell(p, u).key
    BY <2>1
  <2> HIDE DEF t, u
  <2>3. s[m + j - 1] = q.cells[t].key
    BY <1>1, <2>1, <2>2
  <2> QED
    BY <2>3 DEF t
<1>6. Keys(q) = [j \in 1 .. k |-> q.cells[j - 1].key]
  BY DEF Keys
<1>7. SubSeq(s, m, r) = [j \in 1 .. k |-> q.cells[j - 1].key]
  <2> DEFINE list == SubSeq(s, m, r)
  <2>1. list \in Seq(Key) /\ Len(list) = k
    BY <1>3, <1>4
  <2>2. \A j \in 1 .. k : list[j] = q.cells[j - 1].key
    BY <1>4, <1>5
  <2> HIDE DEF list
  <2>3. list = [j \in 1 .. k |-> list[j]]
    BY <2>1
  <2> QED
    BY <2>2, <2>3 DEF list
<1> QED
  BY <1>6, <1>7 DEF s, m, r

\* of its rows, if it is a leaf,
LEMMA PageRows ==
  ASSUME call \in Calls, NEW p \in 0 .. Count, NEW o \in Nat, NEW k \in Nat,
         o + k <= Count + 1,
         NEW q, q.num = k,
         \A t \in 0 .. k - 1 : q.cells[t].val = OverCell(p, o + t).val
  PROVE  Rows(q) = SubSeq(OverRows(p), o + 1, o + k)
<1> DEFINE s == OverRows(p)  m == o + 1  r == o + k  S == 1 .. call.load \cup {New, Junk}
<1>1. /\ s \in Seq(S) /\ Len(s) = Count + 1 /\ Count \in Nat
      /\ \A t \in 0 .. Count : s[t + 1] = OverCell(p, t).val
  BY OverLists, CallFacts
<1> HIDE DEF s, S
<1>2. m \in 1 .. Len(s) + 1 /\ r \in m - 1 .. Len(s) /\ r - m + 1 = k
  BY <1>1
<1>3. SubSeq(s, m, r) \in Seq(S) /\ IsSlice(SubSeq(s, m, r), s, m, r)
  BY <1>1, <1>2, Sliced
<1> HIDE DEF m, r
<1>4. Len(SubSeq(s, m, r)) = k /\ \A j \in 1 .. k : SubSeq(s, m, r)[j] = s[m + j - 1]
  BY <1>2, <1>3 DEF IsSlice
<1>5. \A j \in 1 .. k : s[m + j - 1] = q.cells[j - 1].val
  <2> SUFFICES ASSUME NEW j \in 1 .. k PROVE s[m + j - 1] = q.cells[j - 1].val
    OBVIOUS
  <2> DEFINE t == j - 1  u == o + t
  <2>1. t \in 0 .. k - 1 /\ u \in 0 .. Count /\ m + j - 1 = u + 1 /\ u = o + t
    BY <1>1 DEF m
  <2>2. q.cells[t].val = OverCell(p, u).val
    BY <2>1
  <2> HIDE DEF t, u
  <2>3. s[m + j - 1] = q.cells[t].val
    BY <1>1, <2>1, <2>2
  <2> QED
    BY <2>3 DEF t
<1>6. Rows(q) = [j \in 1 .. k |-> q.cells[j - 1].val]
  BY DEF Rows
<1>7. SubSeq(s, m, r) = [j \in 1 .. k |-> q.cells[j - 1].val]
  <2> DEFINE list == SubSeq(s, m, r)
  <2>1. list \in Seq(S) /\ Len(list) = k
    BY <1>3, <1>4
  <2>2. \A j \in 1 .. k : list[j] = q.cells[j - 1].val
    BY <1>4, <1>5
  <2> HIDE DEF list
  <2>3. list = [j \in 1 .. k |-> list[j]]
    BY <2>1
  <2> QED
    BY <2>2, <2>3 DEF list
<1> QED
  BY <1>6, <1>7 DEF s, m, r

HasChildren(q, p, o, k) == Children(q) = SubSeq(OverChildren(p), o + 1, o + k + 1)

\* and of its children, if it is an inner node whose first child is the one
\* before slot o.
LEMMA PageChildren ==
  ASSUME call \in Calls, NEW p \in 0 .. Count, NEW o \in Nat, NEW k \in Nat,
         o + k <= Count + 1,
         NEW q, q.num = k,
         q.head = IF o = 0 THEN Before.head ELSE OverCell(p, o - 1).val,
         \A t \in 0 .. k - 1 : q.cells[t].val = OverCell(p, o + t).val
  PROVE  HasChildren(q, p, o, k)
<1> DEFINE s == OverChildren(p)  m == o + 1  r == o + k + 1  l == k + 1
           S == 0 .. call.load \cup {New, Junk}
<1>1. /\ s \in Seq(S) /\ Len(s) = Count + 2 /\ Count \in Nat
      /\ s[1] = Before.head
      /\ \A t \in 0 .. Count : s[t + 2] = OverCell(p, t).val
  BY OverLists, CallFacts
<1> HIDE DEF s, S
<1>2. m \in 1 .. Len(s) + 1 /\ r \in m - 1 .. Len(s) /\ r - m + 1 = l /\ l \in Nat
  BY <1>1
<1>3. SubSeq(s, m, r) \in Seq(S) /\ IsSlice(SubSeq(s, m, r), s, m, r)
  BY <1>1, <1>2, Sliced
<1>4. Children(q) = [j \in 1 .. l |-> ChildAt(q, j - 1)]
  BY DEF Children
<1>5. \A j \in 1 .. l : s[m + j - 1] = ChildAt(q, j - 1)
  <2> SUFFICES ASSUME NEW j \in 1 .. l PROVE s[m + j - 1] = ChildAt(q, j - 1)
    OBVIOUS
  <2>1. CASE j = 1
    <3>1. ChildAt(q, j - 1) = q.head /\ m + j - 1 = o + 1
      BY <2>1 DEF ChildAt
    <3>2. CASE o = 0
      BY <1>1, <3>1, <3>2
    <3>3. CASE o # 0
      <4>1. o - 1 \in 0 .. Count /\ o + 1 = (o - 1) + 2
        BY <1>1, <3>3
      <4> DEFINE e == o - 1
      <4>2. e \in 0 .. Count /\ o + 1 = e + 2 /\ q.head = OverCell(p, e).val
        BY <3>3, <4>1
      <4> HIDE DEF e
      <4> QED
        BY <1>1, <3>1, <4>2
    <3> QED
      BY <3>2, <3>3
  <2>2. CASE j # 1
    <3> DEFINE t == j - 2  u == o + t
    <3>1. t \in 0 .. k - 1 /\ u \in 0 .. Count /\ m + j - 1 = u + 2 /\ u = o + t
          /\ j - 1 # 0 /\ (j - 1) - 1 = t
      BY <1>1, <2>2
    <3>2. q.cells[t].val = OverCell(p, u).val
      BY <3>1
    <3>3. ChildAt(q, j - 1) = q.cells[t].val
      BY <3>1 DEF ChildAt
    <3> HIDE DEF t, u
    <3> QED
      BY <1>1, <3>1, <3>2, <3>3
  <2> QED
    BY <2>1, <2>2
<1> HIDE DEF m, r, l
<1>6. Len(SubSeq(s, m, r)) = l /\ \A j \in 1 .. l : SubSeq(s, m, r)[j] = s[m + j - 1]
  BY <1>2, <1>3 DEF IsSlice
<1>7. SubSeq(s, m, r) = [j \in 1 .. l |-> ChildAt(q, j - 1)]
  <2> DEFINE list == SubSeq(s, m, r)
  <2>1. list \in Seq(S) /\ Len(list) = l
    BY <1>3, <1>6
  <2>2. \A j \in 1 .. l : list[j] = ChildAt(q, j - 1)
    BY <1>5, <1>6
  <2> HIDE DEF list
  <2>3. list = [j \in 1 .. l |-> list[j]]
    BY <2>1
  <2> QED
    BY <2>2, <2>3 DEF list
<1> QED
  BY <1>4, <1>7 DEF s, m, r, HasChildren

(***************************************************************************)
(* What the calls leave in the pages.                                      *)
(***************************************************************************)

\* Two nodes with the same fields are the same.
NodeFields == {"kind", "is_root", "parent", "keys", "rows", "children"}

LEMMA SameFields ==
  ASSUME NEW f, NEW g,
         f = [k \in NodeFields |-> f[k]], g = [k \in NodeFields |-> g[k]],
         f.kind = g.kind, f.is_root = g.is_root, f.parent = g.parent,
         f.keys = g.keys, f.rows = g.rows, f.children = g.children
  PROVE  f = g
<1>1. \A k \in NodeFields : f[k] = g[k]
  BY DEF NodeFields
<1> QED
  BY <1>1

\* A node with other lists.
WithRows(f, e, a, b) == f = [e EXCEPT !.keys = a, !.rows = b]
WithChildren(f, e, a, c) == f = [e EXCEPT !.keys = a, !.children = c]

LEMMA LeafWithLists ==
  ASSUME NEW ks, NEW rs, NEW e, e = LeafNode(FALSE, 0, ks, rs),
         NEW a, NEW b, NEW f, WithRows(f, e, a, b)
  PROVE  f = LeafNode(FALSE, 0, a, b)
<1> DEFINE g == LeafNode(FALSE, 0, a, b)
<1>1. e = [k \in NodeFields |-> e[k]] /\ g = [k \in NodeFields |-> g[k]]
  BY DEF LeafNode, NodeFields
<1>2. f = [k \in NodeFields |-> f[k]]
  BY <1>1 DEF WithRows
<1>3. /\ f.kind = g.kind /\ f.is_root = g.is_root /\ f.parent = g.parent
      /\ f.keys = g.keys /\ f.rows = g.rows /\ f.children = g.children
  BY DEF LeafNode, WithRows
<1> HIDE DEF g
<1>4. f = g
  BY <1>1, <1>2, <1>3, SameFields
<1> QED
  BY <1>4 DEF g

LEMMA InnerWithLists ==
  ASSUME NEW ks, NEW cs, NEW e, e = InternalNode(FALSE, 0, ks, cs),
         NEW a, NEW c, NEW f, WithChildren(f, e, a, c)
  PROVE  f = InternalNode(FALSE, 0, a, c)
<1> DEFINE g == InternalNode(FALSE, 0, a, c)
<1>1. e = [k \in NodeFields |-> e[k]] /\ g = [k \in NodeFields |-> g[k]]
  BY DEF InternalNode, NodeFields
<1>2. f = [k \in NodeFields |-> f[k]]
  BY <1>1 DEF WithChildren
<1>3. /\ f.kind = g.kind /\ f.is_root = g.is_root /\ f.parent = g.parent
      /\ f.keys = g.keys /\ f.rows = g.rows /\ f.children = g.children
  BY DEF InternalNode, WithChildren
<1> HIDE DEF g
<1>4. f = g
  BY <1>1, <1>2, <1>3, SameFields
<1> QED
  BY <1>4 DEF g

\* The overfull node as BtreeNode makes it.
LEMMA OverNodes ==
  ASSUME NEW p
  PROVE  /\ LeafWithCell(Leaf(Before), call.key, New, p)
              = LeafNode(FALSE, 0, OverKeys(p), OverRows(p))
         /\ InnerWithKey(Inner(Before), call.key, New, p)
              = InternalNode(FALSE, 0, OverKeys(p), OverChildren(p))
<1> DEFINE e == Leaf(Before)  f == LeafWithCell(e, call.key, New, p)
           g == Inner(Before)  h == InnerWithKey(g, call.key, New, p)
           ks == Keys(Before)  rs == Rows(Before)  cs == Children(Before)
<1>1. e = LeafNode(FALSE, 0, ks, rs) /\ g = InternalNode(FALSE, 0, ks, cs)
  BY DEF Leaf, Inner
<1>2. e.keys = ks /\ e.rows = rs /\ g.keys = ks /\ g.children = cs
  BY <1>1 DEF LeafNode, InternalNode
<1> HIDE DEF e, g
<1>3. /\ WithRows(f, e, OverKeys(p), OverRows(p))
      /\ WithChildren(h, g, OverKeys(p), OverChildren(p))
  BY <1>2 DEF WithRows, WithChildren, LeafWithCell, InnerWithKey,
             OverKeys, OverRows, OverChildren
<1> HIDE DEF f, h, ks, rs, cs
<1>4. f = LeafNode(FALSE, 0, OverKeys(p), OverRows(p))
  BY <1>1, <1>3, LeafWithLists
<1>5. h = InternalNode(FALSE, 0, OverKeys(p), OverChildren(p))
  BY <1>1, <1>3, InnerWithLists
<1> QED
  BY <1>4, <1>5 DEF e, f, g, h

\* Its halves.
LeafHalves(e, ks, rs, n) ==
  /\ LeftLeaf(e, n)
       = LeafNode(FALSE, 0, SubSeq(ks, 1, LeftLoad(n)), SubSeq(rs, 1, LeftLoad(n)))
  /\ RightLeaf(e, n, FALSE, 0)
       = LeafNode(FALSE, 0, SubSeq(ks, LeftLoad(n) + 1, n + 1),
                            SubSeq(rs, LeftLoad(n) + 1, n + 1))
  /\ KeyUpward(e, n) = ks[LeftLoad(n)]

InnerHalves(e, ks, cs, n) ==
  /\ LeftInner(e, n)
       = InternalNode(FALSE, 0, SubSeq(ks, 1, PivotSlot(n) - 1),
                                SubSeq(cs, 1, PivotSlot(n)))
  /\ RightInner(e, n, FALSE, 0)
       = InternalNode(FALSE, 0, SubSeq(ks, PivotSlot(n) + 1, n + 1),
                                SubSeq(cs, PivotSlot(n) + 1, n + 2))
  /\ Pivot(e, n) = ks[PivotSlot(n)]

LEMMA HalfLeaves ==
  ASSUME NEW ks, NEW rs, NEW n, NEW e, e = LeafNode(FALSE, 0, ks, rs)
  PROVE  LeafHalves(e, ks, rs, n)
<1> DEFINE f == LeftLeaf(e, n)
           a == SubSeq(ks, 1, LeftLoad(n))  b == SubSeq(rs, 1, LeftLoad(n))
<1>1. e.keys = ks /\ e.rows = rs
  BY DEF LeafNode
<1>2. WithRows(f, e, a, b)
  BY <1>1 DEF WithRows, LeftLeaf
<1>3. /\ RightLeaf(e, n, FALSE, 0)
           = LeafNode(FALSE, 0, SubSeq(ks, LeftLoad(n) + 1, n + 1),
                                SubSeq(rs, LeftLoad(n) + 1, n + 1))
      /\ KeyUpward(e, n) = ks[LeftLoad(n)]
  BY <1>1 DEF RightLeaf, KeyUpward
<1> HIDE DEF f, a, b
<1>4. f = LeafNode(FALSE, 0, a, b)
  BY <1>2, LeafWithLists
<1> QED
  BY <1>3, <1>4 DEF a, b, f, LeafHalves

LEMMA HalfInners ==
  ASSUME NEW ks, NEW cs, NEW n, NEW e, e = InternalNode(FALSE, 0, ks, cs)
  PROVE  InnerHalves(e, ks, cs, n)
<1> DEFINE f == LeftInner(e, n)
           a == SubSeq(ks, 1, PivotSlot(n) - 1)  b == SubSeq(cs, 1, PivotSlot(n))
<1>1. e.keys = ks /\ e.children = cs
  BY DEF InternalNode
<1>2. WithChildren(f, e, a, b)
  BY <1>1 DEF WithChildren, LeftInner
<1>3. /\ RightInner(e, n, FALSE, 0)
           = InternalNode(FALSE, 0, SubSeq(ks, PivotSlot(n) + 1, n + 1),
                                    SubSeq(cs, PivotSlot(n) + 1, n + 2))
      /\ Pivot(e, n) = ks[PivotSlot(n)]
  BY <1>1 DEF RightInner, Pivot
<1> HIDE DEF f, a, b
<1>4. f = InternalNode(FALSE, 0, a, b)
  BY <1>2, InnerWithLists
<1> QED
  BY <1>3, <1>4 DEF a, b, f, InnerHalves

\* A list is its own slice.
LEMMA WholeSlice ==
  ASSUME NEW S, NEW s \in Seq(S), NEW m, m = Len(s)
  PROVE  SubSeq(s, 1, m) = s
<1> DEFINE list == SubSeq(s, 1, m)
<1>1. m \in Nat /\ 1 \in 1 .. m + 1 /\ m \in 1 - 1 .. m
  OBVIOUS
<1>2. list \in Seq(S) /\ IsSlice(list, s, 1, m)
  BY <1>1, Sliced
<1> HIDE DEF list
<1>3. Len(list) = m /\ \A j \in 1 .. m : list[j] = s[1 + j - 1] /\ 1 + j - 1 = j
  BY <1>1, <1>2 DEF IsSlice
<1>4. list = s
  BY <1>1, <1>2, <1>3
<1> QED
  BY <1>4 DEF list

\* A page with all cells of the overfull node.
LEMMA InsertDone ==
  ASSUME call \in Calls, NEW p, IsPlace(p), Count < call.load,
         NEW q, q.num = Count + 1, q.head = Before.head,
         \A t \in 0 .. Count : q.cells[t] = OverCell(p, t)
  PROVE  /\ Leaf(q) = LeafWithCell(Leaf(Before), call.key, New, p)
         /\ Inner(q) = InnerWithKey(Inner(Before), call.key, New, p)
<1>1. p \in 0 .. Count /\ Count \in Nat
  BY CallFacts DEF IsPlace
<1> DEFINE k == Count + 1
<1>2. /\ 0 \in Nat /\ k \in Nat /\ 0 + k <= Count + 1 /\ q.num = k
      /\ 0 + 1 = 1 /\ 0 + k = k /\ 0 + k + 1 = Count + 2
  BY <1>1
<1>3. \A t \in 0 .. k - 1 : /\ q.cells[t].key = OverCell(p, 0 + t).key
                            /\ q.cells[t].val = OverCell(p, 0 + t).val
  <2> SUFFICES ASSUME NEW t \in 0 .. k - 1
               PROVE  /\ q.cells[t].key = OverCell(p, 0 + t).key
                      /\ q.cells[t].val = OverCell(p, 0 + t).val
    OBVIOUS
  <2>1. t \in 0 .. Count /\ 0 + t = t
    BY <1>1
  <2> QED
    BY <2>1
<1> HIDE DEF k
<1>4. Keys(q) = SubSeq(OverKeys(p), 0 + 1, 0 + k)
  BY <1>1, <1>2, <1>3, PageKeys
<1>5. Rows(q) = SubSeq(OverRows(p), 0 + 1, 0 + k)
  BY <1>1, <1>2, <1>3, PageRows
<1>6. Children(q) = SubSeq(OverChildren(p), 0 + 1, 0 + k + 1)
  <2> DEFINE o == 0
  <2>1. q.head = IF o = 0 THEN Before.head ELSE OverCell(p, o - 1).val
    OBVIOUS
  <2>2. o \in Nat /\ k \in Nat /\ o + k <= Count + 1 /\ q.num = k
    BY <1>2
  <2>3. \A t \in 0 .. k - 1 : q.cells[t].val = OverCell(p, o + t).val
    BY <1>3
  <2> HIDE DEF o
  <2>4. HasChildren(q, p, o, k)
    BY <1>1, <2>1, <2>2, <2>3, PageChildren
  <2> QED
    BY <2>4 DEF o, HasChildren
<1>7. Keys(q) = OverKeys(p) /\ Rows(q) = OverRows(p) /\ Children(q) = OverChildren(p)
  <2>1. /\ OverKeys(p) \in Seq(Key) /\ k = Len(OverKeys(p))
        /\ OverRows(p) \in Seq(1 .. call.load \cup {New, Junk}) /\ k = Len(OverRows(p))
        /\ OverChildren(p) \in Seq(0 .. call.load \cup {New, Junk})
        /\ Count + 2 = Len(OverChildren(p))
    BY <1>1, OverLists DEF k
  <2>2. /\ SubSeq(OverKeys(p), 1, k) = OverKeys(p)
        /\ SubSeq(OverRows(p), 1, k) = OverRows(p)
        /\ SubSeq(OverChildren(p), 1, Count + 2) = OverChildren(p)
    BY <2>1, WholeSlice
  <2> QED
    BY <1>2, <1>4, <1>5, <1>6, <2>2
<1> QED
  BY <1>7, OverNodes DEF Leaf, Inner

\* A slot that is in place in one of two pages, as InHalf says of `page' and
\* `right'.
InHalfOf(q, r, t, cell) ==
  IF IsPivot(t) THEN q.cells[t].key = cell.key /\ r.head = cell.val
  ELSE IF t < LeftLoad(call.load) THEN q.cells[t] = cell
  ELSE r.cells[t - LeftLoad(call.load)] = cell

\* Two pages that have the overfull node's cells between them.
AreHalves(p, q, r, up) ==
  LET n == call.load
      over_leaf == LeafWithCell(Leaf(Before), call.key, New, p)
      over_inner == InnerWithKey(Inner(Before), call.key, New, p)
  IN  /\ call.fn = "leaf_split" =>
           /\ Leaf(q) = LeftLeaf(over_leaf, n)
           /\ Leaf(r) = RightLeaf(over_leaf, n, FALSE, 0)
           /\ up = KeyUpward(over_leaf, n)
      /\ call.fn = "inner_split" =>
           /\ Inner(q) = LeftInner(over_inner, n)
           /\ Inner(r) = RightInner(over_inner, n, FALSE, 0)
           /\ up = Pivot(over_inner, n)

LEMMA SplitDone ==
  ASSUME call \in Calls, call.fn \in Splits, NEW p, IsPlace(p),
         NEW h, h = RightLoad(call.load), NEW L, L = LeftLoad(call.load),
         NEW q, NEW r,
         q.num = (IF IsInner THEN L - 1 ELSE L),
         q.head = Before.head,
         r.num = h,
         \A t \in 0 .. call.load : InHalfOf(q, r, t, OverCell(p, t)),
         NEW up, up = q.cells[L - 1].key
  PROVE  AreHalves(p, q, r, up)
<1> DEFINE n == call.load
<1>1. /\ p \in 0 .. Count /\ Count = n /\ n \in Nat /\ h \in Nat \ {0}
      /\ n = 2 * h /\ L = h + 1
  BY CallFacts DEF IsPlace
<1>2. IsInner <=> call.fn = "inner_split"
  BY DEF IsInner, Splits
<1>3. \A t \in 0 .. h : t \in 0 .. n /\ t < L /\ (t = L - 1 <=> t = h)
  BY <1>1
<1>4. \A t \in 0 .. h - 1 : L + t \in 0 .. Count /\ (L + t) - L = t
                            /\ L + t # L - 1 /\ ~(L + t < L)
  BY <1>1
<1>5. /\ L + h = Count + 1 /\ L - 1 = h /\ h \in 0 .. Count /\ h \in Nat /\ L \in Nat
      /\ h < L /\ h + 1 = L
  BY <1>1
<1>6. \A t \in 0 .. h - 1 : /\ r.cells[t].key = OverCell(p, L + t).key
                            /\ r.cells[t].val = OverCell(p, L + t).val
  <2> SUFFICES ASSUME NEW t \in 0 .. h - 1
               PROVE  r.cells[t] = OverCell(p, L + t)
    OBVIOUS
  <2>1. L + t \in 0 .. n /\ (L + t) - L = t /\ L + t # L - 1 /\ ~(L + t < L)
    BY <1>1, <1>4
  <2>2. InHalfOf(q, r, L + t, OverCell(p, L + t)) /\ ~IsPivot(L + t)
    BY <2>1 DEF IsPivot
  <2> QED
    BY <2>1, <2>2 DEF InHalfOf
<1>7. \A t \in 0 .. h : /\ q.cells[t].key = OverCell(p, t).key
                        /\ (~IsInner \/ t < h) => q.cells[t].val = OverCell(p, t).val
  <2> SUFFICES ASSUME NEW t \in 0 .. h
               PROVE  /\ q.cells[t].key = OverCell(p, t).key
                      /\ (~IsInner \/ t < h) => q.cells[t].val = OverCell(p, t).val
    OBVIOUS
  <2>1. InHalfOf(q, r, t, OverCell(p, t)) /\ t < L /\ (IsPivot(t) => IsInner /\ t = h)
    BY <1>3 DEF IsPivot
  <2>2. t = h => ~(t < h)
    BY <1>1
  <2> QED
    BY <2>1, <2>2 DEF InHalfOf
<1>8. up = OverKeys(p)[L]
  <2>1. OverKeys(p)[h + 1] = OverCell(p, h).key
    BY <1>1, <1>5, OverLists
  <2>2. h \in 0 .. h
    BY <1>1
  <2>3. q.cells[h].key = OverCell(p, h).key
    BY <1>7, <2>2
  <2> QED
    BY <1>5, <2>1, <2>3
<1>9. /\ Keys(r) = SubSeq(OverKeys(p), L + 1, L + h)
      /\ Rows(r) = SubSeq(OverRows(p), L + 1, L + h)
  <2>1. p \in 0 .. Count /\ L \in Nat /\ h \in Nat /\ L + h <= Count + 1 /\ r.num = h
    BY <1>1, <1>5
  <2>2. \A t \in 0 .. h - 1 : r.cells[t].key = OverCell(p, L + t).key
    BY <1>6
  <2>3. \A t \in 0 .. h - 1 : r.cells[t].val = OverCell(p, L + t).val
    BY <1>6
  <2>4. Keys(r) = SubSeq(OverKeys(p), L + 1, L + h)
    BY <2>1, <2>2, PageKeys
  <2>5. Rows(r) = SubSeq(OverRows(p), L + 1, L + h)
    BY <2>1, <2>3, PageRows
  <2> QED
    BY <2>4, <2>5
<1>10. CASE call.fn = "leaf_split"
  <2> DEFINE o == 0  k == OverKeys(p)  c == OverRows(p)
  <2>1. ~IsInner /\ q.num = L
    BY <1>2, <1>10
  <2>2. \A t \in 0 .. L - 1 : t \in 0 .. h /\ o + t = t
    BY <1>1
  <2>3. /\ p \in 0 .. Count /\ o \in Nat /\ L \in Nat /\ o + L <= Count + 1
        /\ o + 1 = 1 /\ o + L = L /\ L + h = n + 1
    BY <1>1
  <2>4. /\ \A t \in 0 .. L - 1 : q.cells[t].key = OverCell(p, o + t).key
        /\ \A t \in 0 .. L - 1 : q.cells[t].val = OverCell(p, o + t).val
    BY <1>7, <2>1, <2>2
  <2> HIDE DEF o, n
  <2>5. Keys(q) = SubSeq(k, o + 1, o + L)
    BY <2>1, <2>3, <2>4, PageKeys
  <2>6. Rows(q) = SubSeq(c, o + 1, o + L)
    BY <2>1, <2>3, <2>4, PageRows
  <2>7. L = LeftLoad(n)
    BY DEF n
  <2> HIDE DEF k, c
  <2>8. /\ Leaf(q) = LeafNode(FALSE, 0, SubSeq(k, 1, L), SubSeq(c, 1, L))
        /\ Leaf(r) = LeafNode(FALSE, 0, SubSeq(k, L + 1, n + 1), SubSeq(c, L + 1, n + 1))
    BY <1>9, <2>3, <2>5, <2>6 DEF Leaf, k, c
  <2> DEFINE over == LeafWithCell(Leaf(Before), call.key, New, p)
  <2>9. over = LeafNode(FALSE, 0, k, c)
    BY OverNodes DEF k, c
  <2> HIDE DEF over
  <2>10. /\ Leaf(q) = LeftLeaf(over, n)
        /\ Leaf(r) = RightLeaf(over, n, FALSE, 0)
        /\ up = KeyUpward(over, n)
    <3>1. LeafHalves(over, k, c, n)
      BY <2>9, HalfLeaves
    <3> QED
      BY <1>8, <2>7, <2>8, <3>1 DEF k, LeafHalves
  <2> QED
    BY <1>10, <2>10 DEF n, over, AreHalves
<1>11. CASE call.fn = "inner_split"
  <2> DEFINE o == 0  k == OverKeys(p)  c == OverChildren(p)
  <2>1. IsInner /\ q.num = h
    BY <1>2, <1>5, <1>11
  <2>2. \A t \in 0 .. h - 1 : t \in 0 .. h /\ t < h /\ o + t = t
    BY <1>1
  <2>3. /\ p \in 0 .. Count /\ o \in Nat /\ h \in Nat /\ o + h <= Count + 1
        /\ o + 1 = 1 /\ o + h = h /\ o + h + 1 = L
        /\ L \in Nat /\ L + h <= Count + 1 /\ L # 0
    BY <1>1
  <2>4. /\ \A t \in 0 .. h - 1 : q.cells[t].key = OverCell(p, o + t).key
        /\ \A t \in 0 .. h - 1 : q.cells[t].val = OverCell(p, o + t).val
    BY <1>7, <2>2
  <2>5. q.head = IF o = 0 THEN Before.head ELSE OverCell(p, o - 1).val
    OBVIOUS
  <2>6. r.head = IF L = 0 THEN Before.head ELSE OverCell(p, L - 1).val
    <3>1. IsPivot(h) /\ h \in 0 .. n
      BY <1>1, <1>5, <2>1 DEF IsPivot
    <3>2. InHalfOf(q, r, h, OverCell(p, h))
      BY <3>1
    <3>3. r.head = OverCell(p, h).val
      BY <3>1, <3>2 DEF InHalfOf
    <3> QED
      BY <1>5, <2>3, <3>3
  <2> HIDE DEF o, n
  <2>7. Keys(q) = SubSeq(k, o + 1, o + h)
    BY <2>1, <2>3, <2>4, PageKeys
  <2>8. HasChildren(q, p, o, h)
    BY <2>1, <2>3, <2>4, <2>5, PageChildren
  <2>9. HasChildren(r, p, L, h)
    <3>1. \A t \in 0 .. h - 1 : r.cells[t].val = OverCell(p, L + t).val
      BY <1>6
    <3> QED
      BY <2>3, <2>6, <3>1, PageChildren
  <2>10. /\ L = PivotSlot(n) /\ h = PivotSlot(n) - 1
         /\ L + h = n + 1 /\ L + h + 1 = n + 2
    BY <1>1 DEF PivotSlot, RightLoad, n
  <2> HIDE DEF k, c
  <2>11. /\ Inner(q) = InternalNode(FALSE, 0, SubSeq(k, 1, h), SubSeq(c, 1, L))
         /\ Inner(r) = InternalNode(FALSE, 0, SubSeq(k, L + 1, n + 1), SubSeq(c, L + 1, n + 2))
    BY <1>9, <2>3, <2>7, <2>8, <2>9, <2>10 DEF Inner, HasChildren, k, c
  <2> DEFINE over == InnerWithKey(Inner(Before), call.key, New, p)
  <2>12. over = InternalNode(FALSE, 0, k, c)
    BY OverNodes DEF k, c
  <2> HIDE DEF over
  <2>13. /\ Inner(q) = LeftInner(over, n)
         /\ Inner(r) = RightInner(over, n, FALSE, 0)
         /\ up = Pivot(over, n)
    <3>1. InnerHalves(over, k, c, n)
      BY <2>12, HalfInners
    <3> QED
      BY <1>8, <2>10, <2>11, <3>1 DEF k, InnerHalves
  <2> QED
    BY <1>11, <2>13 DEF n, over, AreHalves
<1> QED
  BY <1>10, <1>11 DEF Splits

(***************************************************************************)
(* The steps.                                                              *)
(***************************************************************************)

\* What the call was and the page it found do not change.
LEMMA SameCall ==
  ASSUME call' = call
  PROVE  /\ Count' = Count /\ Before' = Before /\ (IsInner' <=> IsInner)
         /\ \A j : OldCell(j)' = OldCell(j)
         /\ \A p : Smaller(p)' <=> Smaller(p)
         /\ \A p : Larger(p)' <=> Larger(p)
         /\ \A p : IsPlace(p)' <=> IsPlace(p)
         /\ \A p, t : OverCell(p, t)' = OverCell(p, t)
         /\ \A t, c : InHalf(t, c)' <=> InHalfOf(page', right', t, c)
         /\ PositionIn(Keys(Before))' = PositionIn(Keys(Before))
<1>1. Count' = Count /\ Before' = Before /\ (IsInner' <=> IsInner)
  BY DEF Count, Before, IsInner
<1>2. \A j : OldCell(j)' = OldCell(j)
  BY <1>1 DEF OldCell
<1>3. \A p : (Smaller(p)' <=> Smaller(p)) /\ (Larger(p)' <=> Larger(p))
  BY <1>1, <1>2 DEF Smaller, Larger
<1>4. \A p : IsPlace(p)' <=> IsPlace(p)
  BY <1>1, <1>3 DEF IsPlace
<1>5. \A p, t : OverCell(p, t)' = OverCell(p, t)
  BY <1>2 DEF OverCell, NewCell
<1>6. \A t, c : InHalf(t, c)' <=> InHalfOf(page', right', t, c)
  BY <1>1 DEF InHalf, InHalfOf, IsPivot
<1>7. PositionIn(Keys(Before))' = PositionIn(Keys(Before))
  BY <1>1 DEF PositionIn
<1> QED
  BY <1>1, <1>2, <1>3, <1>4, <1>5, <1>6, <1>7

\* The properties of what the call returns.
Correct(c, old, pos, q, r, up) ==
  LET n == c.load
      over_leaf == LeafWithCell(Leaf(old), c.key, New, pos)
      over_inner == InnerWithKey(Inner(old), c.key, New, pos)
  IN  /\ c.fn = "leaf_insert" => Leaf(q) = over_leaf
      /\ c.fn = "leaf_split" =>
           /\ Leaf(q) = LeftLeaf(over_leaf, n)
           /\ Leaf(r) = RightLeaf(over_leaf, n, FALSE, 0)
           /\ up = KeyUpward(over_leaf, n)
      /\ c.fn = "inner_insert" =>
           Inner(q) = IF c.keys = {}
                      THEN InternalNode(FALSE, 0, <<c.key>>, <<0, New>>)
                      ELSE over_inner
      /\ c.fn = "inner_split" =>
           /\ Inner(q) = LeftInner(over_inner, n)
           /\ Inner(r) = RightInner(over_inner, n, FALSE, 0)
           /\ up = Pivot(over_inner, n)

LEMMA ReferenceAfter ==
  ASSUME call' = call,
         Correct(call, Before, PositionIn(Keys(Before)), page', right', result')
  PROVE  ComputesReference'
<1>1. Before' = Before /\ PositionIn(Keys(Before))' = PositionIn(Keys(Before))
  BY SameCall
<1>2. ComputesReference' <=>
        (pc' = "done" => Correct(call', Before', PositionIn(Keys(Before))',
                                 page', right', result'))
  BY DEF ComputesReference, Correct
<1> QED
  BY <1>1, <1>2

\* A page that was never written to is a page.
LEMMA EmptyPage ==
  ASSUME NEW n \in Nat
  PROVE  PageOf({}, n) \in Page(n)
<1> DEFINE s == SortedKeys({})
           c == [j \in 0 .. n - 1 |->
                  IF j < Len(s) THEN Cell(s[j + 1], j + 1) ELSE Cell(Junk, Junk)]
<1>1. Cardinality({}) = 0
  BY FS_EmptySet
<1>2. s \in [1 .. 0 -> {}]
  BY <1>1, SortedKeysAre
<1>3. Len(s) = 0
  BY <1>2
<1> HIDE DEF s
<1>4. Cell(Junk, Junk) \in CellOf(n)
  BY DEF Cell, CellOf
<1>5. c \in [0 .. n - 1 -> CellOf(n)]
  <2>1. \A j \in 0 .. n - 1 : ~(j < Len(s))
    BY <1>3
  <2> QED
    BY <1>4, <2>1
<1>6. PageOf({}, n) = [num |-> Len(s), head |-> Junk, cells |-> c]
  BY DEF PageOf, s
<1> HIDE DEF c
<1> QED
  BY <1>3, <1>5, <1>6 DEF Page, CellOf

LEMMA InitIndInv == Init => IndInv
<1> SUFFICES ASSUME Init PROVE IndInv
  OBVIOUS
<1>1. /\ call \in Calls /\ pc = "call" /\ page = Before /\ right = PageOf({}, call.load)
      /\ i = 0 /\ key_pos = 0 /\ start = 0 /\ end = 0
  BY DEF Init, Before
<1>2. call.load \in Nat \ {0} /\ call.load \in Nat
  BY <1>1, CallFacts
<1>3. page \in Page(call.load) /\ right \in Page(call.load)
  BY <1>1, <1>2, BeforeFacts, EmptyPage
<1>4. NodeArraysTypeOK
  BY <1>1, <1>2, <1>3 DEF NodeArraysTypeOK
<1> QED
  BY <1>1, <1>4 DEF IndInv, Untouched, ComputesReference, SearchFinds

\* The empty inner node.
LEMMA FillEmptyNodeStep == IndInv /\ FillEmptyNode => IndInv'
<1> SUFFICES ASSUME IndInv, FillEmptyNode PROVE IndInv'
  OBVIOUS
<1> DEFINE n == call.load  c == Cell(call.key, New)
           q == [page EXCEPT !.num = 1, !.head = LeftChild, !.cells[0] = c]
<1>1. /\ pc = "call" /\ call.fn = "inner_insert" /\ page.num = 0 /\ pc' = "done"
      /\ call' = call /\ right' = right /\ i' = i /\ key_pos' = key_pos
      /\ start' = start /\ end' = end /\ result' = result /\ page' = q
  BY DEF FillEmptyNode, search
<1>2. NodeArraysTypeOK /\ page = Before
  BY <1>1 DEF IndInv, Untouched
<1>3. /\ call \in Calls /\ page \in Page(n) /\ n \in Nat \ {0} /\ call.key \in Key
      /\ Count = 0 /\ call.keys \subseteq Key
  BY <1>1, <1>2, CallFacts, BeforeFacts DEF NodeArraysTypeOK
<1>4. call.keys = {}
  <2>1. IsFiniteSet(call.keys)
    BY <1>3, KeyAssumption, FS_Subset
  <2> QED
    BY <1>3, <2>1, FS_EmptySet DEF Count
<1>5. LeftChild = 0
  <2>1. {k \in call.keys : k < call.key} = {}
    BY <1>4
  <2> QED
    BY <2>1, FS_EmptySet DEF LeftChild
<1>6. c \in CellOf(n) /\ 0 \in 0 .. n - 1
  BY <1>3 DEF Cell, CellOf
<1>7. q \in Page(n) /\ q.num = 1 /\ q.head = 0 /\ q.cells[0] = c
  <2> DEFINE e == [page EXCEPT !.num = 1, !.head = LeftChild]
  <2>1. e \in Page(n) /\ e.num = 1 /\ e.head = 0
    <3> DEFINE a == LeftChild  S == 0 .. n  T == 0 .. n \cup {New, Junk}
               U == [0 .. n - 1 -> CellOf(n)]
    <3>1. a = 0 /\ a \in T /\ 1 \in S
      BY <1>3, <1>5
    <3>2. Page(n) = [num : S, head : T, cells : U] /\ page \in [num : S, head : T, cells : U]
      BY <1>3 DEF Page, CellOf
    <3> HIDE DEF a, S, T, U
    <3>3. e.num = 1 /\ e.head = a /\ e \in [num : S, head : T, cells : U]
      BY <3>1, <3>2 DEF a
    <3> QED
      BY <3>1, <3>2, <3>3
  <2>2. WithCell(q, e, 0, c)
    BY DEF WithCell
  <2> HIDE DEF c, e, q
  <2> QED
    BY <1>3, <1>6, <2>1, <2>2, PageWithCell
<1> HIDE DEF q
<1>8. NodeArraysTypeOK'
  BY <1>1, <1>2, <1>7 DEF NodeArraysTypeOK
<1>9. Inner(q) = InternalNode(FALSE, 0, <<call.key>>, <<0, New>>)
  <2>1. Keys(q) = <<call.key>>
    BY <1>7 DEF Keys, Cell
  <2>2. Children(q) = <<0, New>>
    <3>1. \A j \in 1 .. 2 : ChildAt(q, j - 1) = <<0, New>>[j]
      BY <1>7 DEF ChildAt, Cell
    <3>2. Children(q) = [j \in 1 .. 2 |-> ChildAt(q, j - 1)]
      BY <1>7 DEF Children
    <3> QED
      BY <3>1, <3>2
  <2> QED
    BY <2>1, <2>2 DEF Inner
<1>10. Correct(call, Before, PositionIn(Keys(Before)), page', right', result')
  BY <1>1, <1>4, <1>9 DEF Correct
<1>11. ComputesReference'
  BY <1>1, <1>10, ReferenceAfter
<1> QED
  BY <1>1, <1>8, <1>11 DEF IndInv, SearchFinds

\* An insert counts the new cell,
LEMMA CountCellStep == IndInv /\ CountCell => IndInv'
<1> SUFFICES ASSUME IndInv, CountCell PROVE IndInv'
  OBVIOUS
<1> DEFINE n == call.load  q == [page EXCEPT !.num = @ + 1]
<1>1. /\ pc = "call" /\ call.fn \in Inserts /\ (IsInner => page.num > 0) /\ pc' = "shift"
      /\ call' = call /\ right' = right /\ i' = page.num /\ key_pos' = key_pos
      /\ start' = start /\ end' = end /\ result' = result /\ page' = q
  BY DEF CountCell, search
<1>2. NodeArraysTypeOK /\ page = Before
  BY <1>1 DEF IndInv, Untouched
<1>3. /\ call \in Calls /\ page \in Page(n) /\ n \in Nat \ {0}
      /\ Count \in 0 .. n /\ Count < n /\ page.num = Count
  BY <1>1, <1>2, CallFacts, BeforeFacts DEF NodeArraysTypeOK
<1>4. /\ q \in Page(n) /\ q.num = Count + 1 /\ q.head = Before.head
      /\ q.cells = Before.cells
  BY <1>2, <1>3 DEF Page
<1> HIDE DEF q
<1>5. NodeArraysTypeOK'
  BY <1>1, <1>2, <1>3, <1>4 DEF NodeArraysTypeOK
<1>6. Shifting'
  <2>1. /\ Count' = Count /\ Before' = Before /\ (IsInner' <=> IsInner)
        /\ (Larger(Count)' <=> Larger(Count)) /\ \A j : OldCell(j)' = OldCell(j)
    BY <1>1, SameCall
  <2>2. i' = Count /\ i' \in 0 .. Count /\ Count .. Count - 1 = {} /\ (IsInner => Count > 0)
    BY <1>1, <1>3
  <2>3. Larger(i)'
    BY <2>1, <2>2 DEF Larger
  <2> QED
    BY <1>1, <1>4, <2>1, <2>2, <2>3 DEF Shifting, OldCell, Larger
<1> QED
  BY <1>1, <1>5, <1>6 DEF IndInv, ComputesReference, SearchFinds

\* moves the larger ones up,
LEMMA ShiftCellStep == IndInv /\ ShiftCell => IndInv'
<1> SUFFICES ASSUME IndInv, ShiftCell PROVE IndInv'
  OBVIOUS
<1> DEFINE n == call.load  c == page.cells[i - 1]
<1>1. /\ pc = "shift" /\ LargerBelow(i) /\ pc' = pc
      /\ call' = call /\ right' = right /\ i' = i - 1 /\ key_pos' = key_pos
      /\ start' = start /\ end' = end /\ result' = result
      /\ WithCell(page', page, i, c)
  BY DEF ShiftCell, search, WithCell
<1>2. NodeArraysTypeOK /\ Shifting
  BY <1>1 DEF IndInv
<1>3. /\ call \in Calls /\ page \in Page(n) /\ n \in Nat
      /\ Count \in Nat /\ Count < n /\ i \in 1 .. Count /\ call.key \in Nat
      /\ \A j \in 0 .. Count - 1 : OldCell(j).key \in Nat
  <2>1. /\ call \in Calls /\ page \in Page(n) /\ i \in 0 .. Count /\ i >= 1
        /\ call.fn \in Inserts
    BY <1>1, <1>2 DEF NodeArraysTypeOK, Shifting, LargerBelow
  <2> QED
    BY <2>1, CallFacts, BeforeFacts
<1>4. i - 1 \in 0 .. n - 1 /\ i \in 0 .. n - 1 /\ i - 1 \in 0 .. Count - 1 /\ i - 1 \in 0 .. i - 1
  BY <1>3
<1>5. c = OldCell(i - 1) /\ call.key < OldCell(i - 1).key /\ c \in CellOf(n)
  <2>1. c = OldCell(i - 1) /\ call.key < c.key
    BY <1>1, <1>2, <1>3, <1>4 DEF Shifting, LargerBelow, KeyAt
  <2> QED
    BY <1>3, <1>4, <2>1, CellsOfPage
<1>6. /\ page' \in Page(n) /\ page'.num = page.num /\ page'.head = page.head
      /\ page'.cells[i] = c
      /\ \A t \in 0 .. n - 1 : t # i => page'.cells[t] = page.cells[t]
  <2> HIDE DEF c
  <2> QED
    BY <1>1, <1>3, <1>4, <1>5, PageWithCell
<1>7. NodeArraysTypeOK'
  BY <1>1, <1>2, <1>3, <1>6 DEF NodeArraysTypeOK
<1>8. Shifting'
  <2> DEFINE m == i - 1
  <2>1. /\ Count' = Count /\ Before' = Before /\ (IsInner' <=> IsInner)
        /\ \A j : OldCell(j)' = OldCell(j)
    BY <1>1, SameCall
  <2>2. m \in 0 .. Count /\ i' = m /\ m + 1 = i
    BY <1>1, <1>3
  <2>3. \A j \in m .. Count - 1 : j = m \/ (j \in i .. Count - 1 /\ j # m)
    BY <1>3
  <2> HIDE DEF c
  <2>4. \A j \in m .. Count - 1 : call.key < OldCell(j).key
    BY <1>2, <1>5, <2>3 DEF Shifting, Larger, m
  <2>5. \A j \in 0 .. m - 1 : page'.cells[j] = OldCell(j)
    <3>1. \A j \in 0 .. m - 1 : j \in 0 .. n - 1 /\ j # i /\ j \in 0 .. i - 1
      BY <1>3
    <3> QED
      BY <1>2, <1>6, <3>1 DEF Shifting
  <2>6. \A j \in m .. Count - 1 : page'.cells[j + 1] = OldCell(j)
    <3> SUFFICES ASSUME NEW j \in m .. Count - 1
                 PROVE  page'.cells[j + 1] = OldCell(j)
      OBVIOUS
    <3>1. CASE j = m
      BY <1>5, <1>6, <2>2, <3>1 DEF m
    <3>2. CASE j # m
      <4> DEFINE k == j + 1
      <4>1. j \in i .. Count - 1 /\ k \in 0 .. n - 1 /\ k # i
        BY <1>3, <3>2
      <4> HIDE DEF k
      <4>2. page.cells[k] = OldCell(j)
        BY <1>2, <4>1 DEF Shifting, k
      <4> QED
        BY <1>6, <4>1, <4>2 DEF k
    <3> QED
      BY <3>1, <3>2
  <2> HIDE DEF m
  <2>7. Larger(i)'
    BY <1>1, <2>1, <2>2, <2>4 DEF Larger
  <2> QED
    BY <1>1, <1>2, <1>6, <2>1, <2>2, <2>5, <2>6, <2>7 DEF Shifting
<1> QED
  BY <1>1, <1>7, <1>8 DEF IndInv, ComputesReference, SearchFinds

\* and writes it into its slot.
LEMMA PlaceCellStep == IndInv /\ PlaceCell => IndInv'
<1> SUFFICES ASSUME IndInv, PlaceCell PROVE IndInv'
  OBVIOUS
<1> DEFINE n == call.load
<1>1. /\ pc = "shift" /\ ~LargerBelow(i) /\ pc' = "done"
      /\ call' = call /\ right' = right /\ i' = i /\ key_pos' = key_pos
      /\ start' = start /\ end' = end /\ result' = result
      /\ WithCell(page', page, i, NewCell)
  BY DEF PlaceCell, search, NewCell, WithCell
<1>2. NodeArraysTypeOK /\ Shifting
  BY <1>1 DEF IndInv
<1>3. /\ call \in Calls /\ page \in Page(n) /\ n \in Nat
      /\ Count \in Nat /\ Count < n /\ i \in 0 .. Count /\ call.key \in Nat /\ call.key \in Key
      /\ call.key \notin call.keys /\ call.fn \in Inserts
      /\ \A j \in 0 .. Count - 1 : OldCell(j).key \in Nat /\ OldCell(j).key \in call.keys
      /\ \A a, b \in 0 .. Count - 1 : a < b => OldCell(a).key < OldCell(b).key
  <2>1. call \in Calls /\ page \in Page(n) /\ i \in 0 .. Count /\ call.fn \in Inserts
    BY <1>2 DEF NodeArraysTypeOK, Shifting
  <2> QED
    BY <2>1, CallFacts, BeforeFacts
<1>4. i \in 0 .. n - 1 /\ NewCell \in CellOf(n)
  BY <1>3 DEF NewCell, Cell, CellOf
<1>5. /\ page' \in Page(n) /\ page'.num = page.num /\ page'.head = page.head
      /\ page'.cells[i] = NewCell
      /\ \A t \in 0 .. n - 1 : t # i => page'.cells[t] = page.cells[t]
  BY <1>1, <1>3, <1>4, PageWithCell
<1>6. NodeArraysTypeOK'
  BY <1>1, <1>2, <1>5 DEF NodeArraysTypeOK
<1>7. Smaller(i)
  <2> SUFFICES ASSUME NEW j \in 0 .. i - 1
               PROVE  OldCell(j).key < call.key
    BY DEF Smaller
  <2> DEFINE m == i - 1
  <2>1. i >= 1 /\ m \in 0 .. Count - 1 /\ m \in 0 .. i - 1 /\ j \in 0 .. Count - 1 /\ (j = m \/ j < m)
    BY <1>3
  <2>2. page.cells[m] = OldCell(m)
    BY <1>2, <2>1 DEF Shifting
  <2>3. ~(page.cells[m].key > call.key)
    BY <1>1, <2>1 DEF LargerBelow, KeyAt, m
  <2> HIDE DEF m
  <2>4. OldCell(m).key < call.key
    BY <1>3, <2>1, <2>2, <2>3
  <2> QED
    BY <1>3, <2>1, <2>4
<1>8. IsPlace(i)
  <2>1. Larger(i)
    BY <1>2 DEF Shifting
  <2> QED
    BY <1>3, <1>7, <2>1 DEF IsPlace
<1>9. \A t \in 0 .. Count : page'.cells[t] = OverCell(i, t)
  <2> SUFFICES ASSUME NEW t \in 0 .. Count PROVE page'.cells[t] = OverCell(i, t)
    OBVIOUS
  <2>1. CASE t < i
    <3>1. t \in 0 .. i - 1 /\ t \in 0 .. n - 1 /\ t # i
      BY <1>3, <2>1
    <3> QED
      BY <1>2, <1>5, <2>1, <3>1 DEF Shifting, OverCell
  <2>2. CASE t = i
    <3>1. ~(t < i)
      BY <1>3, <2>2
    <3> QED
      BY <1>5, <2>2, <3>1 DEF OverCell
  <2>3. CASE i < t
    <3> DEFINE m == t - 1
    <3>1. m \in i .. Count - 1 /\ t \in 0 .. n - 1 /\ t # i /\ ~(t < i) /\ m + 1 = t
      BY <1>3, <2>3
    <3>2. page.cells[m + 1] = OldCell(m)
      BY <1>2, <3>1 DEF Shifting
    <3>3. OverCell(i, t) = OldCell(m)
      BY <3>1 DEF OverCell
    <3> HIDE DEF m
    <3> QED
      BY <1>5, <3>1, <3>2, <3>3
  <2> QED
    BY <1>3, <2>1, <2>2, <2>3
<1>10. page'.num = Count + 1 /\ page'.head = Before.head /\ (IsInner => Count > 0)
  BY <1>2, <1>5 DEF Shifting
<1>11. /\ Leaf(page') = LeafWithCell(Leaf(Before), call.key, New, i)
       /\ Inner(page') = InnerWithKey(Inner(Before), call.key, New, i)
  BY <1>3, <1>8, <1>9, <1>10, InsertDone
<1>12. PositionIn(Keys(Before)) = i
  BY <1>3, <1>8, PlaceIsPosition
<1>13. call.fn = "inner_insert" => call.keys # {}
  BY <1>10, FS_EmptySet DEF IsInner, Count
<1>14. Correct(call, Before, PositionIn(Keys(Before)), page', right', result')
  BY <1>3, <1>11, <1>12, <1>13 DEF Correct, Inserts
<1>15. ComputesReference'
  BY <1>1, <1>14, ReferenceAfter
<1> QED
  BY <1>1, <1>3, <1>6, <1>15 DEF IndInv, SearchFinds, Inserts

\* The split of a leaf looks for the key's place from above.
LEMMA ScanFromEndStep == IndInv /\ ScanFromEnd => IndInv'
<1> SUFFICES ASSUME IndInv, ScanFromEnd PROVE IndInv'
  OBVIOUS
<1>1. /\ pc = "call" /\ call.fn = "leaf_split" /\ pc' = "scan"
      /\ call' = call /\ page' = page /\ right' = right /\ i' = i /\ key_pos' = page.num
      /\ start' = start /\ end' = end /\ result' = result
  BY DEF ScanFromEnd, search
<1>2. NodeArraysTypeOK /\ page = Before
  BY <1>1 DEF IndInv, Untouched
<1>3. /\ call \in Calls /\ Count \in Nat /\ Count \in 0 .. call.load /\ page.num = Count
  BY <1>2, CallFacts, BeforeFacts DEF NodeArraysTypeOK
<1>4. NodeArraysTypeOK'
  BY <1>1, <1>2, <1>3 DEF NodeArraysTypeOK
<1>5. Scanning'
  <2>1. Count' = Count /\ Before' = Before /\ (Larger(Count)' <=> Larger(Count))
    BY <1>1, SameCall
  <2>2. Count \in 0 .. Count /\ Count .. Count - 1 = {} /\ key_pos' = Count
    BY <1>1, <1>3
  <2>3. Larger(key_pos)'
    BY <2>1, <2>2 DEF Larger
  <2> QED
    BY <1>1, <1>2, <2>1, <2>2, <2>3 DEF Scanning, Untouched
<1> QED
  BY <1>1, <1>4, <1>5 DEF IndInv, ComputesReference, SearchFinds

LEMMA ScanDownStep == IndInv /\ ScanDown => IndInv'
<1> SUFFICES ASSUME IndInv, ScanDown PROVE IndInv'
  OBVIOUS
<1> DEFINE m == key_pos - 1
<1>1. /\ pc = "scan" /\ LargerBelow(key_pos) /\ pc' = pc
      /\ call' = call /\ page' = page /\ right' = right /\ i' = i /\ key_pos' = m
      /\ start' = start /\ end' = end /\ result' = result
  BY DEF ScanDown, search
<1>2. NodeArraysTypeOK /\ Scanning /\ page = Before
  BY <1>1 DEF IndInv, Scanning, Untouched
<1>3. /\ call \in Calls /\ Count \in Nat /\ Count \in 0 .. call.load /\ call.key \in Nat
      /\ call.load \in Nat /\ key_pos \in 1 .. Count /\ \A j \in 0 .. Count - 1 : OldCell(j).key \in Nat
  <2>1. call \in Calls /\ key_pos \in 0 .. Count /\ key_pos >= 1
    BY <1>1, <1>2 DEF NodeArraysTypeOK, Scanning, LargerBelow
  <2> QED
    BY <2>1, CallFacts, BeforeFacts
<1>4. m \in 0 .. Count /\ m \in 0 .. Count - 1 /\ m \in 0 .. call.load
      /\ \A j \in m .. Count - 1 : j = m \/ j \in key_pos .. Count - 1
  BY <1>3
<1>5. call.key < OldCell(m).key
  <2>1. OldCell(m).key > call.key
    BY <1>1, <1>2 DEF LargerBelow, KeyAt, OldCell
  <2> QED
    BY <1>3, <1>4, <2>1
<1>6. NodeArraysTypeOK'
  BY <1>1, <1>2, <1>4 DEF NodeArraysTypeOK
<1>7. Scanning'
  <2>1. /\ Count' = Count /\ Before' = Before /\ \A j : OldCell(j)' = OldCell(j)
    BY <1>1, SameCall
  <2>2. \A j \in m .. Count - 1 : call.key < OldCell(j).key
    BY <1>2, <1>4, <1>5 DEF Scanning, Larger
  <2> HIDE DEF m
  <2>3. Larger(key_pos)'
    BY <1>1, <2>1, <2>2 DEF Larger
  <2> QED
    BY <1>1, <1>2, <1>4, <2>1, <2>3 DEF Scanning, Untouched
<1> QED
  BY <1>1, <1>6, <1>7 DEF IndInv, ComputesReference, SearchFinds

\* The key's place being known, a split starts to move the cells, the last one
\* first.
LEMMA StartMovingStep ==
  ASSUME NodeArraysTypeOK, page = Before, call.fn \in Splits, call' = call, page' = page,
         start' = start, end' = end, result' = result, StartMoving,
         IsPlace(key_pos')
  PROVE  IndInv'
<1> DEFINE n == call.load  h == RightLoad(n)  q == [right EXCEPT !.num = h]
<1>1. i' = page.num - 1 /\ right' = [right EXCEPT !.num = RightLoad(page.num)] /\ pc' = "move"
  BY DEF StartMoving
<1>2. /\ call \in Calls /\ Count = n /\ n \in Nat \ {0} /\ page.num = Count
      /\ h \in Nat /\ n = 2 * h /\ right \in Page(n)
  BY CallFacts, BeforeFacts DEF NodeArraysTypeOK
<1>3. i' = n - 1 /\ right' = q
  BY <1>1, <1>2
<1>4. q \in Page(n) /\ q.num = h
  <2>1. h \in 0 .. n
    BY <1>2
  <2> HIDE DEF h
  <2> QED
    BY <1>2, <2>1 DEF Page
<1>5. key_pos' \in 0 .. n
  <2>1. key_pos' \in 0 .. Count
    BY DEF IsPlace
  <2> QED
    BY <1>2, <2>1
<1> HIDE DEF q
<1>6. NodeArraysTypeOK'
  BY <1>1, <1>2, <1>3, <1>4, <1>5 DEF NodeArraysTypeOK
<1>7. Moving'
  <2>1. /\ Count' = Count /\ Before' = Before /\ \A j : OldCell(j)' = OldCell(j)
        /\ Smaller(key_pos)' /\ Larger(key_pos)'
    <3>1. /\ Count' = Count /\ Before' = Before /\ \A j : OldCell(j)' = OldCell(j)
      BY SameCall
    <3>2. Smaller(key_pos') /\ Larger(key_pos')
      BY DEF IsPlace
    <3> QED
      BY <3>1, <3>2 DEF Smaller, Larger
  <2>2. IsPlace(key_pos)'
    BY <1>2, <1>5, <2>1 DEF IsPlace
  <2>3. \A j \in 0 .. i' : page'.cells[j] = OldCell(j)'
    BY <2>1 DEF OldCell
  <2>4. i' + 1 .. Count - 1 = {}
    BY <1>2, <1>3
  <2>5. \A j \in i' + 1 .. Count' - 1 : InHalf(TargetSlot(key_pos, j), OldCell(j))'
    BY <2>1, <2>4
  <2>6. right'.num = RightLoad(call.load)'
    BY <1>3, <1>4
  <2> QED
    BY <2>1, <2>2, <2>3, <2>5, <2>6 DEF Moving
<1> QED
  BY <1>1, <1>6, <1>7 DEF IndInv, ComputesReference, SearchFinds

LEMMA ScanEndsStep == IndInv /\ ScanEnds => IndInv'
<1> SUFFICES ASSUME IndInv, ScanEnds PROVE IndInv'
  OBVIOUS
<1>1. /\ pc = "scan" /\ ~LargerBelow(key_pos) /\ StartMoving /\ key_pos' = key_pos
      /\ call' = call /\ page' = page /\ start' = start /\ end' = end /\ result' = result
      /\ IF key_pos = 0 THEN call.key < KeyAt(0) ELSE KeyAt(key_pos - 1) < call.key
  BY DEF ScanEnds, StartMoving, search
<1>2. NodeArraysTypeOK /\ Scanning /\ page = Before /\ call.fn \in Splits
  BY <1>1 DEF IndInv, Scanning, Untouched, Splits
<1>3. /\ call \in Calls /\ Count \in Nat /\ call.key \in Nat
      /\ key_pos \in 0 .. Count /\ Larger(key_pos)
      /\ \A j \in 0 .. Count - 1 : OldCell(j).key \in Nat
      /\ \A a, b \in 0 .. Count - 1 : a < b => OldCell(a).key < OldCell(b).key
  <2>1. call \in Calls /\ key_pos \in 0 .. Count /\ Larger(key_pos)
    BY <1>2 DEF NodeArraysTypeOK, Scanning
  <2> QED
    BY <2>1, CallFacts, BeforeFacts
<1>4. Smaller(key_pos)
  <2> SUFFICES ASSUME NEW j \in 0 .. key_pos - 1
               PROVE  OldCell(j).key < call.key
    BY DEF Smaller
  <2> DEFINE m == key_pos - 1
  <2>1. key_pos # 0 /\ m \in 0 .. Count - 1 /\ j \in 0 .. Count - 1 /\ (j = m \/ j < m)
    BY <1>3
  <2>2. OldCell(m).key < call.key
    BY <1>1, <1>2, <2>1 DEF KeyAt, OldCell
  <2> HIDE DEF m
  <2> QED
    BY <1>3, <2>1, <2>2
<1>5. IsPlace(key_pos')
  BY <1>1, <1>3, <1>4 DEF IsPlace
<1> QED
  BY <1>1, <1>2, <1>5, StartMovingStep

\* The binary search has the whole page before it,
LEMMA StartSearchStep == IndInv /\ StartSearch => IndInv'
<1> SUFFICES ASSUME IndInv, StartSearch PROVE IndInv'
  OBVIOUS
<1>1. /\ pc = "call" /\ call.fn \in {"search", "inner_split"} /\ pc' = "search"
      /\ call' = call /\ page' = page /\ right' = right /\ i' = i /\ key_pos' = key_pos
      /\ start' = 0 /\ end' = page.num - 1 /\ result' = result
  BY DEF StartSearch
<1>2. NodeArraysTypeOK /\ page = Before
  BY <1>1 DEF IndInv, Untouched
<1>3. /\ call \in Calls /\ Count \in Nat /\ Count \in 0 .. call.load /\ page.num = Count
      /\ call.load \in Nat
  BY <1>2, CallFacts, BeforeFacts DEF NodeArraysTypeOK
<1>4. /\ start' \in 0 .. call.load /\ end' \in -1 .. call.load - 1
      /\ 0 <= start' /\ start' <= end' + 1 /\ end' <= Count - 1
      /\ 0 .. start' - 1 = {} /\ end' + 1 .. Count - 1 = {}
  BY <1>1, <1>3
<1>5. NodeArraysTypeOK'
  BY <1>1, <1>2, <1>4 DEF NodeArraysTypeOK
<1>6. Searching'
  <2>1. Count' = Count /\ Before' = Before
    BY <1>1, SameCall
  <2>2. Smaller(start)' /\ Larger(end + 1)'
    BY <1>4, <2>1 DEF Smaller, Larger
  <2> QED
    BY <1>1, <1>2, <1>4, <2>1, <2>2 DEF Searching, Untouched
<1> QED
  BY <1>1, <1>5, <1>6 DEF IndInv, ComputesReference, SearchFinds

\* What is known while it goes on: the middle is a slot between the bounds.
LEMMA SearchFacts ==
  ASSUME IndInv, pc = "search"
  PROVE  /\ NodeArraysTypeOK /\ page = Before /\ call \in Calls
         /\ call.fn \in {"search", "inner_split"}
         /\ call.key \in Nat /\ call.load \in Nat
         /\ Count \in Nat /\ Count <= call.load /\ page.num = Count
         /\ start \in Nat /\ end \in Int /\ start <= end + 1 /\ end <= Count - 1
         /\ \A j \in 0 .. start - 1 : OldCell(j).key < call.key
         /\ \A j \in end + 1 .. Count - 1 : call.key < OldCell(j).key
         /\ \A j \in 0 .. Count - 1 : OldCell(j).key \in Nat /\ OldCell(j).key \in call.keys
         /\ \A a, b \in 0 .. Count - 1 : a < b => OldCell(a).key < OldCell(b).key
         /\ start <= end => Mid \in start .. end /\ Mid \in 0 .. Count - 1
         /\ \A j : KeyAt(j) = OldCell(j).key
<1>1. NodeArraysTypeOK /\ Searching /\ page = Before /\ call \in Calls
  BY DEF IndInv, Searching, Untouched, NodeArraysTypeOK
<1>2. /\ call.key \in Nat /\ call.load \in Nat /\ Count \in 0 .. call.load
      /\ page.num = Count
      /\ \A j \in 0 .. Count - 1 : OldCell(j).key \in Nat /\ OldCell(j).key \in call.keys
      /\ \A a, b \in 0 .. Count - 1 : a < b => OldCell(a).key < OldCell(b).key
  BY <1>1, CallFacts, BeforeFacts
<1>3. start \in Nat /\ end \in Int
  BY <1>1, <1>2 DEF NodeArraysTypeOK
<1>4. /\ start <= end + 1 /\ end <= Count - 1
      /\ \A j \in 0 .. start - 1 : OldCell(j).key < call.key
      /\ \A j \in end + 1 .. Count - 1 : call.key < OldCell(j).key
      /\ call.fn \in {"search", "inner_split"}
  BY <1>1 DEF Searching, Smaller, Larger
<1>5. start <= end => Mid \in start .. end /\ Mid \in 0 .. Count - 1
  <2> DEFINE d == end - start
  <2> SUFFICES ASSUME start <= end
               PROVE  Mid \in start .. end /\ Mid \in 0 .. Count - 1
    OBVIOUS
  <2>1. d \in Nat
    BY <1>3
  <2> HIDE DEF d
  <2>2. d \div 2 \in 0 .. d
    BY <2>1
  <2>3. Mid = start + d \div 2 /\ end = start + d
    BY <1>3 DEF Mid, d
  <2> DEFINE m == d \div 2
  <2> HIDE DEF m
  <2>4. m \in 0 .. d /\ Mid = start + m
    BY <2>2, <2>3 DEF m
  <2> QED
    BY <1>2, <1>3, <1>4, <2>1, <2>3, <2>4
<1>6. \A j : KeyAt(j) = OldCell(j).key
  BY <1>1 DEF KeyAt, OldCell
<1>7. Count \in Nat /\ Count <= call.load
  BY <1>2
<1> QED
  BY <1>1, <1>2, <1>3, <1>4, <1>5, <1>6, <1>7

\* leaves out the half that the key cannot be in,
LEMMA SearchOnStep == IndInv /\ SearchOn => IndInv'
<1> SUFFICES ASSUME IndInv, SearchOn PROVE IndInv'
  OBVIOUS
<1> DEFINE m == Mid
<1>1. /\ pc = "search" /\ start <= end /\ pc' = "search"
      /\ call' = call /\ page' = page /\ right' = right /\ i' = i /\ key_pos' = key_pos
      /\ result' = result
      /\ \/ KeyAt(m) < call.key /\ start' = m + 1 /\ end' = end
         \/ KeyAt(m) > call.key /\ end' = m - 1 /\ start' = start
  BY DEF SearchOn, AboveMid, BelowMid
<1> HIDE DEF m
<1>2. /\ NodeArraysTypeOK /\ page = Before /\ call.fn \in {"search", "inner_split"}
      /\ call.key \in Nat /\ call.load \in Nat /\ Count \in Nat /\ Count <= call.load
      /\ start \in Nat /\ end \in Int /\ start <= end + 1 /\ end <= Count - 1
      /\ \A j \in 0 .. Count - 1 : OldCell(j).key \in Nat
  BY <1>1, SearchFacts
<1>3. m \in start .. end /\ m \in 0 .. Count - 1 /\ KeyAt(m) = OldCell(m).key
  BY <1>1, SearchFacts DEF m
<1>4. /\ \A j \in 0 .. start - 1 : OldCell(j).key < call.key
      /\ \A j \in end + 1 .. Count - 1 : call.key < OldCell(j).key
      /\ \A a, b \in 0 .. Count - 1 : a < b => OldCell(a).key < OldCell(b).key
  BY <1>1, SearchFacts
<1>5. /\ start' \in 0 .. call.load /\ end' \in -1 .. call.load - 1
      /\ 0 <= start' /\ start' <= end' + 1 /\ end' <= Count - 1
  BY <1>1, <1>2, <1>3
<1>6. \A j \in 0 .. start' - 1 : OldCell(j).key < call.key
  <2>1. CASE start' = start
    BY <1>4, <2>1
  <2>2. CASE start' = m + 1 /\ OldCell(m).key < call.key
    <3> SUFFICES ASSUME NEW j \in 0 .. m PROVE OldCell(j).key < call.key
      BY <1>3, <2>2
    <3>1. j \in 0 .. Count - 1 /\ (j = m \/ j < m)
      BY <1>2, <1>3
    <3>2. OldCell(j).key \in Nat /\ OldCell(m).key \in Nat
      BY <1>2, <1>3, <3>1
    <3> QED
      BY <1>2, <1>3, <1>4, <2>2, <3>1, <3>2
  <2> QED
    BY <1>1, <1>3, <2>1, <2>2
<1>7. \A j \in end' + 1 .. Count - 1 : call.key < OldCell(j).key
  <2>1. CASE end' = end
    BY <1>4, <2>1
  <2>2. CASE end' = m - 1 /\ OldCell(m).key > call.key
    <3> SUFFICES ASSUME NEW j \in m .. Count - 1 PROVE call.key < OldCell(j).key
      BY <1>3, <2>2
    <3>1. j \in 0 .. Count - 1 /\ (j = m \/ m < j)
      BY <1>2, <1>3
    <3>2. OldCell(j).key \in Nat /\ OldCell(m).key \in Nat
      BY <1>2, <1>3, <3>1
    <3> QED
      BY <1>2, <1>3, <1>4, <2>2, <3>1, <3>2
  <2> QED
    BY <1>1, <1>3, <2>1, <2>2
<1>8. NodeArraysTypeOK'
  BY <1>1, <1>2, <1>5 DEF NodeArraysTypeOK
<1>9. Searching'
  <2>1. Count' = Count /\ Before' = Before /\ \A j : OldCell(j)' = OldCell(j)
    BY <1>1, SameCall
  <2>2. Smaller(start)' /\ Larger(end + 1)'
    BY <1>1, <1>6, <1>7, <2>1 DEF Smaller, Larger
  <2> QED
    BY <1>1, <1>2, <1>5, <2>1, <2>2 DEF Searching, Untouched
<1> QED
  BY <1>1, <1>8, <1>9 DEF IndInv, ComputesReference, SearchFinds

\* What search returns is the position BtreeNode asks for.
LEMMA FoundPosition ==
  ASSUME call \in Calls, NEW p \in 0 .. Count,
         \A j \in 0 .. p - 1 : OldCell(j).key <= call.key,
         \A j \in p .. Count - 1 : call.key < OldCell(j).key
  PROVE  IsKeyPosition(Keys(Before), call.key, p)
<1> DEFINE s == Keys(Before)
<1>1. Count \in Nat /\ Before.num = Count
  BY CallFacts, BeforeFacts
<1>2. Len(s) = Count /\ \A j \in 1 .. Count : s[j] = OldCell(j - 1).key
  BY <1>1 DEF Keys, OldCell
<1> HIDE DEF s
<1>3. \A j \in 1 .. p : s[j] <= call.key
  <2> SUFFICES ASSUME NEW j \in 1 .. p PROVE s[j] <= call.key
    OBVIOUS
  <2> DEFINE k == j - 1
  <2>1. k \in 0 .. p - 1 /\ j \in 1 .. Count
    BY <1>1
  <2> HIDE DEF k
  <2> QED
    BY <1>2, <2>1 DEF k
<1>4. \A j \in p + 1 .. Len(s) : call.key < s[j]
  <2> SUFFICES ASSUME NEW j \in p + 1 .. Count PROVE call.key < s[j]
    BY <1>2
  <2> DEFINE k == j - 1
  <2>1. k \in p .. Count - 1 /\ j \in 1 .. Count
    BY <1>1
  <2> HIDE DEF k
  <2> QED
    BY <1>2, <2>1 DEF k
<1>5. IsKeyPosition(s, call.key, p)
  BY <1>2, <1>3, <1>4 DEF IsKeyPosition
<1> QED
  BY <1>5 DEF s

\* and ends with the key's slot,
LEMMA SearchHitStep == IndInv /\ SearchHit => IndInv'
<1> SUFFICES ASSUME IndInv, SearchHit PROVE IndInv'
  OBVIOUS
<1> DEFINE m == Mid  p == m + 1
<1>1. /\ pc = "search" /\ start <= end /\ KeyAt(m) = call.key
      /\ result' = m /\ pc' = "done"
      /\ call' = call /\ page' = page /\ right' = right /\ i' = i /\ key_pos' = key_pos
      /\ start' = start /\ end' = end
  BY DEF SearchHit, search
<1> HIDE DEF m
<1>2. /\ NodeArraysTypeOK /\ page = Before /\ call \in Calls /\ call.fn \in {"search", "inner_split"}
      /\ call.key \in Nat /\ Count \in Nat
      /\ \A j \in 0 .. Count - 1 : OldCell(j).key \in Nat /\ OldCell(j).key \in call.keys
      /\ \A a, b \in 0 .. Count - 1 : a < b => OldCell(a).key < OldCell(b).key
  BY <1>1, SearchFacts
<1>3. m \in 0 .. Count - 1 /\ OldCell(m).key = call.key
  BY <1>1, SearchFacts DEF m
<1>4. call.fn = "search"
  BY <1>2, <1>3, CallFacts DEF Splits
<1>5. NodeArraysTypeOK'
  BY <1>1, <1>2 DEF NodeArraysTypeOK
<1>6. p \in 0 .. Count
  BY <1>2, <1>3
<1>7. \A j \in 0 .. p - 1 : OldCell(j).key <= call.key
  <2> SUFFICES ASSUME NEW j \in 0 .. p - 1 PROVE OldCell(j).key <= call.key
    OBVIOUS
  <2>1. j \in 0 .. Count - 1 /\ (j = m \/ j < m)
    BY <1>2, <1>3
  <2> QED
    BY <1>2, <1>3, <2>1
<1>8. \A j \in p .. Count - 1 : call.key < OldCell(j).key
  <2> SUFFICES ASSUME NEW j \in p .. Count - 1 PROVE call.key < OldCell(j).key
    OBVIOUS
  <2>1. j \in 0 .. Count - 1 /\ m < j
    BY <1>2, <1>3
  <2> QED
    BY <1>2, <1>3, <2>1
<1> HIDE DEF p
<1>9. IsKeyPosition(Keys(Before), call.key, p)
  BY <1>2, <1>6, <1>7, <1>8, FoundPosition
<1>10. SearchFinds'
  BY <1>1, <1>2, <1>9 DEF SearchFinds, p
<1>11. Correct(call, Before, PositionIn(Keys(Before)), page', right', result')
  BY <1>4 DEF Correct
<1>12. ComputesReference'
  BY <1>1, <1>11, ReferenceAfter
<1> QED
  BY <1>1, <1>5, <1>10, <1>12 DEF IndInv

\* or, if the key is not there, with the place before it.
LEMMA SearchMissStep == IndInv /\ SearchMiss => IndInv'
<1> SUFFICES ASSUME IndInv, SearchMiss PROVE IndInv'
  OBVIOUS
<1> DEFINE p == end + 1
<1>1. pc = "search" /\ start = p
  BY DEF SearchMiss
<1>2. /\ NodeArraysTypeOK /\ page = Before /\ call \in Calls /\ call.fn \in {"search", "inner_split"}
      /\ call.key \in Nat /\ Count \in Nat /\ p \in 0 .. Count
      /\ \A j \in 0 .. p - 1 : OldCell(j).key < call.key
      /\ \A j \in p .. Count - 1 : call.key < OldCell(j).key
  <2>1. /\ NodeArraysTypeOK /\ page = Before /\ call \in Calls /\ call.fn \in {"search", "inner_split"}
        /\ call.key \in Nat /\ Count \in Nat /\ start \in Nat /\ end \in Int /\ end <= Count - 1
        /\ \A j \in 0 .. start - 1 : OldCell(j).key < call.key
        /\ \A j \in end + 1 .. Count - 1 : call.key < OldCell(j).key
    BY <1>1, SearchFacts
  <2>2. p \in 0 .. Count
    BY <1>1, <2>1
  <2> QED
    BY <1>1, <2>1, <2>2
<1>3. \A j \in 0 .. Count - 1 : OldCell(j).key \in Nat
  BY <1>2, BeforeFacts
<1>4. CASE call.fn = "search"
  <2>1. /\ result' = end /\ pc' = "done"
        /\ call' = call /\ page' = page /\ right' = right /\ i' = i /\ key_pos' = key_pos
        /\ start' = start /\ end' = end
    BY <1>4 DEF SearchMiss, NotFound, search
  <2>2. NodeArraysTypeOK'
    BY <1>2, <2>1 DEF NodeArraysTypeOK
  <2>3. \A j \in 0 .. p - 1 : OldCell(j).key <= call.key
    <3>1. \A j \in 0 .. p - 1 : j \in 0 .. Count - 1
      BY <1>2
    <3> QED
      BY <1>2, <1>3, <3>1
  <2> HIDE DEF p
  <2>4. IsKeyPosition(Keys(Before), call.key, p)
    BY <1>2, <2>3, FoundPosition
  <2>5. SearchFinds'
    BY <1>2, <2>1, <2>4 DEF SearchFinds, p
  <2>6. Correct(call, Before, PositionIn(Keys(Before)), page', right', result')
    BY <1>4 DEF Correct
  <2>7. ComputesReference'
    BY <2>1, <2>6, ReferenceAfter
  <2> QED
    BY <2>1, <2>2, <2>5, <2>7 DEF IndInv
<1>5. CASE call.fn = "inner_split"
  <2>1. /\ key_pos' = p /\ StartMoving /\ call' = call /\ page' = page
        /\ start' = start /\ end' = end /\ result' = result
    BY <1>5 DEF SearchMiss, NotFound, StartMoving, search
  <2>2. IsPlace(key_pos')
    BY <1>2, <2>1 DEF IsPlace, Smaller, Larger
  <2>3. call.fn \in Splits
    BY <1>5 DEF Splits
  <2> QED
    BY <1>2, <2>1, <2>2, <2>3, StartMovingStep
<1> QED
  BY <1>2, <1>4, <1>5

\* What is put into a slot of the two halves stays out of the others.
LEMMA PutFacts ==
  ASSUME NodeArraysTypeOK, NEW t \in 0 .. call.load, NEW c \in CellOf(call.load), PutInHalf(t, c)
  PROVE  /\ page' \in Page(call.load) /\ right' \in Page(call.load)
         /\ page'.head = page.head /\ page'.num = page.num /\ right'.num = right.num
         /\ InHalfOf(page', right', t, c)
         /\ \A j \in 0 .. call.load - 1 : j < t => page'.cells[j] = page.cells[j]
         /\ \A u \in 0 .. call.load : u # t =>
              \A d : InHalf(u, d) => InHalfOf(page', right', u, d)
<1> DEFINE n == call.load  L == LeftLoad(call.load)
<1>1. /\ call \in Calls /\ page \in Page(n) /\ right \in Page(n)
      /\ n \in Nat /\ L \in 2 .. n /\ L \in Nat /\ n - L < n
  <2>1. call \in Calls /\ page \in Page(n) /\ right \in Page(n)
    BY DEF NodeArraysTypeOK
  <2>2. /\ RightLoad(n) \in Nat \ {0} /\ n = 2 * RightLoad(n) /\ n \in Nat
        /\ L = RightLoad(n) + 1
    BY <2>1, CallFacts
  <2> QED
    BY <2>1, <2>2
<1> DEFINE k == t - L
<1>2. /\ t \in Nat /\ (t < L => t \in 0 .. n - 1) /\ (~(t < L) => k \in 0 .. n - 1)
  BY <1>1
<1>3. ASSUME NEW u \in 0 .. n, u # t
      PROVE  /\ u < L => u \in 0 .. n - 1
             /\ ~(u < L) => u - L \in 0 .. n - 1
             /\ ~(u < L) /\ ~(t < L) => u - L # k
  BY <1>1, <1>2, <1>3
<1>4. c.key \in Key \cup {Junk} /\ c.val \in 1 .. n \cup {New, Junk}
  BY DEF CellOf
<1>5. CASE IsPivot(t)
  <2> DEFINE e == [page.cells[t] EXCEPT !.key = c.key]
  <2>1. /\ page' = [page EXCEPT !.cells[t].key = c.key]
        /\ right' = [right EXCEPT !.head = c.val]
        /\ t < L /\ t = L - 1 /\ IsInner
    BY <1>1, <1>5 DEF PutInHalf, IsPivot
  <2>2. t \in 0 .. n - 1 /\ page.cells[t] \in CellOf(n)
    BY <1>1, <1>2, <2>1, CellsOfPage
  <2>3. e \in CellOf(n) /\ e.key = c.key
    BY <1>4, <2>2 DEF CellOf
  <2>4. WithCell(page', page, t, e)
    BY <2>1 DEF WithCell
  <2> HIDE DEF e
  <2>5. /\ page' \in Page(n) /\ page'.num = page.num /\ page'.head = page.head
        /\ page'.cells[t] = e
        /\ \A j \in 0 .. n - 1 : j # t => page'.cells[j] = page.cells[j]
    BY <1>1, <2>2, <2>3, <2>4, PageWithCell
  <2>6. /\ right' \in Page(n) /\ right'.num = right.num /\ right'.head = c.val
        /\ right'.cells = right.cells
    <3>1. c.val \in 0 .. n \cup {New, Junk}
      BY <1>1, <1>4
    <3> QED
      BY <1>1, <2>1, <3>1 DEF Page
  <2>7. InHalfOf(page', right', t, c)
    BY <1>5, <2>3, <2>5, <2>6 DEF InHalfOf
  <2>8. ASSUME NEW u \in 0 .. n, u # t, NEW d, InHalf(u, d)
        PROVE  InHalfOf(page', right', u, d)
    <3>1. ~IsPivot(u)
      BY <1>5, <2>8 DEF IsPivot
    <3> QED
      BY <1>3, <2>5, <2>6, <2>8, <3>1 DEF InHalf, InHalfOf
  <2>9. \A j \in 0 .. n - 1 : j < t => page'.cells[j] = page.cells[j]
    BY <1>2, <2>5
  <2> QED
    BY <2>5, <2>6, <2>7, <2>8, <2>9
<1>6. CASE ~IsPivot(t) /\ t < L
  <2>1. WithCell(page', page, t, c) /\ right' = right
    BY <1>6 DEF PutInHalf, WithCell
  <2>2. /\ page' \in Page(n) /\ page'.num = page.num /\ page'.head = page.head
        /\ page'.cells[t] = c
        /\ \A j \in 0 .. n - 1 : j # t => page'.cells[j] = page.cells[j]
    BY <1>1, <1>2, <1>6, <2>1, PageWithCell
  <2>3. InHalfOf(page', right', t, c)
    BY <1>6, <2>2 DEF InHalfOf
  <2>4. ASSUME NEW u \in 0 .. n, u # t, NEW d, InHalf(u, d)
        PROVE  InHalfOf(page', right', u, d)
    <3>1. CASE IsPivot(u)
      <4>1. u \in 0 .. n - 1
        BY <1>1, <3>1 DEF IsPivot
      <4> QED
        BY <2>1, <2>2, <2>4, <3>1, <4>1 DEF InHalf, InHalfOf
    <3>2. CASE ~IsPivot(u)
      BY <1>3, <2>1, <2>2, <2>4, <3>2 DEF InHalf, InHalfOf
    <3> QED
      BY <3>1, <3>2
  <2>5. \A j \in 0 .. n - 1 : j < t => page'.cells[j] = page.cells[j]
    BY <1>2, <2>2
  <2> QED
    BY <1>1, <2>1, <2>2, <2>3, <2>4, <2>5
<1>7. CASE ~IsPivot(t) /\ ~(t < L)
  <2>1. WithCell(right', right, k, c) /\ page' = page
    BY <1>7 DEF PutInHalf, WithCell
  <2>2. k \in 0 .. n - 1
    BY <1>2, <1>7
  <2> HIDE DEF k
  <2>3. /\ right' \in Page(n) /\ right'.num = right.num /\ right'.head = right.head
        /\ right'.cells[k] = c
        /\ \A j \in 0 .. n - 1 : j # k => right'.cells[j] = right.cells[j]
    BY <1>1, <2>1, <2>2, PageWithCell
  <2>4. InHalfOf(page', right', t, c)
    BY <1>7, <2>3 DEF InHalfOf, k
  <2>5. ASSUME NEW u \in 0 .. n, u # t, NEW d, InHalf(u, d)
        PROVE  InHalfOf(page', right', u, d)
    <3>1. CASE IsPivot(u) \/ u < L
      BY <2>1, <2>3, <2>5, <3>1 DEF InHalf, InHalfOf
    <3>2. CASE ~IsPivot(u) /\ ~(u < L)
      <4> DEFINE v == u - L
      <4>1. v \in 0 .. n - 1 /\ v # k
        BY <1>3, <1>7, <2>5, <3>2
      <4>2. right.cells[v] = d
        BY <2>5, <3>2 DEF InHalf
      <4> HIDE DEF v
      <4>3. right'.cells[v] = d
        BY <2>3, <4>1, <4>2
      <4> QED
        BY <3>2, <4>3 DEF InHalfOf, v
    <3> QED
      BY <3>1, <3>2
  <2> QED
    BY <1>1, <2>1, <2>3, <2>4, <2>5
<1> QED
  BY <1>5, <1>6, <1>7

\* A split moves one cell after the other to its slot,
LEMMA MoveCellStep == IndInv /\ MoveCell => IndInv'
<1> SUFFICES ASSUME IndInv, MoveCell PROVE IndInv'
  OBVIOUS
<1> DEFINE n == call.load  t == TargetSlot(key_pos, i)  c == page.cells[i]
<1>1. /\ pc = "move" /\ i >= 0 /\ PutInHalf(t, c) /\ i' = i - 1 /\ pc' = pc
      /\ call' = call /\ key_pos' = key_pos /\ start' = start /\ end' = end
      /\ result' = result
  BY DEF MoveCell, SlotAfterInsert, TargetSlot, search
<1>2. NodeArraysTypeOK /\ Moving
  BY <1>1 DEF IndInv
<1>3. /\ call \in Calls /\ page \in Page(n) /\ n \in Nat /\ Count = n
      /\ i \in 0 .. n - 1 /\ key_pos \in 0 .. n
  <2>1. call \in Calls /\ page \in Page(n) /\ call.fn \in Splits
    BY <1>2 DEF NodeArraysTypeOK, Moving
  <2>2. n \in Nat /\ Count = n
    BY <2>1, CallFacts
  <2> QED
    BY <1>1, <1>2, <2>1, <2>2 DEF NodeArraysTypeOK
<1>4. t \in 0 .. n /\ i <= t
  BY <1>3 DEF TargetSlot
<1>5. c = OldCell(i) /\ c \in CellOf(n)
  <2>1. i \in 0 .. i
    BY <1>3
  <2> QED
    BY <1>2, <1>3, <2>1, CellsOfPage DEF Moving
<1> HIDE DEF t, c
<1>6. /\ page' \in Page(n) /\ right' \in Page(n)
      /\ page'.head = page.head /\ right'.num = right.num
      /\ InHalfOf(page', right', t, c)
      /\ \A j \in 0 .. n - 1 : j < t => page'.cells[j] = page.cells[j]
      /\ \A u \in 0 .. n : u # t => \A d : InHalf(u, d) => InHalfOf(page', right', u, d)
  BY <1>1, <1>2, <1>4, <1>5, PutFacts
<1>7. NodeArraysTypeOK'
  <2>1. i' \in -1 .. n - 1
    BY <1>1, <1>3
  <2> QED
    BY <1>1, <1>2, <1>6, <2>1 DEF NodeArraysTypeOK
<1>8. Moving'
  <2> DEFINE m == i - 1
  <2>1. /\ Count' = Count /\ Before' = Before /\ \A j : OldCell(j)' = OldCell(j)
        /\ (IsPlace(key_pos)' <=> IsPlace(key_pos))
    <3>1. /\ Count' = Count /\ Before' = Before /\ \A j : OldCell(j)' = OldCell(j)
      BY <1>1, SameCall
    <3> QED
      BY <1>1, <3>1 DEF IsPlace, Smaller, Larger
  <2>2. \A j \in 0 .. m : page'.cells[j] = OldCell(j)
    <3> SUFFICES ASSUME NEW j \in 0 .. m PROVE page'.cells[j] = OldCell(j)
      OBVIOUS
    <3>1. j \in 0 .. n - 1 /\ j < t /\ j \in 0 .. i
      BY <1>3, <1>4
    <3> QED
      BY <1>2, <1>6, <3>1 DEF Moving
  <2>3. \A j \in m + 1 .. Count - 1 :
          InHalfOf(page', right', TargetSlot(key_pos, j), OldCell(j))
    <3> SUFFICES ASSUME NEW j \in i .. n - 1
                 PROVE  InHalfOf(page', right', TargetSlot(key_pos, j), OldCell(j))
      BY <1>3
    <3>1. CASE j = i
      BY <1>5, <1>6, <3>1 DEF t
    <3>2. CASE j # i
      <4> DEFINE u == TargetSlot(key_pos, j)
      <4>1. j \in i + 1 .. Count - 1
        BY <1>3, <3>2
      <4>2. InHalf(u, OldCell(j))
        BY <1>2, <4>1 DEF Moving
      <4>3. u \in 0 .. n /\ u # t
        BY <1>3, <3>2 DEF TargetSlot, t
      <4> HIDE DEF u
      <4>4. InHalfOf(page', right', u, OldCell(j))
        BY <1>6, <4>2, <4>3
      <4> QED
        BY <4>4 DEF u
    <3> QED
      BY <3>1, <3>2
  <2> HIDE DEF m
  <2>4. \A j \in m + 1 .. Count - 1 :
          InHalf(TargetSlot(key_pos, j), OldCell(j))'
    <3> SUFFICES ASSUME NEW j \in m + 1 .. Count - 1
                 PROVE  InHalf(TargetSlot(key_pos, j), OldCell(j))'
      OBVIOUS
    <3>1. TargetSlot(key_pos, j)' = TargetSlot(key_pos, j) /\ OldCell(j)' = OldCell(j)
      BY <1>1, <2>1 DEF TargetSlot
    <3>2. IsInner' <=> IsInner
      BY <1>1, SameCall
    <3> QED
      BY <1>1, <2>3, <3>1, <3>2 DEF InHalf, InHalfOf, IsPivot
  <2>5. i' = m
    BY <1>1 DEF m
  <2> QED
    BY <1>1, <1>2, <1>6, <2>1, <2>2, <2>4, <2>5 DEF Moving
<1> QED
  BY <1>1, <1>7, <1>8 DEF IndInv, ComputesReference, SearchFinds

\* then the new one,
LEMMA PlaceInHalfStep == IndInv /\ PlaceInHalf => IndInv'
<1> SUFFICES ASSUME IndInv, PlaceInHalf PROVE IndInv'
  OBVIOUS
<1> DEFINE n == call.load
<1>1. /\ pc = "move" /\ i < 0 /\ PutInHalf(key_pos, NewCell) /\ pc' = "cut"
      /\ call' = call /\ i' = i /\ key_pos' = key_pos /\ start' = start /\ end' = end
      /\ result' = result
  BY DEF PlaceInHalf, NewCell, search
<1>2. NodeArraysTypeOK /\ Moving
  BY <1>1 DEF IndInv
<1>3. /\ call \in Calls /\ n \in Nat /\ n > 0 /\ Count = n /\ i = -1
      /\ key_pos \in 0 .. n /\ call.key \in Key /\ call.fn \in Splits
  <2>1. call \in Calls /\ call.fn \in Splits
    BY <1>2 DEF NodeArraysTypeOK, Moving
  <2>2. n \in Nat /\ n > 0 /\ Count = n /\ call.key \in Key
    BY <2>1, CallFacts
  <2>3. i \in -1 .. n - 1 /\ key_pos \in 0 .. n
    BY <1>2 DEF NodeArraysTypeOK
  <2> QED
    BY <1>1, <2>1, <2>2, <2>3
<1>4. NewCell \in CellOf(n)
  BY <1>3 DEF NewCell, Cell, CellOf
<1>5. /\ page' \in Page(n) /\ right' \in Page(n)
      /\ page'.head = page.head /\ right'.num = right.num
      /\ InHalfOf(page', right', key_pos, NewCell)
      /\ \A u \in 0 .. n : u # key_pos =>
           \A d : InHalf(u, d) => InHalfOf(page', right', u, d)
  BY <1>1, <1>2, <1>3, <1>4, PutFacts
<1>6. NodeArraysTypeOK'
  BY <1>1, <1>2, <1>5 DEF NodeArraysTypeOK
<1>7. \A t \in 0 .. n : InHalfOf(page', right', t, OverCell(key_pos, t))
  <2> SUFFICES ASSUME NEW t \in 0 .. n
               PROVE  InHalfOf(page', right', t, OverCell(key_pos, t))
    OBVIOUS
  <2>1. CASE t = key_pos
    <3>1. OverCell(key_pos, t) = NewCell
      BY <1>3, <2>1 DEF OverCell
    <3> QED
      BY <1>5, <2>1, <3>1
  <2>2. CASE t # key_pos
    <3> DEFINE j == IF t < key_pos THEN t ELSE t - 1
    <3>1. j \in i + 1 .. Count - 1 /\ TargetSlot(key_pos, j) = t
      BY <1>3, <2>2 DEF TargetSlot
    <3>2. OverCell(key_pos, t) = OldCell(j)
      BY <2>2 DEF OverCell
    <3> HIDE DEF j
    <3>3. InHalf(t, OldCell(j))
      BY <1>2, <3>1 DEF Moving
    <3> QED
      BY <1>5, <2>2, <3>2, <3>3
  <2> QED
    BY <2>1, <2>2
<1>8. Moved'
  <2>1. /\ Count' = Count /\ Before' = Before /\ \A j : OldCell(j)' = OldCell(j)
        /\ (IsInner' <=> IsInner)
    BY <1>1, SameCall
  <2>2. IsPlace(key_pos)'
    BY <1>1, <1>2, <2>1 DEF Moving, IsPlace, Smaller, Larger
  <2>3. \A t : OverCell(key_pos, t)' = OverCell(key_pos, t)
    BY <1>1, <2>1 DEF OverCell, NewCell
  <2>4. \A t \in 0 .. n : InHalf(t, OverCell(key_pos, t))'
    <3> SUFFICES ASSUME NEW t \in 0 .. n
                 PROVE  InHalf(t, OverCell(key_pos, t))'
      OBVIOUS
    <3> QED
      BY <1>1, <1>7, <2>1, <2>3 DEF InHalf, InHalfOf, IsPivot
  <2> QED
    BY <1>1, <1>2, <1>5, <2>1, <2>2, <2>4 DEF Moving, Moved
<1> QED
  BY <1>1, <1>6, <1>8 DEF IndInv, ComputesReference, SearchFinds

\* and says how many cells each page has.
LEMMA CutStep == IndInv /\ Cut => IndInv'
<1> SUFFICES ASSUME IndInv, Cut PROVE IndInv'
  OBVIOUS
<1> DEFINE n == call.load  h == RightLoad(call.load)  L == LeftLoad(call.load)
           m == IF IsInner THEN L - 1 ELSE L
<1>1. /\ pc = "cut" /\ page' = [page EXCEPT !.num = m] /\ result' = page.cells[L - 1].key
      /\ pc' = "done" /\ call' = call /\ right' = right /\ i' = i /\ key_pos' = key_pos
      /\ start' = start /\ end' = end
  BY DEF Cut, KeyAt, search
<1>2. NodeArraysTypeOK /\ Moved
  BY <1>1 DEF IndInv
<1>3. /\ call \in Calls /\ page \in Page(n) /\ call.fn \in Splits /\ IsPlace(key_pos)
      /\ right.num = h /\ page.head = Before.head
      /\ \A t \in 0 .. n : InHalf(t, OverCell(key_pos, t))
  BY <1>2 DEF NodeArraysTypeOK, Moved
<1>4. m \in 0 .. n
  <2>1. n \in Nat /\ h \in Nat \ {0} /\ n = 2 * h /\ L = h + 1
    BY <1>3, CallFacts
  <2> HIDE DEF h, L
  <2> QED
    BY <2>1
<1> HIDE DEF m
<1>5. /\ page' \in Page(n) /\ page'.num = m /\ page'.head = page.head
      /\ page'.cells = page.cells
  BY <1>1, <1>3, <1>4 DEF Page
<1>6. NodeArraysTypeOK'
  BY <1>1, <1>2, <1>5 DEF NodeArraysTypeOK
<1>7. \A t \in 0 .. n : InHalfOf(page', right', t, OverCell(key_pos, t))
  BY <1>1, <1>3, <1>5 DEF InHalf, InHalfOf
<1>8. /\ page'.num = (IF IsInner THEN L - 1 ELSE L) /\ page'.head = Before.head
      /\ right'.num = h /\ result' = page'.cells[L - 1].key
  BY <1>1, <1>3, <1>5 DEF m
<1>9. PositionIn(Keys(Before)) = key_pos
  BY <1>3, PlaceIsPosition
<1>10. Correct(call, Before, PositionIn(Keys(Before)), page', right', result')
  <2>1. AreHalves(key_pos, page', right', result')
    BY <1>3, <1>7, <1>8, SplitDone
  <2>2. call.fn # "leaf_insert" /\ call.fn # "inner_insert"
    BY <1>3 DEF Splits
  <2> QED
    BY <1>9, <2>1, <2>2 DEF Correct, AreHalves
<1>11. ComputesReference'
  BY <1>1, <1>10, ReferenceAfter
<1> QED
  BY <1>1, <1>3, <1>6, <1>11 DEF IndInv, SearchFinds, Splits

(***************************************************************************)
(* The theorems.                                                           *)
(***************************************************************************)
LEMMA NextIndInv == IndInv /\ [Next]_vars => IndInv'
<1> SUFFICES ASSUME IndInv, [Next]_vars PROVE IndInv'
  OBVIOUS
<1>1. CASE FillEmptyNode
  BY <1>1, FillEmptyNodeStep
<1>2. CASE CountCell
  BY <1>2, CountCellStep
<1>3. CASE ShiftCell
  BY <1>3, ShiftCellStep
<1>4. CASE PlaceCell
  BY <1>4, PlaceCellStep
<1>5. CASE ScanFromEnd
  BY <1>5, ScanFromEndStep
<1>6. CASE ScanDown
  BY <1>6, ScanDownStep
<1>7. CASE ScanEnds
  BY <1>7, ScanEndsStep
<1>8. CASE StartSearch
  BY <1>8, StartSearchStep
<1>9. CASE SearchOn
  BY <1>9, SearchOnStep
<1>10. CASE SearchHit
  BY <1>10, SearchHitStep
<1>11. CASE SearchMiss
  BY <1>11, SearchMissStep
<1>12. CASE MoveCell
  BY <1>12, MoveCellStep
<1>13. CASE PlaceInHalf
  BY <1>13, PlaceInHalfStep
<1>14. CASE Cut
  BY <1>14, CutStep
<1>15. CASE UNCHANGED vars
  <2>1. /\ call' = call /\ pc' = pc /\ page' = page /\ right' = right /\ i' = i
        /\ key_pos' = key_pos /\ start' = start /\ end' = end /\ result' = result
    BY <1>15 DEF vars, search
  <2>2. Count' = Count /\ Before' = Before /\ (IsInner' <=> IsInner)
    BY <2>1, SameCall
  <2>3. \A j : OldCell(j)' = OldCell(j)
    BY <2>1, SameCall
  <2>4. /\ Smaller(start)' <=> Smaller(start)
        /\ Larger(end + 1)' <=> Larger(end + 1)
        /\ Larger(i)' <=> Larger(i)
        /\ Larger(key_pos)' <=> Larger(key_pos)
        /\ IsPlace(key_pos)' <=> IsPlace(key_pos)
    BY <2>1, <2>2, <2>3 DEF Smaller, Larger, IsPlace
  <2>5. NodeArraysTypeOK'
    BY <2>1 DEF IndInv, NodeArraysTypeOK
  <2>6. (Untouched' <=> Untouched) /\ (Scanning' <=> Scanning) /\ (Searching' <=> Searching)
    BY <2>1, <2>2, <2>4 DEF Untouched, Scanning, Searching
  <2>7. Shifting' <=> Shifting
    BY <2>1, <2>2, <2>3, <2>4 DEF Shifting
  <2>8. \A t, c : InHalf(t, c)' <=> InHalf(t, c)
    BY <2>1, <2>2 DEF InHalf, IsPivot
  <2>9. \A t : OverCell(key_pos, t)' = OverCell(key_pos, t)
    BY <2>1, <2>3 DEF OverCell, NewCell
  <2>10. Moving => Moving'
    BY <2>1, <2>2, <2>3, <2>4 DEF Moving, InHalf, IsPivot, TargetSlot
  <2>11. Moved => Moved'
    BY <2>1, <2>2, <2>4, <2>9 DEF Moved, InHalf, IsPivot
  <2>12. ComputesReference' /\ SearchFinds'
    <3>1. PositionIn(Keys(Before))' = PositionIn(Keys(Before))
      BY <2>1, SameCall
    <3>2. ComputesReference <=>
            (pc = "done" => Correct(call, Before, PositionIn(Keys(Before)),
                                    page, right, result))
      BY DEF ComputesReference, Correct
    <3>3. ComputesReference'
      BY <2>1, <3>2, ReferenceAfter DEF IndInv, ComputesReference
    <3>4. SearchFinds'
      BY <2>1 DEF IndInv, SearchFinds
    <3> QED
      BY <3>3, <3>4
  <2> QED
    BY <2>1, <2>5, <2>6, <2>7, <2>10, <2>11, <2>12 DEF IndInv
<1> QED
  BY <1>1, <1>2, <1>3, <1>4, <1>5, <1>6, <1>7, <1>8, <1>9, <1>10, <1>11, <1>12,
     <1>13, <1>14, <1>15 DEF Next

\* IndInv holds throughout every call, on nodes of every load.
THEOREM Invariant == Spec => []IndInv
<1>1. Init => IndInv
  BY InitIndInv
<1>2. IndInv /\ [Next]_vars => IndInv'
  BY NextIndInv
<1> QED
  BY <1>1, <1>2, PTL DEF Spec

\* No loop of LeafNode or InternalNode leaves its page: every counter and index
\* is that of a slot.
THEOREM TypeInvariant == Spec => []NodeArraysTypeOK
<1>1. IndInv => NodeArraysTypeOK
  BY DEF IndInv
<1> QED
  BY <1>1, Invariant, PTL

\* insert and insert_and_split leave in the pages the nodes that BtreeNode
\* says, for nodes of every even load and every set of keys.
THEOREM Reference == Spec => []ComputesReference
<1>1. IndInv => ComputesReference
  BY DEF IndInv
<1> QED
  BY <1>1, Invariant, PTL

\* search_key_position returns the slot BtreeNode says.
THEOREM SearchResult == Spec => []SearchFinds
<1>1. IndInv => SearchFinds
  BY DEF IndInv
<1> QED
  BY <1>1, Invariant, PTL
==============================================================================
