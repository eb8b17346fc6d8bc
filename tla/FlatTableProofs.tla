--------------------------- MODULE FlatTableProofs ---------------------------
(***************************************************************************)
(* Theorems about FlatTable, for rows and pages of any size, any number of *)
(* pages and any rows: its types, that its file always ends behind a row,  *)
(* that get_page finds every row, and that it implements the append-only   *)
(* log, whenever the process dies.                                         *)
(***************************************************************************)
EXTENDS FlatTable, TLAPS

(***************************************************************************)
(* Division.                                                               *)
(***************************************************************************)

\* A number is its quotient and its remainder.
LEMMA DivMod ==
  ASSUME NEW a \in Nat, NEW n \in Nat \ {0}
  PROVE  a \div n \in Nat /\ a % n \in 0 .. n - 1 /\ a = (a \div n) * n + (a % n)
BY SMT

\* Quotient and remainder are unique.
LEMMA DivModUnique ==
  ASSUME NEW a, NEW n \in Nat \ {0}, NEW k \in Nat, NEW r \in 0 .. n - 1,
         a = k * n + r
  PROVE  a \div n = k /\ a % n = r
BY SMT

\* Products grow with their factors.
LEMMA TimesMonotone ==
  ASSUME NEW a \in Nat, NEW b \in Nat, NEW n \in Nat, a <= b
  PROVE  a * n \in Nat /\ b * n \in Nat /\ a * n <= b * n
BY SMT

\* A page has room for at least one row, and for all rows that it holds.
LEMMA RowsPerPage ==
  /\ get_row_per_page \in Nat \ {0}
  /\ get_row_per_page * row_size <= PAGE_SIZE
  /\ get_max_rows \in Nat
  /\ PAGE_SIZE \in Nat \ {0}
BY SizeAssumption, SMT DEF get_row_per_page, get_max_rows

\* Every row has a slot in a page of its own.
LEMMA RowSlot ==
  ASSUME NEW rowid \in 0 .. get_max_rows - 1
  PROVE  /\ PageOf(rowid) \in PageId /\ SlotOf(rowid) \in Slot
         /\ rowid = PageOf(rowid) * get_row_per_page + SlotOf(rowid)
<1> DEFINE R == get_row_per_page
<1>1. R \in Nat \ {0} /\ rowid \in Nat /\ rowid < TABLE_MAX_PAGES * R
  BY RowsPerPage, SizeAssumption DEF get_max_rows
<1>2. /\ PageOf(rowid) \in Nat /\ SlotOf(rowid) \in 0 .. R - 1
      /\ rowid = PageOf(rowid) * R + SlotOf(rowid)
  BY <1>1, DivMod DEF PageOf, SlotOf
<1>3. PageOf(rowid) < TABLE_MAX_PAGES
  <2>1. SUFFICES ASSUME TABLE_MAX_PAGES <= PageOf(rowid) PROVE FALSE
    BY <1>2, SizeAssumption
  <2>2. TABLE_MAX_PAGES * R <= PageOf(rowid) * R
    BY <1>1, <1>2, <2>1, TimesMonotone, SizeAssumption
  <2> QED
    BY <1>1, <1>2, <2>2, SizeAssumption
<1> QED
  BY <1>2, <1>3, SizeAssumption DEF PageId, Slot

(***************************************************************************)
(* The length of a file with the given number of rows.  How many rows a    *)
(* file has is computed from its length; here is the other direction.      *)
(***************************************************************************)
LengthOf(rows) == PageOf(rows) * PAGE_SIZE + SlotOf(rows) * row_size

\* The constructors find in a file as many rows as it has: no byte of the
\* length is a part of a row, and every page but the last one counts as full.
LEMMA RowsOfLength ==
  ASSUME NEW rows \in 0 .. get_max_rows
  PROVE  /\ LengthOf(rows) \in 0 .. TABLE_MAX_PAGES * PAGE_SIZE
         /\ RowsInFile(LengthOf(rows)) = rows
         /\ RemainByte(LengthOf(rows)) % row_size = 0
         /\ PagesInFile(LengthOf(rows)) \in 0 .. TABLE_MAX_PAGES
         /\ PagesInFile(LengthOf(rows)) =
              IF SlotOf(rows) = 0 THEN PageOf(rows) ELSE PageOf(rows) + 1
<1> DEFINE R == get_row_per_page  P == PAGE_SIZE  r == row_size
           M == TABLE_MAX_PAGES
           k == PageOf(rows)  s == SlotOf(rows)
<1>1. R \in Nat \ {0} /\ P \in Nat \ {0} /\ r \in Nat \ {0} /\ M \in Nat /\ R * r <= P
  BY RowsPerPage, SizeAssumption
<1>2. rows \in Nat /\ rows <= M * R
  BY RowsPerPage DEF get_max_rows
<1>3. k \in Nat /\ s \in 0 .. R - 1 /\ rows = k * R + s
  BY <1>1, <1>2, DivMod DEF PageOf, SlotOf
<1>4. LengthOf(rows) = k * P + s * r
  BY DEF LengthOf
<1>. HIDE DEF R, P, r, M, k, s
<1>5. s * r \in 0 .. P - 1
  <2>1. (s + 1) * r <= R * r
    BY <1>1, <1>3, TimesMonotone
  <2>2. (s + 1) * r = s * r + r /\ s * r \in Nat
    BY <1>1, <1>3
  <2> QED
    BY <1>1, <2>1, <2>2
<1>6. RemainByte(LengthOf(rows)) = s * r
  BY <1>1, <1>3, <1>4, <1>5, DivModUnique DEF RemainByte, P
<1>7. (s * r) \div r = s /\ (s * r) % r = 0
  BY <1>1, <1>3, DivModUnique
<1>8. k <= M /\ (k = M => s = 0)
  <2>1. SUFFICES ASSUME M <= k, k # M \/ s # 0 PROVE FALSE
    BY <1>1, <1>3
  <2>2. M * R <= k * R
    BY <1>1, <1>3, <2>1, TimesMonotone
  <2>3. CASE s # 0
    BY <1>1, <1>2, <1>3, <2>2, <2>3
  <2>4. CASE k # M
    <3>1. (M + 1) * R <= k * R
      BY <1>1, <1>3, <2>1, <2>4, TimesMonotone
    <3>2. (M + 1) * R = M * R + R
      BY <1>1
    <3> QED
      BY <1>1, <1>2, <1>3, <3>1, <3>2
  <2> QED
    BY <2>1, <2>3, <2>4
<1>9. CASE s = 0
  <2>1. s * r = 0
    BY <1>1, <1>9
  <2>2. LengthOf(rows) = k * P + 0 /\ LengthOf(rows) + P - 1 = k * P + (P - 1)
    BY <1>1, <1>3, <1>4, <2>1
  <2>3. (LengthOf(rows) + P - 1) \div P = k
    BY <1>1, <1>3, <2>2, DivModUnique
  <2>4. PagesInFile(LengthOf(rows)) = k
    BY <2>3 DEF PagesInFile, P
  <2>5. RowsInFile(LengthOf(rows)) = k * R
    BY <1>6, <2>1, <2>4 DEF RowsInFile, R
  <2>6. k * P <= M * P
    BY <1>1, <1>3, <1>8, TimesMonotone
  <2> QED
    BY <1>1, <1>3, <1>6, <1>7, <1>8, <1>9, <2>2, <2>4, <2>5, <2>6 DEF k, s, r, P, M
<1>10. CASE s # 0
  <2>1. s * r # 0 /\ s * r - 1 \in 0 .. P - 1
    BY <1>1, <1>3, <1>5, <1>10
  <2>2. LengthOf(rows) + P - 1 = (k + 1) * P + (s * r - 1)
    BY <1>1, <1>3, <1>4, <1>5
  <2>3. (LengthOf(rows) + P - 1) \div P = k + 1
    <3>1. P \in Nat \ {0} /\ k + 1 \in Nat
      BY <1>1, <1>3
    <3> QED
      BY <2>1, <2>2, <3>1, DivModUnique
  <2>4. PagesInFile(LengthOf(rows)) = k + 1
    BY <2>3 DEF PagesInFile, P
  <2>5. RowsInFile(LengthOf(rows)) =
          (PagesInFile(LengthOf(rows)) - 1) * R + RemainByte(LengthOf(rows)) \div r
    <3>1. RemainByte(LengthOf(rows)) # 0
      BY <1>6, <2>1
    <3> QED
      BY <3>1 DEF RowsInFile, R, r
  <2>6. RowsInFile(LengthOf(rows)) = rows
    <3>1. RemainByte(LengthOf(rows)) \div r = s
      BY <1>6, <1>7
    <3> QED
      BY <1>1, <1>3, <2>4, <2>5, <3>1
  <2>7. (k + 1) * P <= M * P /\ (k + 1) * P = k * P + P
    BY <1>1, <1>3, <1>8, <1>10, TimesMonotone
  <2> QED
    BY <1>1, <1>3, <1>4, <1>5, <1>6, <1>7, <1>8, <1>10, <2>4, <2>6, <2>7 DEF k, s, r, P, M
<1> QED
  BY <1>9, <1>10

\* A file with more rows is longer.
LEMMA LengthGrows ==
  ASSUME NEW a \in Nat, NEW b \in Nat, a < b
  PROVE  LengthOf(a) \in Nat /\ LengthOf(b) \in Nat /\ LengthOf(a) < LengthOf(b)
<1> DEFINE R == get_row_per_page  P == PAGE_SIZE  r == row_size
           k == PageOf(a)  s == SlotOf(a)  l == PageOf(b)  t == SlotOf(b)
<1>1. R \in Nat \ {0} /\ P \in Nat \ {0} /\ r \in Nat \ {0} /\ R * r <= P
  BY RowsPerPage, SizeAssumption
<1>2. /\ k \in Nat /\ s \in 0 .. R - 1 /\ a = k * R + s
      /\ l \in Nat /\ t \in 0 .. R - 1 /\ b = l * R + t
  BY <1>1, DivMod DEF PageOf, SlotOf
<1>3. LengthOf(a) = k * P + s * r /\ LengthOf(b) = l * P + t * r
  BY DEF LengthOf
<1>. HIDE DEF R, P, r, k, s, l, t
<1>4. s * r \in Nat /\ t * r \in Nat /\ k * P \in Nat /\ l * P \in Nat
  BY <1>1, <1>2
<1>5. s * r < P
  <2>1. (s + 1) * r <= R * r
    BY <1>1, <1>2, TimesMonotone
  <2>2. (s + 1) * r = s * r + r
    BY <1>1, <1>2
  <2> QED
    BY <1>1, <1>4, <2>1, <2>2
<1>6. k <= l
  <2>1. SUFFICES ASSUME l + 1 <= k PROVE FALSE
    BY <1>2
  <2>2. (l + 1) * R <= k * R /\ (l + 1) * R = l * R + R
    BY <1>1, <1>2, <2>1, TimesMonotone
  <2> QED
    BY <1>1, <1>2, <2>2
<1>7. CASE k = l
  <2>1. s + 1 <= t
    BY <1>1, <1>2, <1>7
  <2>2. (s + 1) * r <= t * r /\ (s + 1) * r = s * r + r
    BY <1>1, <1>2, <2>1, TimesMonotone
  <2> QED
    BY <1>1, <1>3, <1>4, <1>7, <2>2
<1>8. CASE k # l
  <2>1. k + 1 <= l
    BY <1>2, <1>6, <1>8
  <2>2. (k + 1) * P <= l * P /\ (k + 1) * P = k * P + P
    BY <1>1, <1>2, <2>1, TimesMonotone
  <2> QED
    BY <1>1, <1>3, <1>4, <1>5, <2>2
<1> QED
  BY <1>7, <1>8

\* get_page reads all rows of a file: their pages are counted, and their slots
\* end where the file does or before.
LEMMA RowsAreInFile ==
  ASSUME NEW rows \in 0 .. get_max_rows, NEW rowid \in 0 .. rows - 1
  PROVE  /\ PageOf(rowid) < PagesInFile(LengthOf(rows))
         /\ PageOf(rowid) * PAGE_SIZE + (SlotOf(rowid) + 1) * row_size <= LengthOf(rows)
<1> DEFINE R == get_row_per_page  P == PAGE_SIZE  r == row_size
           k == PageOf(rowid)  s == SlotOf(rowid)  l == PageOf(rows)  t == SlotOf(rows)
<1>1. R \in Nat \ {0} /\ P \in Nat \ {0} /\ r \in Nat \ {0} /\ R * r <= P
  BY RowsPerPage, SizeAssumption
<1>2. /\ k \in Nat /\ s \in 0 .. R - 1 /\ rowid = k * R + s
      /\ l \in Nat /\ t \in 0 .. R - 1 /\ rows = l * R + t
  <2>1. rowid \in Nat /\ rows \in Nat
    BY RowsPerPage
  <2> QED
    BY <1>1, <2>1, DivMod DEF PageOf, SlotOf
<1>3. LengthOf(rows) = l * P + t * r
  BY DEF LengthOf
<1>4. PagesInFile(LengthOf(rows)) = IF t = 0 THEN l ELSE l + 1
  BY RowsOfLength
<1>5. rowid < rows
  BY RowsPerPage
<1>. HIDE DEF R, P, r, k, s, l, t
<1>6. (s + 1) * r <= P /\ (s + 1) * r \in Nat /\ t * r \in Nat
  BY <1>1, <1>2, TimesMonotone
<1>7. k <= l
  <2>1. SUFFICES ASSUME l + 1 <= k PROVE FALSE
    BY <1>2
  <2>2. (l + 1) * R <= k * R /\ (l + 1) * R = l * R + R
    BY <1>1, <1>2, <2>1, TimesMonotone
  <2> QED
    BY <1>1, <1>2, <1>5, <2>2
<1>8. CASE k = l
  <2>1. s + 1 <= t
    BY <1>1, <1>2, <1>5, <1>8
  <2>2. (s + 1) * r <= t * r
    BY <1>1, <1>2, <2>1, TimesMonotone
  <2>3. k < PagesInFile(LengthOf(rows))
    BY <1>2, <1>4, <1>8, <2>1
  <2>4. k * P + (s + 1) * r <= LengthOf(rows)
    BY <1>1, <1>2, <1>3, <1>6, <1>8, <2>2
  <2> QED
    BY <2>3, <2>4 DEF k, s, P, r
<1>9. CASE k # l
  <2>1. k + 1 <= l
    BY <1>2, <1>7, <1>9
  <2>2. (k + 1) * P <= l * P /\ (k + 1) * P = k * P + P
    BY <1>1, <1>2, <2>1, TimesMonotone
  <2>3. k < PagesInFile(LengthOf(rows))
    BY <1>2, <1>4, <2>1
  <2>4. k * P + (s + 1) * r <= LengthOf(rows)
    BY <1>1, <1>2, <1>3, <1>6, <2>2
  <2> QED
    BY <2>3, <2>4 DEF k, s, P, r
<1> QED
  BY <1>8, <1>9

(***************************************************************************)
(* The inductive invariant.  In a session the file never has a row that    *)
(* the session has not, nor another one in its place; a row that is not in *)
(* memory is in the file.  Before the flush, the pages were counted in the *)
(* file as it is; while ~Table flushes, the pages it is done with are not  *)
(* in memory any more, and it is never past the last one.                  *)
(***************************************************************************)
SavedCount == RowsInFile(file_length)

SessionRow(rowid) ==
  IF pages[PageOf(rowid)] # Null THEN pages[PageOf(rowid)][SlotOf(rowid)]
                                 ELSE disk[PageOf(rowid)][SlotOf(rowid)]

EndsBehindRow ==
  /\ SavedCount \in 0 .. get_max_rows
  /\ file_length = LengthOf(SavedCount)

FileIsPrefix ==
  /\ SavedCount <= num_rows
  /\ \A i \in 0 .. SavedCount - 1 : disk[PageOf(i)][SlotOf(i)] = SessionRow(i)

RowsKept ==
  \A i \in 0 .. num_rows - 1 : pages[PageOf(i)] # Null \/ i < SavedCount

FlushedInOrder ==
  /\ num_rows > 0 => task.next <= LastPage
  /\ \A p \in PageId : p < task.next => pages[p] = Null

IndInv ==
  /\ FlatTableTypeOK
  /\ EndsBehindRow
  /\ task # NoProcess => FileIsPrefix /\ RowsKept
  /\ task = Ready => num_pages = PagesInFile(file_length)
  /\ task.at = "flush" => FlushedInOrder

\* The larger of two numbers.
LEMMA MaxOfTwo ==
  ASSUME NEW a \in Int, NEW b \in Int
  PROVE  Max({a, b}) = IF a >= b THEN a ELSE b
BY DEF Max

\* What get_page returns is a page, with the session's rows in their slots.
LEMMA PageHasItsRows ==
  ASSUME IndInv, task = Ready, NEW p \in PageId
  PROVE  /\ get_page(p) \in Page
         /\ \A i \in 0 .. num_rows - 1 :
              PageOf(i) = p => get_page(p)[SlotOf(i)] = SessionRow(i)
<1>1. FlatTableTypeOK /\ num_pages = PagesInFile(file_length) /\ RowsKept /\ EndsBehindRow
  BY DEF IndInv, Ready, NoProcess
<1>2. get_page(p) \in Page
  BY <1>1 DEF FlatTableTypeOK, get_page, Page, JunkPage
<1>3. ASSUME NEW i \in 0 .. num_rows - 1, PageOf(i) = p
      PROVE  get_page(p)[SlotOf(i)] = SessionRow(i)
  <2>1. i \in 0 .. get_max_rows - 1
    BY <1>1, RowsPerPage DEF FlatTableTypeOK
  <2>2. SlotOf(i) \in Slot
    BY <2>1, RowSlot
  <2>3. CASE pages[p] # Null
    BY <1>3, <2>3 DEF get_page, SessionRow
  <2>4. CASE pages[p] = Null
    <3>1. i \in 0 .. SavedCount - 1 /\ SavedCount \in 0 .. get_max_rows
      BY <1>1, <1>3, <2>1, <2>4, RowsPerPage DEF RowsKept, EndsBehindRow
    <3>2. PageOf(i) < num_pages /\ InFile(PageOf(i), SlotOf(i))
      BY <1>1, <3>1, RowsAreInFile DEF EndsBehindRow, InFile
    <3>3. get_page(p)[SlotOf(i)] = disk[p][SlotOf(i)]
      BY <1>3, <2>2, <2>4, <3>2 DEF get_page
    <3> QED
      BY <1>3, <2>4, <3>3 DEF SessionRow
  <2> QED
    BY <2>3, <2>4
<1> QED
  BY <1>2, <1>3

\* Loading pages changes no row of the session.
LEMMA LoadingKeepsRows ==
  ASSUME IndInv, task = Ready, UNCHANGED <<num_rows, num_pages, task, file>>,
         pages' \in [PageId -> Page \cup {Null}],
         \A p \in PageId : pages'[p] \in {pages[p], get_page(p)}
  PROVE  /\ IndInv'
         /\ \A i \in 0 .. num_rows - 1 : SessionRow(i)' = SessionRow(i)
<1>1. FlatTableTypeOK /\ EndsBehindRow /\ FileIsPrefix /\ RowsKept
      /\ num_pages = PagesInFile(file_length)
  BY DEF IndInv, Ready, NoProcess
<1>2. disk' = disk /\ file_length' = file_length
  BY DEF file
<1>3. SavedCount' = SavedCount /\ SavedCount \in Nat /\ num_rows \in Nat
  BY <1>1, <1>2, RowsPerPage DEF SavedCount, EndsBehindRow, FlatTableTypeOK
<1>4. \A i \in 0 .. num_rows - 1 : PageOf(i) \in PageId
  BY <1>1, RowSlot, RowsPerPage DEF FlatTableTypeOK
<1>5. \A p \in PageId : pages[p] # Null => pages'[p] = pages[p]
  BY DEF get_page
<1>6. ASSUME NEW i \in 0 .. num_rows - 1 PROVE SessionRow(i)' = SessionRow(i)
  <2>1. PageOf(i) \in PageId
    BY <1>4
  <2>2. CASE pages'[PageOf(i)] = pages[PageOf(i)]
    BY <1>2, <2>2 DEF SessionRow
  <2>3. CASE pages'[PageOf(i)] # pages[PageOf(i)]
    <3>1. pages'[PageOf(i)] = get_page(PageOf(i)) /\ get_page(PageOf(i)) \in Page
      BY <2>1, <2>3, PageHasItsRows
    <3>2. SessionRow(i)' = get_page(PageOf(i))[SlotOf(i)]
      BY <3>1, NullAssumption DEF SessionRow
    <3> QED
      BY <2>1, <3>2, PageHasItsRows
  <2> QED
    BY <2>2, <2>3
<1>7. FlatTableTypeOK'
  BY <1>1, <1>2 DEF FlatTableTypeOK
<1>8. EndsBehindRow'
  BY <1>1, <1>2, <1>3 DEF EndsBehindRow
<1>9. FileIsPrefix'
  BY <1>1, <1>2, <1>3, <1>6 DEF FileIsPrefix
<1>10. RowsKept'
  BY <1>1, <1>3, <1>4, <1>5 DEF RowsKept
<1>11. (num_pages = PagesInFile(file_length))'
  BY <1>1, <1>2
<1> QED
  BY <1>6, <1>7, <1>8, <1>9, <1>10, <1>11 DEF IndInv, Ready, NoProcess

\* An insert adds its row behind the others, and changes none of them.
LEMMA InsertAppends ==
  ASSUME IndInv, NEW row \in Row, Insert(row)
  PROVE  /\ IndInv'
         /\ \A i \in 0 .. num_rows :
              SessionRow(i)' = IF i = num_rows THEN row ELSE SessionRow(i)
<1> DEFINE p == PageOf(num_rows)  s == SlotOf(num_rows)
<1>1. /\ task = Ready /\ num_rows < get_max_rows /\ num_rows' = num_rows + 1
      /\ pages' = [pages EXCEPT ![p] = [get_page(p) EXCEPT ![s] = row]]
      /\ UNCHANGED <<num_pages, task, file>>
  BY DEF Insert
<1>2. /\ FlatTableTypeOK /\ EndsBehindRow /\ FileIsPrefix /\ RowsKept
      /\ num_pages = PagesInFile(file_length)
  BY <1>1 DEF IndInv, Ready, NoProcess
<1>3. disk' = disk /\ file_length' = file_length
  BY <1>1 DEF file
<1>4. SavedCount' = SavedCount /\ SavedCount \in Nat /\ num_rows \in 0 .. get_max_rows - 1
  BY <1>1, <1>2, <1>3, RowsPerPage DEF SavedCount, EndsBehindRow, FlatTableTypeOK
<1>5. p \in PageId /\ s \in Slot
  BY <1>4, RowSlot
<1>6. \A i \in 0 .. num_rows - 1 :
        PageOf(i) \in PageId /\ SlotOf(i) \in Slot /\ (PageOf(i) = p => SlotOf(i) # s)
  <2> SUFFICES ASSUME NEW i \in 0 .. num_rows - 1
               PROVE  PageOf(i) \in PageId /\ SlotOf(i) \in Slot
                      /\ (PageOf(i) = p => SlotOf(i) # s)
    OBVIOUS
  <2>1. i \in 0 .. get_max_rows - 1 /\ i # num_rows
    BY <1>4, RowsPerPage
  <2>2. num_rows = PageOf(num_rows) * get_row_per_page + SlotOf(num_rows)
    BY <1>4, RowSlot
  <2> QED
    BY <2>1, <2>2, RowSlot
<1>7. get_page(p) \in Page
      /\ \A i \in 0 .. num_rows - 1 :
           PageOf(i) = p => get_page(p)[SlotOf(i)] = SessionRow(i)
  BY <1>1, <1>5, PageHasItsRows
<1>8. /\ pages'[p] \in Page /\ pages'[p] # Null /\ pages'[p][s] = row
      /\ \A t \in Slot : t # s => pages'[p][t] = get_page(p)[t]
      /\ \A q \in PageId : q # p => pages'[q] = pages[q]
      /\ pages' \in [PageId -> Page \cup {Null}]
  <2> DEFINE new == [get_page(p) EXCEPT ![s] = row]
  <2>1. /\ new \in Page /\ new[s] = row
        /\ \A t \in Slot : t # s => new[t] = get_page(p)[t]
    BY <1>5, <1>7 DEF Page
  <2>2. pages \in [PageId -> Page \cup {Null}] /\ pages' = [pages EXCEPT ![p] = new]
    BY <1>1, <1>2 DEF FlatTableTypeOK
  <2> HIDE DEF new
  <2>3. pages'[p] = new /\ \A q \in PageId : q # p => pages'[q] = pages[q]
    BY <1>5, <2>2
  <2>4. pages' \in [PageId -> Page \cup {Null}]
    BY <1>5, <2>1, <2>2
  <2> QED
    BY <2>1, <2>3, <2>4, NullAssumption
<1> HIDE DEF p, s
<1>9. ASSUME NEW i \in 0 .. num_rows - 1 PROVE SessionRow(i)' = SessionRow(i)
  <2>1. CASE PageOf(i) = p
    <3>1. pages'[PageOf(i)] # Null /\ pages'[PageOf(i)][SlotOf(i)] = get_page(p)[SlotOf(i)]
      BY <1>6, <1>8, <2>1
    <3> QED
      BY <1>7, <2>1, <3>1 DEF SessionRow
  <2>2. CASE PageOf(i) # p
    BY <1>3, <1>6, <1>8, <2>2 DEF SessionRow
  <2> QED
    BY <2>1, <2>2
<1>10. ASSUME NEW i, i = num_rows PROVE SessionRow(i)' = row
  <2>1. pages'[PageOf(i)][SlotOf(i)] = row /\ pages'[PageOf(i)] # Null
    BY <1>8, <1>10 DEF p, s
  <2> QED
    BY <2>1 DEF SessionRow
<1>11. FlatTableTypeOK'
  BY <1>1, <1>2, <1>3, <1>4, <1>8, RowsPerPage DEF FlatTableTypeOK
<1>12. EndsBehindRow'
  BY <1>2, <1>3, <1>4 DEF EndsBehindRow
<1>13. FileIsPrefix'
  <2>1. SavedCount <= num_rows /\ SavedCount' <= num_rows'
    BY <1>1, <1>2, <1>4, RowsPerPage DEF FileIsPrefix
  <2>2. ASSUME NEW i \in 0 .. SavedCount - 1
        PROVE  disk[PageOf(i)][SlotOf(i)] = SessionRow(i)'
    <3>1. i \in 0 .. num_rows - 1
      BY <1>4, <2>1
    <3> QED
      BY <1>2, <1>9, <3>1 DEF FileIsPrefix
  <2> QED
    BY <1>3, <1>4, <2>1, <2>2 DEF FileIsPrefix
<1>14. RowsKept'
  <2> SUFFICES ASSUME NEW i \in 0 .. num_rows, pages'[PageOf(i)] = Null
               PROVE  i < SavedCount
    BY <1>1, <1>4, RowsPerPage DEF RowsKept
  <2>1. PageOf(i) # p
    BY <1>8
  <2>2. i \in 0 .. num_rows - 1
    BY <1>4, <2>1, RowsPerPage DEF p
  <2>3. pages[PageOf(i)] = Null
    BY <1>6, <1>8, <2>1, <2>2
  <2> QED
    BY <1>2, <2>2, <2>3 DEF RowsKept
<1>15. (num_pages = PagesInFile(file_length))'
  BY <1>1, <1>2, <1>3
<1>16. IndInv'
  BY <1>1, <1>11, <1>12, <1>13, <1>14, <1>15 DEF IndInv, Ready, NoProcess
<1>17. \A i \in 0 .. num_rows : i = num_rows \/ i \in 0 .. num_rows - 1
  BY <1>4, RowsPerPage
<1> QED
  BY <1>9, <1>10, <1>16, <1>17

(***************************************************************************)
(* ~Table.                                                                 *)
(***************************************************************************)

\* What it flushes completely: the pages before the last row's, with all rows
\* they have room for.
LEMMA FullPage ==
  ASSUME num_rows \in 0 .. get_max_rows, NEW p \in Nat, p < LastPage,
         NEW rows, rows = (p + 1) * get_row_per_page
  PROVE  /\ p \in PageId /\ p + 1 \in PageId /\ num_rows > 0
         /\ rows \in 1 .. num_rows
         /\ LengthOf(rows) = p * PAGE_SIZE + PAGE_SIZE
         /\ \A i \in 0 .. rows - 1 : PageOf(i) <= p
         /\ \A i \in 0 .. num_rows - 1 : PageOf(i) = p => i < rows
         /\ \A s \in Slot : (s + 1) * row_size <= PAGE_SIZE
<1> DEFINE R == get_row_per_page  P == PAGE_SIZE  r == row_size  n == num_rows
           M == TABLE_MAX_PAGES
<1>1. /\ R \in Nat \ {0} /\ P \in Nat \ {0} /\ r \in Nat \ {0} /\ R * r <= P
      /\ M \in Nat /\ n \in Nat /\ n <= M * R
  BY RowsPerPage, SizeAssumption DEF get_max_rows
<1>2. LastPage = (n + R - 1) \div R - 1 /\ rows = (p + 1) * R
  BY DEF LastPage, TotalPages
<1>3. \A i \in Nat : PageOf(i) \in Nat /\ SlotOf(i) \in 0 .. R - 1
                     /\ i = PageOf(i) * R + SlotOf(i)
  BY <1>1, DivMod DEF PageOf, SlotOf
<1>4. PageOf(rows) = p + 1 /\ SlotOf(rows) = 0
  <2>1. rows = (p + 1) * R + 0 /\ p + 1 \in Nat /\ 0 \in 0 .. R - 1
    BY <1>1, <1>2
  <2> QED
    BY <1>1, <2>1, DivModUnique DEF PageOf, SlotOf
<1>5. \A s \in Slot : (s + 1) * r <= P
  <2> SUFFICES ASSUME NEW s \in Slot PROVE (s + 1) * r <= P
    OBVIOUS
  <2>1. s + 1 \in Nat /\ s + 1 <= R
    BY <1>1 DEF Slot
  <2>2. (s + 1) * r <= R * r /\ (s + 1) * r \in Nat
    BY <1>1, <2>1, TimesMonotone
  <2> QED
    BY <1>1, <2>2
<1>6. LengthOf(rows) = p * P + P
  BY <1>1, <1>4 DEF LengthOf
<1> HIDE DEF R, P, r, n, M
<1>7. rows \in Nat /\ R <= rows /\ rows = p * R + R
  BY <1>1, <1>2
<1>8. rows < n
  <2> DEFINE a == (n + R - 1) \div R
  <2>1. n + R - 1 \in Nat
    BY <1>1
  <2>2. a \in Nat /\ a * R <= n + R - 1
    <3>1. /\ a \in Nat /\ (n + R - 1) % R \in 0 .. R - 1
          /\ n + R - 1 = a * R + ((n + R - 1) % R)
      BY <1>1, <2>1, DivMod
    <3> HIDE DEF a
    <3> QED
      BY <1>1, <3>1
  <2>3. p + 2 <= a
    BY <1>2, <2>2
  <2> HIDE DEF a
  <2>4. (p + 2) * R <= a * R /\ (p + 2) * R = rows + R
    BY <1>1, <1>2, <2>2, <2>3, TimesMonotone
  <2> QED
    BY <1>1, <1>7, <2>2, <2>4
<1>9. p + 1 < M
  <2>1. SUFFICES ASSUME M <= p + 1 PROVE FALSE
    BY <1>1
  <2>2. M * R <= (p + 1) * R
    BY <1>1, <2>1, TimesMonotone
  <2> QED
    BY <1>1, <1>2, <1>7, <1>8, <2>2
<1>10. \A i \in 0 .. rows - 1 : PageOf(i) <= p
  <2> SUFFICES ASSUME NEW i \in 0 .. rows - 1, p + 1 <= PageOf(i) PROVE FALSE
    BY <1>3, <1>7
  <2>1. i \in Nat /\ i < rows
    BY <1>7
  <2>2. (p + 1) * R <= PageOf(i) * R
    <3>1. p + 1 \in Nat /\ PageOf(i) \in Nat
      BY <1>3, <2>1
    <3> QED
      BY <1>1, <3>1, TimesMonotone
  <2> QED
    BY <1>1, <1>2, <1>3, <1>7, <2>1, <2>2
<1>11. \A i \in 0 .. n - 1 : PageOf(i) = p => i < rows
  BY <1>1, <1>3, <1>7
<1> QED
  BY <1>1, <1>5, <1>6, <1>7, <1>8, <1>9, <1>10, <1>11 DEF PageId, R, P, r, n, M

\* What it flushes last: the page of the last row, up to the end of that row.
LEMMA LastPageEndsWithRow ==
  ASSUME num_rows \in 1 .. get_max_rows
  PROVE  /\ LastPage \in PageId
         /\ LastSize \in Nat
         /\ LengthOf(num_rows) = LastPage * PAGE_SIZE + LastSize
         /\ \A i \in 0 .. num_rows - 1 :
              /\ PageOf(i) <= LastPage
              /\ PageOf(i) = LastPage => (SlotOf(i) + 1) * row_size <= LastSize
<1> DEFINE R == get_row_per_page  P == PAGE_SIZE  r == row_size  n == num_rows
           M == TABLE_MAX_PAGES  k == PageOf(n - 1)  s == SlotOf(n - 1)
<1>1. /\ R \in Nat \ {0} /\ P \in Nat \ {0} /\ r \in Nat \ {0} /\ R * r <= P
      /\ n \in Nat /\ n - 1 \in 0 .. get_max_rows - 1
  BY RowsPerPage, SizeAssumption
<1>2. /\ k \in PageId /\ k \in Nat /\ s \in 0 .. R - 1 /\ n - 1 = k * R + s
  BY <1>1, RowSlot, SizeAssumption DEF PageId, Slot
<1>3. LastPage = (n + R - 1) \div R - 1 /\ RemainRow = n % R
  BY DEF LastPage, TotalPages, RemainRow
<1>4. LastSize = IF RemainRow = 0 THEN P ELSE RemainRow * r
  BY DEF LastSize
<1>5. LengthOf(n) = (n \div R) * P + (n % R) * r
  BY DEF LengthOf, PageOf, SlotOf
<1>6. \A i \in 0 .. n - 1 :
        /\ i <= n - 1
        /\ PageOf(i) \in Nat /\ SlotOf(i) \in 0 .. R - 1
        /\ i = PageOf(i) * R + SlotOf(i)
  <2> SUFFICES ASSUME NEW i \in 0 .. n - 1
               PROVE  /\ i <= n - 1
                      /\ PageOf(i) \in Nat /\ SlotOf(i) \in 0 .. R - 1
                      /\ i = PageOf(i) * R + SlotOf(i)
    OBVIOUS
  <2>1. i \in Nat /\ i <= n - 1
    BY <1>1
  <2> QED
    BY <1>1, <2>1, DivMod DEF PageOf, SlotOf
<1> HIDE DEF R, P, r, n, M, k, s
<1>7. LastPage = k
  <2>1. n + R - 1 = (k + 1) * R + s /\ k + 1 \in Nat
    BY <1>1, <1>2
  <2>2. (n + R - 1) \div R = k + 1
    BY <1>1, <1>2, <2>1, DivModUnique
  <2> QED
    BY <1>2, <1>3, <2>2
<1>8. \A i \in 0 .. n - 1 : PageOf(i) <= k /\ (PageOf(i) = k => SlotOf(i) <= s)
  <2> SUFFICES ASSUME NEW i \in 0 .. n - 1
               PROVE  PageOf(i) <= k /\ (PageOf(i) = k => SlotOf(i) <= s)
    OBVIOUS
  <2> DEFINE q == PageOf(i)  t == SlotOf(i)
  <2>1. q \in Nat /\ t \in 0 .. R - 1 /\ q * R + t <= k * R + s
    BY <1>2, <1>6
  <2> HIDE DEF q, t
  <2>2. q <= k
    <3>1. SUFFICES ASSUME k + 1 <= q PROVE FALSE
      BY <1>2, <2>1
    <3>2. (k + 1) * R <= q * R /\ (k + 1) * R = k * R + R
      BY <1>1, <1>2, <2>1, <3>1, TimesMonotone
    <3> QED
      BY <1>1, <1>2, <2>1, <3>2
  <2>3. q = k => t <= s
    BY <1>1, <1>2, <2>1
  <2> QED
    BY <2>2, <2>3 DEF q, t
<1>9. CASE s = R - 1
  <2>1. n = (k + 1) * R + 0 /\ k + 1 \in Nat /\ 0 \in 0 .. R - 1
    BY <1>1, <1>2, <1>9
  <2>2. n \div R = k + 1 /\ n % R = 0
    BY <1>1, <2>1, DivModUnique
  <2>3. LastSize = P /\ LengthOf(n) = k * P + P
    BY <1>1, <1>2, <1>3, <1>4, <1>5, <2>2
  <2>4. \A t \in 0 .. R - 1 : (t + 1) * r <= P
    <3> SUFFICES ASSUME NEW t \in 0 .. R - 1 PROVE (t + 1) * r <= P
      OBVIOUS
    <3>1. t + 1 \in Nat /\ t + 1 <= R
      BY <1>1
    <3>2. (t + 1) * r <= R * r /\ (t + 1) * r \in Nat
      BY <1>1, <3>1, TimesMonotone
    <3> QED
      BY <1>1, <3>2
  <2> QED
    BY <1>1, <1>2, <1>6, <1>7, <1>8, <2>3, <2>4 DEF P, r, n
<1>10. CASE s # R - 1
  <2>1. n = k * R + (s + 1) /\ s + 1 \in 0 .. R - 1
    BY <1>1, <1>2, <1>10
  <2>2. n \div R = k /\ n % R = s + 1
    BY <1>1, <1>2, <2>1, DivModUnique
  <2>3. LastSize = (s + 1) * r /\ LengthOf(n) = k * P + (s + 1) * r
    BY <1>2, <1>3, <1>4, <1>5, <2>2
  <2>4. \A t \in 0 .. s : (t + 1) * r <= (s + 1) * r
    <3> SUFFICES ASSUME NEW t \in 0 .. s PROVE (t + 1) * r <= (s + 1) * r
      OBVIOUS
    <3>1. t + 1 \in Nat /\ s + 1 \in Nat /\ t + 1 <= s + 1
      BY <1>2
    <3> QED
      BY <1>1, <3>1, TimesMonotone
  <2>5. (s + 1) * r \in Nat
    BY <1>1, <1>2
  <2>6. \A i \in 0 .. n - 1 : PageOf(i) = k => SlotOf(i) \in 0 .. s
    BY <1>2, <1>6, <1>8
  <2> QED
    BY <1>1, <1>2, <1>7, <1>8, <2>3, <2>4, <2>5, <2>6 DEF P, r, n
<1> QED
  BY <1>9, <1>10

\* One flush, of page p when those before it have left the memory.  `rows' is
\* the number of rows up to the end of what is written.  The file then has the
\* page's rows, and at least as many rows as before.
LEMMA FlushWritesRows ==
  ASSUME FlatTableTypeOK, EndsBehindRow, FileIsPrefix, RowsKept,
         NEW p \in PageId, NEW size \in Nat, NEW rows \in 1 .. num_rows,
         LengthOf(rows) = p * PAGE_SIZE + size,
         \A i \in 0 .. rows - 1 : PageOf(i) <= p,
         \A i \in 0 .. num_rows - 1 :
           PageOf(i) = p => i < rows /\ (SlotOf(i) + 1) * row_size <= size,
         \A q \in PageId : q < p => pages[q] = Null,
         WriteOut(p, size)
  PROVE  /\ disk' \in [PageId -> Page]
         /\ EndsBehindRow'
         /\ SavedCount <= SavedCount' /\ SavedCount' <= num_rows
         /\ \A i \in 0 .. SavedCount' - 1 : disk'[PageOf(i)][SlotOf(i)] = SessionRow(i)
         /\ \A i \in 0 .. num_rows - 1 :
              PageOf(i) = p => i < SavedCount'
         /\ \A q \in PageId : q # p => disk'[q] = disk[q]
<1>1. /\ num_rows \in Nat /\ num_rows <= get_max_rows /\ rows \in Nat
      /\ rows \in 0 .. get_max_rows /\ get_max_rows \in Nat
      /\ rows <= num_rows
      /\ SavedCount \in Nat /\ SavedCount <= num_rows
      /\ SavedCount \in 0 .. get_max_rows /\ file_length = LengthOf(SavedCount)
  BY RowsPerPage DEF FlatTableTypeOK, EndsBehindRow, FileIsPrefix
<1>2. \A i \in 0 .. num_rows - 1 : PageOf(i) \in PageId /\ SlotOf(i) \in Slot
  <2> SUFFICES ASSUME NEW i \in 0 .. num_rows - 1
               PROVE  PageOf(i) \in PageId /\ SlotOf(i) \in Slot
    OBVIOUS
  <2>1. i \in 0 .. get_max_rows - 1
    BY <1>1
  <2> QED
    BY <2>1, RowSlot
<1>3. CASE pages[p] = Null
  <2>1. disk' = disk /\ file_length' = file_length
    BY <1>3 DEF WriteOut, file
  <2>2. SavedCount' = SavedCount
    BY <2>1 DEF SavedCount
  <2>3. \A i \in 0 .. num_rows - 1 : PageOf(i) = p => i < SavedCount
    BY <1>3 DEF RowsKept
  <2>4. EndsBehindRow'
    BY <2>1, <2>2 DEF EndsBehindRow
  <2>5. \A i \in 0 .. SavedCount' - 1 : disk'[PageOf(i)][SlotOf(i)] = SessionRow(i)
    BY <2>1, <2>2 DEF FileIsPrefix
  <2> QED
    BY <1>1, <2>1, <2>2, <2>3, <2>4, <2>5 DEF FlatTableTypeOK
<1>4. CASE pages[p] # Null
  <2>1. /\ disk' = [disk EXCEPT ![p] = [s \in Slot |->
                     IF (s + 1) * row_size <= size THEN pages[p][s] ELSE disk[p][s]]]
        /\ file_length' = Max({file_length, LengthOf(rows)})
    BY <1>4 DEF WriteOut
  <2>2. disk \in [PageId -> Page] /\ pages[p] \in Page
    BY <1>4 DEF FlatTableTypeOK
  <2>3. /\ \A s \in Slot : disk'[p][s] =
             IF (s + 1) * row_size <= size THEN pages[p][s] ELSE disk[p][s]
        /\ \A q \in PageId : q # p => disk'[q] = disk[q]
    BY <2>1, <2>2
  <2>4. disk' \in [PageId -> Page]
    <3> DEFINE new == [s \in Slot |->
                     IF (s + 1) * row_size <= size THEN pages[p][s] ELSE disk[p][s]]
    <3>1. new \in Page
      BY <2>2 DEF Page
    <3>2. disk' = [disk EXCEPT ![p] = new]
      BY <2>1
    <3> HIDE DEF new
    <3> QED
      BY <2>2, <3>1, <3>2
  <2>5. file_length' = LengthOf(IF SavedCount >= rows THEN SavedCount ELSE rows)
    <3>1. file_length \in Int /\ LengthOf(rows) \in Int
      BY <1>1, RowsOfLength
    <3>2. file_length' = IF file_length >= LengthOf(rows) THEN file_length ELSE LengthOf(rows)
      BY <2>1, <3>1, MaxOfTwo
    <3>3. CASE SavedCount = rows
      BY <1>1, <3>2, <3>3
    <3>4. CASE rows < SavedCount
      <4>1. LengthOf(rows) < LengthOf(SavedCount)
        BY <1>1, <3>4, LengthGrows
      <4> QED
        BY <1>1, <3>1, <3>2, <3>4, <4>1
    <3>5. CASE SavedCount < rows
      <4>1. LengthOf(SavedCount) < LengthOf(rows)
        BY <1>1, <3>5, LengthGrows
      <4> QED
        BY <1>1, <3>1, <3>2, <3>5, <4>1
    <3> QED
      BY <1>1, <3>3, <3>4, <3>5
  <2>6. SavedCount' = IF SavedCount >= rows THEN SavedCount ELSE rows
    <3> DEFINE m == IF SavedCount >= rows THEN SavedCount ELSE rows
    <3>1. m \in 0 .. get_max_rows /\ file_length' = LengthOf(m)
      <4>1. m \in {SavedCount, rows}
        OBVIOUS
      <4>2. file_length' = LengthOf(m)
        BY <2>5
      <4> HIDE DEF m
      <4> QED
        BY <1>1, <4>1, <4>2
    <3> HIDE DEF m
    <3>2. RowsInFile(LengthOf(m)) = m
      BY <3>1, RowsOfLength
    <3>3. SavedCount' = m
      BY <3>1, <3>2 DEF SavedCount
    <3> QED
      BY <3>3 DEF m
  <2>7. /\ SavedCount' \in 0 .. get_max_rows /\ SavedCount <= SavedCount'
        /\ rows <= SavedCount' /\ SavedCount' <= num_rows
        /\ SavedCount' \in {SavedCount, rows}
    BY <1>1, <2>6
  <2>8. EndsBehindRow'
    BY <2>5, <2>6, <2>7 DEF EndsBehindRow
  <2>9. ASSUME NEW i \in 0 .. SavedCount' - 1
        PROVE  disk'[PageOf(i)][SlotOf(i)] = SessionRow(i)
    <3>0. /\ i \in Nat /\ i < SavedCount'
          /\ SavedCount' <= num_rows
          /\ SavedCount' = IF SavedCount >= rows THEN SavedCount ELSE rows
      BY <1>1, <2>6, <2>7
    <3>1. i \in 0 .. num_rows - 1
      BY <1>1, <2>7, <3>0
    <3>2. CASE PageOf(i) = p
      <4>1. disk'[p][SlotOf(i)] = pages[p][SlotOf(i)]
        BY <1>2, <2>3, <3>1, <3>2
      <4> QED
        BY <1>4, <3>2, <4>1 DEF SessionRow
    <3>3. CASE PageOf(i) # p /\ i < SavedCount
      <4>1. disk[PageOf(i)][SlotOf(i)] = SessionRow(i)
        <5>1. i \in 0 .. SavedCount - 1
          BY <1>1, <3>1, <3>3
        <5> QED
          BY <5>1 DEF FileIsPrefix
      <4> QED
        BY <1>2, <2>3, <3>1, <3>3, <4>1
    <3>4. CASE PageOf(i) # p /\ ~(i < SavedCount)
      <4>1. i \in 0 .. rows - 1
        BY <1>1, <3>0, <3>4
      <4>2. PageOf(i) < p
        <5>1. PageOf(i) <= p /\ PageOf(i) \in Int /\ p \in Int
          BY <1>2, <3>1, <4>1, SizeAssumption DEF PageId
        <5> QED
          BY <3>4, <5>1
      <4>3. pages[PageOf(i)] = Null
        BY <1>2, <3>1, <4>2
      <4> QED
        BY <1>2, <2>3, <3>1, <3>4, <4>3 DEF SessionRow
    <3> QED
      BY <3>2, <3>3, <3>4
  <2>10. \A i \in 0 .. num_rows - 1 : PageOf(i) = p => i < SavedCount'
    BY <1>1, <2>7
  <2> QED
    BY <2>3, <2>4, <2>7, <2>8, <2>9, <2>10
<1> QED
  BY <1>3, <1>4

\* A complete flush brings the page into the file and takes it out of memory,
\* and the session does not notice.
LEMMA FlushFullKeepsRows ==
  ASSUME IndInv, FlushFull
  PROVE  /\ IndInv'
         /\ \A i \in 0 .. num_rows - 1 : SessionRow(i)' = SessionRow(i)
         /\ SavedCount <= SavedCount'
         /\ \A i \in 0 .. SavedCount' - 1 : disk'[PageOf(i)][SlotOf(i)] = SessionRow(i)
<1> DEFINE p == task.next  rows == (p + 1) * get_row_per_page
<1>1. /\ task.at = "flush" /\ p < LastPage /\ WriteOut(p, PAGE_SIZE)
      /\ pages' = [pages EXCEPT ![p] = Null]
      /\ task' = Flush(p + 1) /\ num_rows' = num_rows /\ num_pages' = num_pages
  BY DEF FlushFull
<1>2. FlatTableTypeOK /\ EndsBehindRow /\ FileIsPrefix /\ RowsKept /\ FlushedInOrder
  BY <1>1 DEF IndInv, NoProcess
<1>3. p \in PageId /\ p \in Nat
  BY <1>1, <1>2 DEF FlatTableTypeOK, NoProcess, Ready, Flush, PageId
<1>4. num_rows \in 0 .. get_max_rows
  BY <1>2 DEF FlatTableTypeOK
<1>5. /\ p + 1 \in PageId /\ num_rows > 0
      /\ rows \in 1 .. num_rows
      /\ LengthOf(rows) = p * PAGE_SIZE + PAGE_SIZE
      /\ \A i \in 0 .. rows - 1 : PageOf(i) <= p
      /\ \A i \in 0 .. num_rows - 1 : PageOf(i) = p => i < rows
      /\ \A s \in Slot : (s + 1) * row_size <= PAGE_SIZE
  BY <1>1, <1>3, <1>4, FullPage
<1> HIDE DEF p, rows
<1>6. \A i \in 0 .. num_rows - 1 : i \in 0 .. get_max_rows - 1
  BY <1>4, RowsPerPage
<1>7. \A i \in 0 .. num_rows - 1 : PageOf(i) \in PageId /\ SlotOf(i) \in Slot
  BY <1>6, RowSlot
<1>8. \A q \in PageId : q < p => pages[q] = Null
  BY <1>2 DEF FlushedInOrder, p
<1>9. \A i \in 0 .. num_rows - 1 :
        PageOf(i) = p => i < rows /\ (SlotOf(i) + 1) * row_size <= PAGE_SIZE
  BY <1>5, <1>7
<1>10. /\ disk' \in [PageId -> Page]
       /\ EndsBehindRow'
       /\ SavedCount <= SavedCount' /\ SavedCount' <= num_rows
       /\ \A i \in 0 .. SavedCount' - 1 : disk'[PageOf(i)][SlotOf(i)] = SessionRow(i)
       /\ \A i \in 0 .. num_rows - 1 : PageOf(i) = p => i < SavedCount'
       /\ \A q \in PageId : q # p => disk'[q] = disk[q]
  BY <1>1, <1>2, <1>3, <1>5, <1>8, <1>9, FlushWritesRows, RowsPerPage
<1>11. /\ pages' \in [PageId -> Page \cup {Null}] /\ pages'[p] = Null
       /\ \A q \in PageId : q # p => pages'[q] = pages[q]
  BY <1>1, <1>2, <1>3 DEF FlatTableTypeOK
<1>12. /\ SavedCount \in Nat /\ num_rows \in Nat
       /\ SavedCount' \in 0 .. get_max_rows /\ SavedCount' \in Nat
  BY <1>2, <1>4, <1>10, RowsPerPage DEF EndsBehindRow
<1>13. ASSUME NEW i \in 0 .. num_rows - 1 PROVE SessionRow(i)' = SessionRow(i)
  <2>1. CASE PageOf(i) = p
    <3>1. i \in 0 .. SavedCount' - 1
      <4> DEFINE m == SavedCount'
      <4>1. i \in Nat /\ i < m /\ m \in Nat
        BY <1>10, <1>12, <2>1
      <4> HIDE DEF m
      <4>2. i \in 0 .. m - 1
        BY <4>1
      <4> QED
        BY <4>2 DEF m
    <3>2. disk'[PageOf(i)][SlotOf(i)] = SessionRow(i)
      BY <1>10, <3>1
    <3>3. SessionRow(i)' = disk'[PageOf(i)][SlotOf(i)]
      BY <1>11, <2>1 DEF SessionRow
    <3> QED
      BY <3>2, <3>3
  <2>2. CASE PageOf(i) # p
    BY <1>7, <1>10, <1>11, <2>2 DEF SessionRow
  <2> QED
    BY <2>1, <2>2
<1>14. FlatTableTypeOK'
  <2>1. file_length' \in 0 .. TABLE_MAX_PAGES * PAGE_SIZE
    BY <1>10, <1>12, RowsOfLength DEF EndsBehindRow
  <2>2. task' \in {NoProcess, Ready} \cup {Flush(i) : i \in PageId}
    BY <1>1, <1>5
  <2> QED
    BY <1>1, <1>2, <1>10, <1>11, <2>1, <2>2 DEF FlatTableTypeOK
<1>15. FileIsPrefix'
  <2>1. ASSUME NEW i \in 0 .. SavedCount' - 1
        PROVE  disk'[PageOf(i)][SlotOf(i)] = SessionRow(i)'
    <3>1. i \in 0 .. num_rows - 1
      <4> DEFINE m == SavedCount'
      <4>1. i \in 0 .. m - 1 /\ m \in Nat /\ m <= num_rows
        BY <1>10, <1>12
      <4> HIDE DEF m
      <4> QED
        BY <1>12, <4>1
    <3> QED
      BY <1>10, <1>13, <3>1
  <2> QED
    BY <1>1, <1>10, <2>1 DEF FileIsPrefix
<1>16. RowsKept'
  <2> SUFFICES ASSUME NEW i \in 0 .. num_rows - 1, pages'[PageOf(i)] = Null
               PROVE  i < SavedCount'
    BY <1>1 DEF RowsKept
  <2>1. CASE PageOf(i) = p
    BY <1>10, <2>1
  <2>2. CASE PageOf(i) # p
    <3>1. pages[PageOf(i)] = Null
      BY <1>7, <1>11, <2>2
    <3>2. i < SavedCount
      BY <1>2, <3>1 DEF RowsKept
    <3> QED
      BY <1>10, <1>12, <3>2
  <2> QED
    BY <2>1, <2>2
<1>17. FlushedInOrder'
  <2>1. task'.next = p + 1
    BY <1>1 DEF Flush
  <2>2. LastPage' = LastPage /\ LastPage \in Int
    <3>1. LastPage \in PageId
      BY <1>4, <1>5, LastPageEndsWithRow, RowsPerPage
    <3> QED
      BY <1>1, <3>1, SizeAssumption DEF LastPage, TotalPages, PageId
  <2>3. p + 1 <= LastPage
    BY <1>1, <1>3, <2>2
  <2>4. \A q \in PageId : q < p + 1 => pages'[q] = Null
    BY <1>3, <1>8, <1>11, SizeAssumption DEF PageId
  <2> QED
    BY <1>1, <2>1, <2>2, <2>3, <2>4 DEF FlushedInOrder
<1>18. IndInv'
  <2>1. task'.at = "flush" /\ Ready.at # "flush"
    BY <1>1 DEF Flush, Ready
  <2> QED
    BY <1>10, <1>14, <1>15, <1>16, <1>17, <2>1 DEF IndInv
<1> QED
  BY <1>10, <1>13, <1>18

\* The last flush: the file then has all rows of the session, and ends with them.
LEMMA FlushLastSavesAll ==
  ASSUME IndInv, FlushLast
  PROVE  /\ IndInv'
         /\ SavedCount' = num_rows
         /\ \A i \in 0 .. num_rows - 1 : disk'[PageOf(i)][SlotOf(i)] = SessionRow(i)
<1>1. /\ task.at = "flush" /\ task.next >= LastPage
      /\ IF num_rows = 0 THEN UNCHANGED file ELSE WriteOut(LastPage, LastSize)
      /\ End
  BY DEF FlushLast
<1>2. FlatTableTypeOK /\ EndsBehindRow /\ FileIsPrefix /\ RowsKept /\ FlushedInOrder
  BY <1>1 DEF IndInv, NoProcess
<1>3. num_rows \in 0 .. get_max_rows /\ num_rows \in Nat
  BY <1>2, RowsPerPage DEF FlatTableTypeOK
<1>4. /\ disk' \in [PageId -> Page]
      /\ EndsBehindRow'
      /\ SavedCount' = num_rows
      /\ \A i \in 0 .. num_rows - 1 : disk'[PageOf(i)][SlotOf(i)] = SessionRow(i)
  <2>1. CASE num_rows = 0
    <3>1. disk' = disk /\ file_length' = file_length
      BY <1>1, <2>1 DEF file
    <3>2. SavedCount' = SavedCount
      BY <3>1 DEF SavedCount
    <3>3. SavedCount = 0
      BY <1>2, <2>1, RowsPerPage DEF EndsBehindRow, FileIsPrefix
    <3> QED
      BY <1>2, <2>1, <3>1, <3>2, <3>3 DEF EndsBehindRow, FlatTableTypeOK
  <2>2. CASE num_rows # 0
    <3>1. num_rows \in 1 .. num_rows /\ num_rows \in 1 .. get_max_rows
      BY <1>3, <2>2
    <3>2. /\ LastPage \in PageId /\ LastSize \in Nat
          /\ LengthOf(num_rows) = LastPage * PAGE_SIZE + LastSize
          /\ \A i \in 0 .. num_rows - 1 :
               /\ PageOf(i) <= LastPage
               /\ PageOf(i) = LastPage => (SlotOf(i) + 1) * row_size <= LastSize
      BY <3>1, LastPageEndsWithRow
    <3>3. WriteOut(LastPage, LastSize)
      BY <1>1, <2>2
    <3>4. \A q \in PageId : q < LastPage => pages[q] = Null
      <4>1. task.next <= LastPage /\ \A q \in PageId : q < task.next => pages[q] = Null
        BY <1>2, <1>3, <2>2 DEF FlushedInOrder
      <4>2. task.next \in Int /\ LastPage \in Int
        BY <1>1, <1>2, <3>2, SizeAssumption DEF FlatTableTypeOK, NoProcess, Ready, Flush, PageId
      <4> QED
        BY <1>1, <4>1, <4>2
    <3>5. \A i \in 0 .. num_rows - 1 :
            PageOf(i) = LastPage => i < num_rows /\ (SlotOf(i) + 1) * row_size <= LastSize
      BY <1>3, <3>2
    <3>6. /\ disk' \in [PageId -> Page]
          /\ EndsBehindRow'
          /\ SavedCount <= SavedCount' /\ SavedCount' <= num_rows
          /\ \A i \in 0 .. SavedCount' - 1 : disk'[PageOf(i)][SlotOf(i)] = SessionRow(i)
          /\ \A i \in 0 .. num_rows - 1 : PageOf(i) = LastPage => i < SavedCount'
      <4> DEFINE p == LastPage  size == LastSize
      <4>1. /\ p \in PageId /\ size \in Nat /\ LengthOf(num_rows) = p * PAGE_SIZE + size
            /\ \A i \in 0 .. num_rows - 1 : PageOf(i) <= p
        BY <3>2
      <4>2. \A i \in 0 .. num_rows - 1 :
              PageOf(i) = p => i < num_rows /\ (SlotOf(i) + 1) * row_size <= size
        BY <3>5
      <4>3. WriteOut(p, size) /\ \A q \in PageId : q < p => pages[q] = Null
        BY <3>3, <3>4
      <4>4. num_rows \in 1 .. num_rows
        BY <3>1
      <4> HIDE DEF p, size
      <4>5. /\ disk' \in [PageId -> Page]
            /\ EndsBehindRow'
            /\ SavedCount <= SavedCount' /\ SavedCount' <= num_rows
            /\ \A i \in 0 .. SavedCount' - 1 : disk'[PageOf(i)][SlotOf(i)] = SessionRow(i)
            /\ \A i \in 0 .. num_rows - 1 : PageOf(i) = p => i < SavedCount'
        BY <1>2, <4>1, <4>2, <4>3, <4>4, FlushWritesRows
      <4> QED
        BY <4>5 DEF p
    <3>7. SavedCount' \in Nat
      BY <3>6, RowsPerPage DEF EndsBehindRow
    <3>8. SavedCount' = num_rows
      <4>1. SUFFICES num_rows <= SavedCount'
        BY <1>3, <3>6, <3>7
      <4> DEFINE i == num_rows - 1
      <4>2. i \in 0 .. num_rows - 1
        BY <3>1
      <4>3. i < SavedCount'
        <5>1. CASE PageOf(i) = LastPage
          BY <3>6, <4>2, <5>1
        <5>2. CASE PageOf(i) # LastPage
          <6>1. i \in 0 .. get_max_rows - 1
            BY <3>1, RowsPerPage
          <6>2. PageOf(i) \in PageId
            BY <6>1, RowSlot
          <6>3. PageOf(i) < LastPage
            <7>1. PageOf(i) <= LastPage /\ PageOf(i) \in Int /\ LastPage \in Int
              BY <3>2, <4>2, <6>2, SizeAssumption DEF PageId
            <7> QED
              BY <5>2, <7>1
          <6>4. i < SavedCount
            BY <1>2, <3>4, <4>2, <6>2, <6>3 DEF RowsKept
          <6> QED
            BY <1>2, <3>6, <3>7, <4>2, <6>4, RowsPerPage DEF EndsBehindRow
        <5> QED
          BY <5>1, <5>2
      <4> QED
        BY <1>3, <3>7, <4>3
    <3> QED
      BY <3>6, <3>8
  <2> QED
    BY <2>1, <2>2
<1>5. /\ task' = NoProcess /\ num_rows' = 0 /\ num_pages' = 0
      /\ pages' = [p \in PageId |-> Null]
  BY <1>1 DEF End, EmptyMemory
<1>6. FlatTableTypeOK'
  <2>1. file_length' \in 0 .. TABLE_MAX_PAGES * PAGE_SIZE
    <3>1. SavedCount' \in 0 .. get_max_rows /\ file_length' = LengthOf(SavedCount')
      BY <1>4 DEF EndsBehindRow
    <3> QED
      BY <3>1, RowsOfLength
  <2> QED
    BY <1>4, <1>5, <2>1, RowsPerPage, SizeAssumption DEF FlatTableTypeOK
<1> QED
  BY <1>4, <1>5, <1>6 DEF IndInv, NoProcess, Ready

\* Opening finds in the file the rows that it has.
LEMMA OpenFindsRows ==
  ASSUME IndInv, Open
  PROVE  /\ IndInv'
         /\ num_rows' = SavedCount
         /\ \A i \in 0 .. SavedCount - 1 : SessionRow(i)' = disk[PageOf(i)][SlotOf(i)]
<1>1. /\ task = NoProcess /\ task' = Ready
      /\ num_pages' = PagesInFile(file_length) /\ num_rows' = SavedCount
      /\ pages' = [p \in PageId |-> Null]
      /\ disk' = disk /\ file_length' = file_length
  BY DEF Open, file, SavedCount
<1>2. FlatTableTypeOK /\ EndsBehindRow
  BY DEF IndInv
<1>3. /\ SavedCount' = SavedCount
      /\ SavedCount \in 0 .. get_max_rows /\ SavedCount \in Nat
      /\ file_length = LengthOf(SavedCount)
  BY <1>1, <1>2, RowsPerPage DEF EndsBehindRow, SavedCount
<1>4. PagesInFile(file_length) \in 0 .. TABLE_MAX_PAGES
  BY <1>3, RowsOfLength
<1>5. FlatTableTypeOK'
  <2>1. pages' \in [PageId -> Page \cup {Null}]
    BY <1>1
  <2> QED
    BY <1>1, <1>2, <1>3, <1>4, <2>1 DEF FlatTableTypeOK
<1>6. ASSUME NEW i \in 0 .. SavedCount - 1
      PROVE  PageOf(i) \in PageId /\ SessionRow(i)' = disk[PageOf(i)][SlotOf(i)]
  <2>1. i \in 0 .. get_max_rows - 1
    BY <1>3, RowsPerPage
  <2>2. PageOf(i) \in PageId
    BY <2>1, RowSlot
  <2> QED
    BY <1>1, <2>2 DEF SessionRow
<1>7. EndsBehindRow'
  BY <1>1, <1>2, <1>3 DEF EndsBehindRow
<1>8. FileIsPrefix'
  BY <1>1, <1>3, <1>6 DEF FileIsPrefix
<1>9. RowsKept'
  BY <1>1, <1>3 DEF RowsKept
<1> QED
  BY <1>1, <1>5, <1>6, <1>7, <1>8, <1>9 DEF IndInv, Ready, NoProcess

\* The process dies, and the file stays as it is.
LEMMA CrashKeepsFile ==
  ASSUME IndInv, Crash
  PROVE  IndInv'
<1>1. /\ task' = NoProcess /\ num_rows' = 0 /\ num_pages' = 0
      /\ pages' = [p \in PageId |-> Null]
      /\ disk' = disk /\ file_length' = file_length
  BY DEF Crash, End, EmptyMemory, file
<1>2. FlatTableTypeOK /\ EndsBehindRow
  BY DEF IndInv
<1>3. FlatTableTypeOK'
  BY <1>1, <1>2, RowsPerPage, SizeAssumption DEF FlatTableTypeOK
<1>4. EndsBehindRow'
  BY <1>1, <1>2 DEF EndsBehindRow, SavedCount
<1> QED
  BY <1>1, <1>3, <1>4 DEF IndInv, NoProcess, Ready

\* Select and ReadOne load pages.
LEMMA SelectLoads ==
  ASSUME IndInv, Select
  PROVE  /\ IndInv'
         /\ \A i \in 0 .. num_rows - 1 : SessionRow(i)' = SessionRow(i)
<1>1. /\ task = Ready /\ UNCHANGED <<num_rows, num_pages, task, file>>
      /\ \A p \in PageId : pages'[p] \in {pages[p], get_page(p)}
  BY DEF Select
<1>2. \A p \in PageId : pages[p] \in Page \cup {Null} /\ get_page(p) \in Page
  BY <1>1, PageHasItsRows DEF IndInv, FlatTableTypeOK
<1>3. pages' \in [PageId -> Page \cup {Null}]
  <2> DEFINE visited == {PageOf(i) : i \in 0 .. num_rows - 1}
  <2>1. pages' = [p \in PageId |-> IF p \in visited THEN get_page(p) ELSE pages[p]]
    BY DEF Select
  <2> HIDE DEF visited
  <2> QED
    BY <1>2, <2>1
<1> QED
  BY <1>1, <1>3, LoadingKeepsRows

LEMMA ReadOneLoads ==
  ASSUME IndInv, NEW rowid \in 0 .. get_max_rows - 1, ReadOne(rowid)
  PROVE  /\ IndInv'
         /\ \A i \in 0 .. num_rows - 1 : SessionRow(i)' = SessionRow(i)
<1>1. /\ task = Ready /\ UNCHANGED <<num_rows, num_pages, task, file>>
      /\ pages' = [pages EXCEPT ![PageOf(rowid)] = get_page(PageOf(rowid))]
  BY DEF ReadOne
<1>2. PageOf(rowid) \in PageId /\ get_page(PageOf(rowid)) \in Page
  BY <1>1, RowSlot, PageHasItsRows
<1>3. pages \in [PageId -> Page \cup {Null}]
  BY DEF IndInv, FlatTableTypeOK
<1>4. /\ pages' \in [PageId -> Page \cup {Null}]
      /\ \A p \in PageId : pages'[p] \in {pages[p], get_page(p)}
  BY <1>1, <1>2, <1>3
<1> QED
  BY <1>1, <1>4, LoadingKeepsRows

\* The invariant is inductive.
THEOREM Invariant == Spec => []IndInv
<1>1. Init => IndInv
  <2> SUFFICES ASSUME Init PROVE IndInv
    OBVIOUS
  <2>1. /\ num_rows = 0 /\ num_pages = 0 /\ pages = [p \in PageId |-> Null]
        /\ task = NoProcess /\ disk = [p \in PageId |-> JunkPage] /\ file_length = 0
    BY DEF Init, EmptyMemory
  <2>2. FlatTableTypeOK
    <3>1. disk \in [PageId -> Page]
      BY <2>1 DEF Page, JunkPage
    <3>2. TABLE_MAX_PAGES * PAGE_SIZE \in Nat
      BY SizeAssumption
    <3> QED
      BY <2>1, <3>1, <3>2, RowsPerPage, SizeAssumption DEF FlatTableTypeOK
  <2>3. EndsBehindRow
    <3>1. 0 \in 0 .. get_max_rows
      BY RowsPerPage
    <3>2. LengthOf(0) = 0
      <4>1. 0 = 0 * get_row_per_page + 0 /\ 0 \in 0 .. get_row_per_page - 1
        BY RowsPerPage
      <4>2. PageOf(0) = 0 /\ SlotOf(0) = 0
        BY <4>1, DivModUnique, RowsPerPage DEF PageOf, SlotOf
      <4> QED
        BY <4>2, SizeAssumption DEF LengthOf
    <3>3. SavedCount = 0
      BY <2>1, <3>1, <3>2, RowsOfLength DEF SavedCount
    <3> QED
      BY <2>1, <3>1, <3>2, <3>3 DEF EndsBehindRow
  <2> QED
    BY <2>1, <2>2, <2>3 DEF IndInv, NoProcess, Ready
<1>2. IndInv /\ [Next]_vars => IndInv'
  <2> SUFFICES ASSUME IndInv, [Next]_vars PROVE IndInv'
    OBVIOUS
  <2>1. CASE Open
    BY <2>1, OpenFindsRows
  <2>2. CASE RefuseFull
    <3>1. UNCHANGED <<num_rows, num_pages, pages, task, disk, file_length>>
      BY <2>2 DEF RefuseFull, memory, file
    <3> QED
      BY <3>1 DEF IndInv, FlatTableTypeOK, EndsBehindRow, FileIsPrefix, RowsKept, SavedCount,
                  SessionRow, FlushedInOrder, LastPage, TotalPages
  <2>3. CASE Select
    BY <2>3, SelectLoads
  <2>4. CASE Close
    <3>1. /\ task = Ready /\ task' = Flush(0)
          /\ UNCHANGED <<num_rows, num_pages, pages, disk, file_length>>
      BY <2>4 DEF Close, memory, file
    <3>2. FlatTableTypeOK'
      BY <3>1, SizeAssumption DEF IndInv, FlatTableTypeOK, PageId
    <3>3. FileIsPrefix' /\ RowsKept' /\ EndsBehindRow'
      BY <3>1 DEF IndInv, EndsBehindRow, FileIsPrefix, RowsKept, SavedCount,
                  SessionRow, Ready, NoProcess
    <3>4. FlushedInOrder'
      <4>1. task'.next = 0
        BY <3>1 DEF Flush
      <4>2. num_rows > 0 => LastPage \in PageId
        BY LastPageEndsWithRow, RowsPerPage DEF IndInv, FlatTableTypeOK
      <4>3. LastPage' = LastPage
        BY <3>1 DEF LastPage, TotalPages
      <4> QED
        BY <3>1, <4>1, <4>2, <4>3, SizeAssumption DEF FlushedInOrder, PageId
    <3> QED
      BY <3>1, <3>2, <3>3, <3>4 DEF IndInv, Flush, Ready
  <2>5. CASE FlushFull
    BY <2>5, FlushFullKeepsRows
  <2>6. CASE FlushLast
    BY <2>6, FlushLastSavesAll
  <2>7. CASE Crash
    BY <2>7, CrashKeepsFile
  <2>8. ASSUME NEW row \in Row, Insert(row) PROVE IndInv'
    BY <2>8, InsertAppends
  <2>9. ASSUME NEW rowid \in 0 .. get_max_rows - 1, ReadOne(rowid) PROVE IndInv'
    BY <2>9, ReadOneLoads
  <2>10. CASE UNCHANGED vars
    <3>1. UNCHANGED <<num_rows, num_pages, pages, task, disk, file_length>>
      BY <2>10 DEF vars, memory, file
    <3> QED
      BY <3>1 DEF IndInv, FlatTableTypeOK, EndsBehindRow, FileIsPrefix, RowsKept, SavedCount,
                  SessionRow, FlushedInOrder, LastPage, TotalPages
  <2> QED
    BY <2>1, <2>2, <2>3, <2>4, <2>5, <2>6, <2>7, <2>8, <2>9, <2>10 DEF Next
<1> QED
  BY <1>1, <1>2, PTL DEF Spec

\* The types.
THEOREM TypeInvariant == Spec => []FlatTableTypeOK
<1>1. IndInv => FlatTableTypeOK
  BY DEF IndInv
<1> QED
  BY <1>1, Invariant, PTL

\* The file ends behind a row or behind a page: the next session's assertion
\* remain_byte % row_size == 0 holds.
THEOREM FileOfWholeRows == Spec => []WholeRows
<1>1. IndInv => WholeRows
  BY RowsOfLength DEF IndInv, EndsBehindRow, WholeRows
<1> QED
  BY <1>1, Invariant, PTL

\* Every row of a session is in memory or where get_page reads it.
THEOREM ReadableRows == Spec => []EveryRowReadable
<1>1. IndInv => EveryRowReadable
  <2> SUFFICES ASSUME IndInv, task = Ready, NEW i \in 0 .. num_rows - 1,
                      pages[PageOf(i)] = Null
               PROVE  PageOf(i) < num_pages /\ InFile(PageOf(i), SlotOf(i))
    BY DEF EveryRowReadable
  <2>1. /\ RowsKept /\ EndsBehindRow /\ num_pages = PagesInFile(file_length)
    BY DEF IndInv, Ready, NoProcess
  <2>2. num_rows \in Nat /\ SavedCount \in Nat /\ SavedCount \in 0 .. get_max_rows
    BY <2>1, RowsPerPage DEF IndInv, FlatTableTypeOK, EndsBehindRow
  <2>3. i \in 0 .. SavedCount - 1
    BY <2>1, <2>2 DEF RowsKept
  <2> QED
    BY <2>1, <2>2, <2>3, RowsAreInFile DEF EndsBehindRow, InFile
<1> QED
  BY <1>1, Invariant, PTL

(***************************************************************************)
(* The refinement.                                                         *)
(***************************************************************************)

\* A list that agrees with one that is no shorter is a prefix of it.
LEMMA AgreeingIsPrefix ==
  ASSUME NEW S, NEW s \in Seq(S), NEW t \in Seq(S), Len(s) <= Len(t),
         \A j \in 1 .. Len(s) : s[j] = t[j]
  PROVE  Log!IsPrefix(s, t)
<1>1. SubSeq(s, 1, Len(s)) = SubSeq(t, 1, Len(s))
  OBVIOUS
<1> QED
  BY <1>1 DEF Log!IsPrefix

\* A session's list has its rows, the saved list those of the file.
ListsHaveRows ==
  /\ num_rows \in Nat /\ SavedCount \in Nat
  /\ SavedRows \in [1 .. SavedCount -> Row \cup {Junk}]
  /\ \A j \in 1 .. SavedCount :
       SavedRows[j] = disk[PageOf(j - 1)][SlotOf(j - 1)]
  /\ task # NoProcess =>
       /\ RowsInSession \in [1 .. num_rows -> Row \cup {Junk}]
       /\ \A j \in 1 .. num_rows : RowsInSession[j] = SessionRow(j - 1)
  /\ task = NoProcess => RowsInSession = <<>>

LEMMA Lists == IndInv => ListsHaveRows
<1> SUFFICES ASSUME IndInv PROVE ListsHaveRows
  OBVIOUS
<1>1. /\ num_rows \in 0 .. get_max_rows /\ num_rows \in Nat
      /\ SavedCount \in 0 .. get_max_rows /\ SavedCount \in Nat
      /\ get_max_rows \in Nat
  BY RowsPerPage DEF IndInv, FlatTableTypeOK, EndsBehindRow
<1>2. \A j \in 1 .. get_max_rows :
        /\ disk[PageOf(j - 1)][SlotOf(j - 1)] \in Row \cup {Junk}
        /\ SessionRow(j - 1) \in Row \cup {Junk}
  <2> SUFFICES ASSUME NEW j \in 1 .. get_max_rows
               PROVE  /\ disk[PageOf(j - 1)][SlotOf(j - 1)] \in Row \cup {Junk}
                      /\ SessionRow(j - 1) \in Row \cup {Junk}
    OBVIOUS
  <2>1. j - 1 \in 0 .. get_max_rows - 1
    BY <1>1
  <2>2. PageOf(j - 1) \in PageId /\ SlotOf(j - 1) \in Slot
    BY <2>1, RowSlot
  <2>3. disk[PageOf(j - 1)] \in Page /\ pages[PageOf(j - 1)] \in Page \cup {Null}
    BY <2>2 DEF IndInv, FlatTableTypeOK
  <2> QED
    BY <2>2, <2>3 DEF SessionRow, Page
<1>3. SavedRows = [j \in 1 .. SavedCount |-> disk[PageOf(j - 1)][SlotOf(j - 1)]]
  BY DEF SavedRows, SavedCount
<1>4. task # NoProcess =>
        RowsInSession = [j \in 1 .. num_rows |-> SessionRow(j - 1)]
  BY DEF RowsInSession, SessionRow
<1>5. (1 .. num_rows) \subseteq (1 .. get_max_rows)
      /\ (1 .. SavedCount) \subseteq (1 .. get_max_rows)
  BY <1>1
<1>6. RowsInSession = <<>> \/ task # NoProcess
  BY DEF RowsInSession
<1> QED
  BY <1>1, <1>2, <1>3, <1>4, <1>5, <1>6 DEF ListsHaveRows

\* While the rows of a session and the file stay, so do both lists.
LEMMA ListsStay ==
  ASSUME ListsHaveRows, ListsHaveRows', num_rows' = num_rows, UNCHANGED file,
         task # NoProcess, task' # NoProcess,
         \A i \in 0 .. num_rows - 1 : SessionRow(i)' = SessionRow(i)
  PROVE  RowsInSession' = RowsInSession /\ SavedRows' = SavedRows
<1>1. SavedRows' = SavedRows
  BY DEF SavedRows, file
<1>2. \A j \in 1 .. num_rows : RowsInSession'[j] = RowsInSession[j]
  <2> SUFFICES ASSUME NEW j \in 1 .. num_rows
               PROVE  RowsInSession'[j] = RowsInSession[j]
    OBVIOUS
  <2>1. j - 1 \in 0 .. num_rows - 1
    BY DEF ListsHaveRows
  <2>2. SessionRow(j - 1)' = SessionRow(j - 1)
    BY <2>1
  <2> QED
    BY <2>2 DEF ListsHaveRows
<1> QED
  BY <1>1, <1>2 DEF ListsHaveRows

\* A step that opens the table opens the log.
LEMMA OpenRefines ==
  ASSUME IndInv, ListsHaveRows, ListsHaveRows', Open
  PROVE  Log!Open
<1>1. /\ task = NoProcess /\ task' = Ready /\ reply' = NoReply /\ UNCHANGED file
  BY DEF Open
<1>2. task' # NoProcess
  BY <1>1 DEF Ready, NoProcess
<1>3. SavedRows' = SavedRows
  BY <1>1 DEF SavedRows, file
<1>4. /\ num_rows' = SavedCount
      /\ \A i \in 0 .. SavedCount - 1 : SessionRow(i)' = disk[PageOf(i)][SlotOf(i)]
  BY OpenFindsRows
<1>5. \A j \in 1 .. SavedCount : RowsInSession'[j] = SavedRows[j]
  <2> SUFFICES ASSUME NEW j \in 1 .. SavedCount
               PROVE  RowsInSession'[j] = SavedRows[j]
    OBVIOUS
  <2>1. j - 1 \in 0 .. SavedCount - 1
    BY DEF ListsHaveRows
  <2>2. SessionRow(j - 1)' = disk[PageOf(j - 1)][SlotOf(j - 1)]
    BY <1>4, <2>1
  <2> QED
    BY <1>2, <1>4, <2>2 DEF ListsHaveRows
<1>6. RowsInSession' = SavedRows
  BY <1>2, <1>4, <1>5 DEF ListsHaveRows
<1> QED
  BY <1>1, <1>2, <1>3, <1>6 DEF Log!Open, Log!Answer, NoReply, Reply

\* An insert appends its row to the log.
LEMMA InsertRefines ==
  ASSUME IndInv, ListsHaveRows, ListsHaveRows', NEW row \in Row, Insert(row)
  PROVE  Log!AppendRow(row)
<1>1. /\ task = Ready /\ num_rows < get_max_rows /\ num_rows' = num_rows + 1
      /\ reply' = Reply("EXECUTE_SUCCESS") /\ UNCHANGED file /\ task' = task
  BY DEF Insert
<1>2. task # NoProcess /\ task' # NoProcess
  BY <1>1 DEF Ready, NoProcess
<1>3. \A i \in 0 .. num_rows :
        SessionRow(i)' = IF i = num_rows THEN row ELSE SessionRow(i)
  BY InsertAppends
<1>4. SavedRows' = SavedRows
  BY <1>1 DEF SavedRows, file
<1>5. /\ RowsInSession \in Seq(Row \cup {Junk}) /\ Len(RowsInSession) = num_rows
  BY <1>2 DEF ListsHaveRows
<1>6. /\ Append(RowsInSession, row) \in [1 .. num_rows + 1 -> Row \cup {Junk}]
      /\ \A j \in 1 .. num_rows + 1 :
           Append(RowsInSession, row)[j] =
             IF j = num_rows + 1 THEN row ELSE RowsInSession[j]
  <2> DEFINE s == RowsInSession  t == Append(s, row)
  <2> HIDE DEF s
  <2>1. s \in Seq(Row \cup {Junk}) /\ Len(s) = num_rows /\ num_rows \in Nat
    BY <1>5 DEF ListsHaveRows, s
  <2>2. /\ t \in Seq(Row \cup {Junk}) /\ Len(t) = num_rows + 1
        /\ \A j \in 1 .. num_rows : t[j] = s[j]
        /\ t[num_rows + 1] = row
    BY <2>1
  <2> HIDE DEF t
  <2>3. t \in [1 .. num_rows + 1 -> Row \cup {Junk}]
    BY <2>1, <2>2
  <2>4. \A j \in 1 .. num_rows + 1 : j = num_rows + 1 \/ j \in 1 .. num_rows
    BY <2>1
  <2> QED
    BY <2>2, <2>3, <2>4 DEF s, t
<1>7. \A j \in 1 .. num_rows + 1 :
        RowsInSession'[j] = IF j = num_rows + 1 THEN row ELSE RowsInSession[j]
  <2> SUFFICES ASSUME NEW j \in 1 .. num_rows + 1
               PROVE  RowsInSession'[j] =
                        IF j = num_rows + 1 THEN row ELSE RowsInSession[j]
    OBVIOUS
  <2>1. j - 1 \in 0 .. num_rows /\ (j - 1 = num_rows <=> j = num_rows + 1)
    BY DEF ListsHaveRows
  <2>2. SessionRow(j - 1)' = IF j = num_rows + 1 THEN row ELSE SessionRow(j - 1)
    BY <1>3, <2>1
  <2>3. RowsInSession'[j] = SessionRow(j - 1)'
    BY <1>1, <1>2 DEF ListsHaveRows
  <2>4. j # num_rows + 1 => RowsInSession[j] = SessionRow(j - 1)
    BY <1>2 DEF ListsHaveRows
  <2> QED
    BY <2>2, <2>3, <2>4
<1>8. RowsInSession' = Append(RowsInSession, row)
  BY <1>1, <1>2, <1>6, <1>7 DEF ListsHaveRows
<1> QED
  BY <1>1, <1>2, <1>4, <1>5, <1>8 DEF Log!AppendRow, Log!Answer, Reply

\* Select and ReadOne answer with the rows of the list.
LEMMA SelectRefines ==
  ASSUME IndInv, ListsHaveRows, ListsHaveRows', Select
  PROVE  Log!Query
<1>1. /\ task = Ready /\ UNCHANGED <<num_rows, num_pages, task, file>>
      /\ reply' = Selected([i \in 1 .. num_rows |-> RowAt(i - 1)])
  BY DEF Select
<1>2. task # NoProcess
  BY <1>1 DEF Ready, NoProcess
<1>3. RowsInSession' = RowsInSession /\ SavedRows' = SavedRows
  BY <1>1, <1>2, SelectLoads, ListsStay
<1>4. \A j \in 1 .. num_rows : RowAt(j - 1) = RowsInSession[j]
  <2> SUFFICES ASSUME NEW j \in 1 .. num_rows
               PROVE  RowAt(j - 1) = RowsInSession[j]
    OBVIOUS
  <2>1. j - 1 \in 0 .. num_rows - 1 /\ j - 1 \in 0 .. get_max_rows - 1
    BY RowsPerPage DEF ListsHaveRows, IndInv, FlatTableTypeOK
  <2>2. PageOf(j - 1) \in PageId
    BY <2>1, RowSlot
  <2>3. RowAt(j - 1) = SessionRow(j - 1)
    BY <1>1, <2>1, <2>2, PageHasItsRows DEF RowAt
  <2> QED
    BY <1>2, <2>3 DEF ListsHaveRows
<1>5. [i \in 1 .. num_rows |-> RowAt(i - 1)] = RowsInSession
  BY <1>2, <1>4 DEF ListsHaveRows
<1> QED
  BY <1>1, <1>2, <1>3, <1>5 DEF Log!Query, Log!AllRows, Selected

LEMMA ReadOneRefines ==
  ASSUME IndInv, ListsHaveRows, ListsHaveRows',
         NEW rowid \in 0 .. get_max_rows - 1, ReadOne(rowid)
  PROVE  Log!Get(rowid)
<1>1. /\ task = Ready /\ rowid < num_rows
      /\ UNCHANGED <<num_rows, num_pages, task, file>>
      /\ reply' = ReadRow(rowid, RowAt(rowid))
  BY DEF ReadOne
<1>2. task # NoProcess
  BY <1>1 DEF Ready, NoProcess
<1>3. RowsInSession' = RowsInSession /\ SavedRows' = SavedRows
  BY <1>1, <1>2, ReadOneLoads, ListsStay
<1>4. /\ rowid \in 0 .. num_rows - 1 /\ rowid + 1 \in 1 .. num_rows
      /\ (rowid + 1) - 1 = rowid
  BY <1>1, RowsPerPage DEF ListsHaveRows
<1>5. RowAt(rowid) = SessionRow(rowid)
  BY <1>1, <1>4, RowSlot, PageHasItsRows DEF RowAt
<1>6. RowsInSession[rowid + 1] = SessionRow(rowid)
  BY <1>2, <1>4 DEF ListsHaveRows
<1>7. Len(RowsInSession) = num_rows
  BY <1>2 DEF ListsHaveRows
<1> QED
  BY <1>1, <1>2, <1>3, <1>5, <1>6, <1>7 DEF Log!Get, Log!OneRow, ReadRow

\* A complete flush saves more rows, the first ones first.
LEMMA FlushFullRefines ==
  ASSUME IndInv, ListsHaveRows, ListsHaveRows', FlushFull
  PROVE  Log!Persist
<1>1. /\ task.at = "flush" /\ task' = Flush(task.next + 1)
      /\ num_rows' = num_rows /\ reply' = reply
  BY DEF FlushFull
<1>2. task # NoProcess /\ task' # NoProcess
  BY <1>1 DEF Flush, NoProcess
<1>3. FileIsPrefix
  BY <1>2 DEF IndInv
<1>4. /\ IndInv'
      /\ \A i \in 0 .. num_rows - 1 : SessionRow(i)' = SessionRow(i)
      /\ SavedCount <= SavedCount'
      /\ \A i \in 0 .. SavedCount' - 1 : disk'[PageOf(i)][SlotOf(i)] = SessionRow(i)
  BY FlushFullKeepsRows
<1>5. SavedCount' <= num_rows'
  BY <1>2, <1>4 DEF IndInv, FileIsPrefix
<1>6. RowsInSession' = RowsInSession
  <2>1. \A j \in 1 .. num_rows : RowsInSession'[j] = RowsInSession[j]
    <3> SUFFICES ASSUME NEW j \in 1 .. num_rows
                 PROVE  RowsInSession'[j] = RowsInSession[j]
      OBVIOUS
    <3>1. j - 1 \in 0 .. num_rows - 1
      BY DEF ListsHaveRows
    <3>2. SessionRow(j - 1)' = SessionRow(j - 1)
      BY <1>4, <3>1
    <3> QED
      BY <1>1, <1>2, <3>2 DEF ListsHaveRows
  <2> QED
    BY <1>1, <1>2, <2>1 DEF ListsHaveRows
<1> DEFINE S == Row \cup {Junk}  m == SavedCount  m1 == SavedCount'
           n == num_rows  s == SavedRows  s1 == SavedRows'  t == RowsInSession
<1>7. /\ m \in Nat /\ m1 \in Nat /\ n \in Nat /\ m <= m1 /\ m1 <= n
      /\ s \in [1 .. m -> S] /\ s1 \in [1 .. m1 -> S] /\ t \in [1 .. n -> S]
  BY <1>1, <1>2, <1>4, <1>5 DEF ListsHaveRows
<1>8. \A j \in 1 .. m : s[j] = t[j]
  <2> SUFFICES ASSUME NEW j \in 1 .. m PROVE s[j] = t[j]
    OBVIOUS
  <2>1. j - 1 \in 0 .. SavedCount - 1 /\ j \in 1 .. num_rows
    BY <1>3 DEF ListsHaveRows, FileIsPrefix
  <2>2. disk[PageOf(j - 1)][SlotOf(j - 1)] = SessionRow(j - 1)
    BY <1>3, <2>1 DEF FileIsPrefix
  <2> QED
    BY <1>2, <2>1, <2>2 DEF ListsHaveRows
<1>9. \A j \in 1 .. m1 : s1[j] = t[j]
  <2> SUFFICES ASSUME NEW j \in 1 .. m1 PROVE s1[j] = t[j]
    OBVIOUS
  <2>1. j - 1 \in 0 .. SavedCount' - 1 /\ j \in 1 .. num_rows
    <3> HIDE DEF m, n, s, s1, t
    <3>1. j - 1 \in 0 .. m1 - 1 /\ j \in 1 .. n
      <4> HIDE DEF m1
      <4> QED
        BY <1>7
    <3> QED
      BY <3>1 DEF n
  <2>2. disk'[PageOf(j - 1)][SlotOf(j - 1)] = SessionRow(j - 1)
    BY <1>4, <2>1
  <2> QED
    BY <1>2, <2>1, <2>2 DEF ListsHaveRows
<1> HIDE DEF S, m, m1, n, s, s1, t
<1>10. /\ s \in Seq(S) /\ s1 \in Seq(S) /\ t \in Seq(S)
       /\ Len(s) = m /\ Len(s1) = m1 /\ Len(t) = n
  BY <1>7
<1>11. Log!IsPrefix(s, s1)
  <2>1. (1 .. m) \subseteq (1 .. m1)
    BY <1>7
  <2>2. \A j \in 1 .. m : s[j] = s1[j]
    BY <1>8, <1>9, <2>1
  <2> QED
    BY <1>7, <1>10, <2>2, AgreeingIsPrefix
<1>12. Log!IsPrefix(s1, t)
  BY <1>7, <1>9, <1>10, AgreeingIsPrefix
<1> QED
  BY <1>1, <1>2, <1>6, <1>11, <1>12 DEF Log!Persist, s, s1, t

\* With the last flush the session's list becomes the saved one.
LEMMA FlushLastRefines ==
  ASSUME IndInv, ListsHaveRows, ListsHaveRows', FlushLast
  PROVE  Log!Close
<1>1. /\ task.at = "flush" /\ task' = NoProcess /\ reply' = NoReply
  BY DEF FlushLast, End
<1>2. task # NoProcess
  BY <1>1 DEF NoProcess
<1>3. /\ SavedCount' = num_rows
      /\ \A i \in 0 .. num_rows - 1 : disk'[PageOf(i)][SlotOf(i)] = SessionRow(i)
  BY FlushLastSavesAll
<1>4. \A j \in 1 .. num_rows : SavedRows'[j] = RowsInSession[j]
  <2> SUFFICES ASSUME NEW j \in 1 .. num_rows
               PROVE  SavedRows'[j] = RowsInSession[j]
    OBVIOUS
  <2>1. j - 1 \in 0 .. num_rows - 1
    BY DEF ListsHaveRows
  <2>2. disk'[PageOf(j - 1)][SlotOf(j - 1)] = SessionRow(j - 1)
    BY <1>3, <2>1
  <2> QED
    BY <1>2, <1>3, <2>2 DEF ListsHaveRows
<1>5. SavedRows' = RowsInSession
  BY <1>2, <1>3, <1>4 DEF ListsHaveRows
<1>6. RowsInSession' = <<>>
  BY <1>1 DEF ListsHaveRows
<1> QED
  BY <1>1, <1>2, <1>5, <1>6 DEF Log!Close, Log!Answer, NoReply, Reply

\* Every step is one of the log's, or none.
LEMMA StepRefines ==
  IndInv /\ ListsHaveRows /\ ListsHaveRows' /\ [Next]_vars => [Log!Next]_(Log!logvars)
<1> SUFFICES ASSUME IndInv, ListsHaveRows, ListsHaveRows', [Next]_vars
             PROVE  [Log!Next]_(Log!logvars)
  OBVIOUS
<1>1. CASE Open
  BY <1>1, OpenRefines DEF Log!Next
<1>2. CASE RefuseFull
  <2>1. /\ task = Ready /\ num_rows >= get_max_rows
        /\ UNCHANGED <<num_rows, pages, task, file, disk, file_length>>
        /\ reply' = Reply("TABLE_FULL")
    BY <1>2 DEF RefuseFull, memory, file
  <2>2. task # NoProcess
    BY <2>1 DEF Ready, NoProcess
  <2>3. RowsInSession' = RowsInSession /\ SavedRows' = SavedRows
    BY <2>1 DEF RowsInSession, SavedRows
  <2>4. Len(RowsInSession) = get_max_rows
    <3>1. Len(RowsInSession) = num_rows
      BY <2>2 DEF ListsHaveRows
    <3> QED
      BY <2>1, <3>1, RowsPerPage DEF IndInv, FlatTableTypeOK
  <2>5. Log!Refuse
    BY <2>1, <2>2, <2>3, <2>4 DEF Log!Refuse, Log!Answer, Reply
  <2> QED
    BY <2>5 DEF Log!Next
<1>3. CASE Select
  BY <1>3, SelectRefines DEF Log!Next
<1>4. CASE Close
  <2>1. /\ task = Ready /\ task' = Flush(0)
        /\ UNCHANGED <<num_rows, pages, disk, file_length, reply>>
    BY <1>4 DEF Close, memory, file
  <2>2. task # NoProcess /\ task' # NoProcess
    BY <2>1 DEF Ready, NoProcess, Flush
  <2>3. RowsInSession' = RowsInSession /\ SavedRows' = SavedRows
    BY <2>1, <2>2 DEF RowsInSession, SavedRows
  <2> QED
    BY <2>1, <2>2, <2>3 DEF Log!logvars
<1>5. CASE FlushFull
  BY <1>5, FlushFullRefines DEF Log!Next
<1>6. CASE FlushLast
  BY <1>6, FlushLastRefines DEF Log!Next
<1>7. CASE Crash
  <2>1. /\ task # NoProcess /\ task' = NoProcess /\ reply' = NoReply
        /\ UNCHANGED <<disk, file_length>>
    BY <1>7 DEF Crash, End, file
  <2>2. RowsInSession' = <<>> /\ SavedRows' = SavedRows
    BY <2>1 DEF RowsInSession, SavedRows
  <2>3. Log!Crash
    BY <2>1, <2>2 DEF Log!Crash, Log!Answer, NoReply, Reply
  <2> QED
    BY <2>3 DEF Log!Next
<1>8. ASSUME NEW row \in Row, Insert(row) PROVE Log!Next
  BY <1>8, InsertRefines DEF Log!Next
<1>9. ASSUME NEW rowid \in 0 .. get_max_rows - 1, ReadOne(rowid) PROVE Log!Next
  BY <1>9, ReadOneRefines DEF Log!Next
<1>10. CASE UNCHANGED vars
  <2>1. UNCHANGED <<num_rows, pages, task, disk, file_length, reply>>
    BY <1>10 DEF vars, memory, file
  <2>2. RowsInSession' = RowsInSession /\ SavedRows' = SavedRows
    BY <2>1 DEF RowsInSession, SavedRows
  <2> QED
    BY <2>1, <2>2 DEF Log!logvars
<1> QED
  BY <1>1, <1>2, <1>3, <1>4, <1>5, <1>6, <1>7, <1>8, <1>9, <1>10 DEF Next

\* The table implements the append-only log, whenever the process dies: rows
\* are read as they were appended, in their session and in all later ones.
THEOREM Refinement == Spec => ImplementsAppendLog
<1>1. Init => Log!Init
  <2> SUFFICES ASSUME Init PROVE Log!Init
    OBVIOUS
  <2>1. task = NoProcess /\ file_length = 0 /\ reply = NoReply
    BY DEF Init
  <2>2. RowsInSession = <<>>
    BY <2>1 DEF RowsInSession
  <2>3. SavedCount = 0
    <3>1. 0 \in Nat /\ 0 = 0 * PAGE_SIZE + 0 /\ 0 \in 0 .. PAGE_SIZE - 1
      BY RowsPerPage
    <3>2. RemainByte(0) = 0
      BY <3>1, DivModUnique, RowsPerPage DEF RemainByte
    <3>3. 0 + PAGE_SIZE - 1 = 0 * PAGE_SIZE + (PAGE_SIZE - 1)
          /\ PAGE_SIZE - 1 \in 0 .. PAGE_SIZE - 1
      BY RowsPerPage
    <3>4. PagesInFile(0) = 0
      BY <3>1, <3>3, DivModUnique, RowsPerPage DEF PagesInFile
    <3> QED
      BY <2>1, <3>2, <3>4, RowsPerPage DEF SavedCount, RowsInFile
  <2>4. SavedRows = <<>>
    BY <2>3 DEF SavedRows, SavedCount
  <2> QED
    BY <2>1, <2>2, <2>4 DEF Log!Init, Log!Answer, NoReply, Reply
<1>2. Spec => Log!Init /\ [][Log!Next]_(Log!logvars)
  BY <1>1, StepRefines, Lists, Invariant, PTL DEF Spec
<1> QED
  BY <1>2 DEF ImplementsAppendLog, Log!Spec
==============================================================================
