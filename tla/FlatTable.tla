------------------------------ MODULE FlatTable ------------------------------
(***************************************************************************)
(* class Table on class DbFile (src/src/core/table.h, table.cpp, dbfile.h, *)
(* dbfile.cpp) with the commands Insert and Select (command.cpp): rows of  *)
(* a fixed size, packed into pages.  The file has no header; how many rows *)
(* it has is computed from its length when it is opened.                   *)
(*                                                                         *)
(* Pages stay in memory until ~Table flushes them.  Each flush is one      *)
(* write, and the process may die between any two of them.                 *)
(***************************************************************************)
EXTENDS Integers, Sequences, FiniteSetsExt

CONSTANTS
  PAGE_SIZE,        \* in bytes
  row_size,         \* in bytes
  TABLE_MAX_PAGES,  \* slots of DbFile's page array
  Row,
  Junk,             \* bytes nothing was written to
  Null              \* nullptr in the page array

ASSUME SizeAssumption ==
  /\ row_size \in Nat \ {0}
  /\ PAGE_SIZE \in Nat /\ PAGE_SIZE >= row_size
  /\ TABLE_MAX_PAGES \in Nat \ {0}

ASSUME ContentAssumption == Junk \notin Row

VARIABLES
  num_rows,     \* Table::num_rows
  num_pages,    \* DbFile::num_pages, counted when the file was opened
  pages,        \* DbFile::pages
  task,         \* what the process is in the middle of
  disk,         \* the file: its pages,
  file_length,  \*   and how many bytes it has
  reply         \* what the last finished command returned

memory == <<num_rows, num_pages, pages>>
file == <<disk, file_length>>
vars == <<memory, task, file, reply>>

get_row_per_page == PAGE_SIZE \div row_size
get_max_rows == TABLE_MAX_PAGES * get_row_per_page

PageId == 0 .. TABLE_MAX_PAGES - 1
Slot == 0 .. get_row_per_page - 1
Page == [Slot -> Row \cup {Junk}]
JunkPage == [s \in Slot |-> Junk]

ASSUME NullAssumption == Null \notin Page

NoProcess == [at |-> "none"]
Ready == [at |-> "ready"]
Flush(i) == [at |-> "flush", next |-> i]

Reply(status) == [status |-> status]
NoReply == Reply("NONE")
Selected(rows) == [status |-> "SELECTED", rows |-> rows]
ReadRow(rowid, row) == [status |-> "READ", rowid |-> rowid, row |-> row]

EmptyMemory(rows, pids, cache) ==
  rows = 0 /\ pids = 0 /\ cache = [p \in PageId |-> Null]

Init ==
  /\ EmptyMemory(num_rows, num_pages, pages)
  /\ task = NoProcess
  /\ disk = [p \in PageId |-> JunkPage]
  /\ file_length = 0
  /\ reply = NoReply

(***************************************************************************)
(* The process ends, with or without having finished ~Table.               *)
(***************************************************************************)
End ==
  /\ task' = NoProcess
  /\ EmptyMemory(num_rows', num_pages', pages')
  /\ reply' = NoReply

(***************************************************************************)
(* The constructors of DbFile and Table: the last page may be incomplete.  *)
(***************************************************************************)
WholePagesInFile(length) == length \div PAGE_SIZE
PagesInFile(length) == (length + PAGE_SIZE - 1) \div PAGE_SIZE
RemainByte(length) == length % PAGE_SIZE

RowsInFileCeiling(length) ==   \* forgets that the last page may be incomplete
  PagesInFile(length) * get_row_per_page

RowsInFile(length) ==
  IF RemainByte(length) = 0
  THEN PagesInFile(length) * get_row_per_page
  ELSE (PagesInFile(length) - 1) * get_row_per_page
         + RemainByte(length) \div row_size

Open ==
  /\ task = NoProcess
  /\ num_pages' = PagesInFile(file_length)
  /\ num_rows' = RowsInFile(file_length)
  /\ pages' = [p \in PageId |-> Null]
  /\ task' = Ready
  /\ reply' = NoReply
  /\ UNCHANGED file

(***************************************************************************)
(* DbFile::get_page.  Only a page that was in the file when it was opened  *)
(* is read, as far as the file goes; the rest of the page is as malloc     *)
(* returned it.                                                            *)
(***************************************************************************)
InFile(p, s) == p * PAGE_SIZE + (s + 1) * row_size <= file_length

get_page(p) ==
  IF pages[p] # Null THEN pages[p]
  ELSE IF p < num_pages
  THEN [s \in Slot |-> IF InFile(p, s) THEN disk[p][s] ELSE Junk]
  ELSE JunkPage

(***************************************************************************)
(* Table::get_row_slot.                                                    *)
(***************************************************************************)
PageOf(rowid) == rowid \div get_row_per_page
SlotOf(rowid) == rowid % get_row_per_page

Insert(row) ==
  /\ task = Ready
  /\ num_rows < get_max_rows
  /\ LET p == PageOf(num_rows) IN
     pages' = [pages EXCEPT
       ![p] = [get_page(p) EXCEPT ![SlotOf(num_rows)] = row]]
  /\ num_rows' = num_rows + 1
  /\ reply' = Reply("EXECUTE_SUCCESS")
  /\ UNCHANGED <<num_pages, task, file>>

RefuseFull ==
  /\ task = Ready
  /\ num_rows >= get_max_rows
  /\ reply' = Reply("TABLE_FULL")
  /\ UNCHANGED <<memory, task, file>>

(***************************************************************************)
(* Select visits every row, and so has every page loaded.                  *)
(***************************************************************************)
RowAt(rowid) == get_page(PageOf(rowid))[SlotOf(rowid)]

Select ==
  /\ task = Ready
  /\ LET visited == {PageOf(i) : i \in 0 .. num_rows - 1} IN
     pages' = [p \in PageId |-> IF p \in visited THEN get_page(p) ELSE pages[p]]
  /\ reply' = Selected([i \in 1 .. num_rows |-> RowAt(i - 1)])
  /\ UNCHANGED <<num_rows, num_pages, task, file>>

ReadOne(rowid) ==
  /\ task = Ready
  /\ rowid < num_rows
  /\ pages' = [pages EXCEPT ![PageOf(rowid)] = get_page(PageOf(rowid))]
  /\ reply' = ReadRow(rowid, RowAt(rowid))
  /\ UNCHANGED <<num_rows, num_pages, task, file>>

(***************************************************************************)
(* ~Table calls DbFile::flush_page for each page: completely for all but   *)
(* the last one, and of that only the rows, so that the length of the file *)
(* says how many there are.  A page that is not cached is left alone.      *)
(***************************************************************************)
TotalPages == (num_rows + get_row_per_page - 1) \div get_row_per_page
RemainRow == num_rows % get_row_per_page
LastPage == TotalPages - 1

LastSizeFull == PAGE_SIZE
LastSizeBytes ==   \* as if pages had no bytes to spare
  IF RemainRow = 0 THEN PAGE_SIZE ELSE (num_rows * row_size) % PAGE_SIZE
LastSize == IF RemainRow = 0 THEN PAGE_SIZE ELSE RemainRow * row_size

WriteOut(p, size) ==
  IF pages[p] = Null
  THEN UNCHANGED file
  ELSE /\ disk' = [disk EXCEPT ![p] = [s \in Slot |->
            IF (s + 1) * row_size <= size THEN pages[p][s] ELSE @[s]]]
       /\ file_length' = Max({file_length, p * PAGE_SIZE + size})

Close ==
  /\ task = Ready
  /\ task' = Flush(0)
  /\ UNCHANGED <<memory, file, reply>>

FlushFull ==
  /\ task.at = "flush"
  /\ task.next < LastPage
  /\ WriteOut(task.next, PAGE_SIZE)
  /\ pages' = [pages EXCEPT ![task.next] = Null]
  /\ task' = Flush(task.next + 1)
  /\ UNCHANGED <<num_rows, num_pages, reply>>

(***************************************************************************)
(* The last page of an empty table is page -1.  Whatever the code finds in *)
(* pages[-1], it writes nothing: it is null, or lseek fails and the        *)
(* process exits.                                                          *)
(***************************************************************************)
FlushLast ==
  /\ task.at = "flush"
  /\ task.next >= LastPage
  /\ IF num_rows = 0 THEN UNCHANGED file ELSE WriteOut(LastPage, LastSize)
  /\ End

Crash ==
  /\ task # NoProcess
  /\ End
  /\ UNCHANGED file

Next ==
  \/ Open \/ RefuseFull \/ Select \/ Close \/ FlushFull \/ FlushLast \/ Crash
  \/ \E row \in Row : Insert(row)
  \/ \E rowid \in 0 .. get_max_rows - 1 : ReadOne(rowid)

Spec == Init /\ [][Next]_vars
------------------------------------------------------------------------------
(***************************************************************************)
(* Types.                                                                  *)
(***************************************************************************)
FlatTableTypeOK ==
  /\ num_rows \in 0 .. get_max_rows
  /\ num_pages \in 0 .. TABLE_MAX_PAGES
  /\ pages \in [PageId -> Page \cup {Null}]
  /\ task \in {NoProcess, Ready} \cup {Flush(i) : i \in PageId}
  /\ disk \in [PageId -> Page]
  /\ file_length \in 0 .. TABLE_MAX_PAGES * PAGE_SIZE

(***************************************************************************)
(* The file ends behind a row or behind a page, also when the process died *)
(* while it wrote: the assertion remain_byte % row_size == 0 with which    *)
(* the next session starts (table.cpp:18).                                 *)
(***************************************************************************)
WholeRows == RemainByte(file_length) % row_size = 0

(***************************************************************************)
(* Every row of a session is in memory, or in the part of the file that    *)
(* get_page reads.  get_page goes by the number of pages counted when the  *)
(* file was opened (dbfile.cpp:61): a page added since can only be had     *)
(* from memory, and so can the rows added to the last page.                *)
(***************************************************************************)
EveryRowReadable ==
  task = Ready => \A i \in 0 .. num_rows - 1 :
    \/ pages[PageOf(i)] # Null
    \/ PageOf(i) < num_pages /\ InFile(PageOf(i), SlotOf(i))

(***************************************************************************)
(* The last page that ~Table flushes, "flush remain part" (table.cpp:34),  *)
(* is a page of the table.                                                 *)
(***************************************************************************)
FlushesOwnPages == task.at = "flush" => LastPage \in PageId
------------------------------------------------------------------------------
(***************************************************************************)
(* The table implements the append-only log.                               *)
(***************************************************************************)
RowsInSession ==
  IF task = NoProcess THEN <<>>
  ELSE [i \in 1 .. num_rows |->
         IF pages[PageOf(i - 1)] # Null THEN pages[PageOf(i - 1)][SlotOf(i - 1)]
                                        ELSE disk[PageOf(i - 1)][SlotOf(i - 1)]]

SavedRows ==
  [i \in 1 .. RowsInFile(file_length) |-> disk[PageOf(i - 1)][SlotOf(i - 1)]]

Log == INSTANCE AppendLog WITH
  LogRow <- Row, Capacity <- get_max_rows,
  open <- task # NoProcess, rows <- RowsInSession, saved <- SavedRows

(***************************************************************************)
(* Rows are read as they were appended, in this session and in all later   *)
(* ones, and a crash, also one in the middle of ~Table, costs none but the *)
(* last rows of its session.                                               *)
(***************************************************************************)
ImplementsAppendLog == Log!Spec
==============================================================================
