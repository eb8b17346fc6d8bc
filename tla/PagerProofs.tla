----------------------------- MODULE PagerProofs -----------------------------
(***************************************************************************)
(* Theorems about Pager, for any number of pages and any contents.         *)
(*                                                                         *)
(* Everything is proved of CrashSpec; Spec is the special case in which    *)
(* the process never dies.                                                 *)
(***************************************************************************)
EXTENDS Pager, TLAPS

USE PagerAssumption

(***************************************************************************)
(* Type correctness, with crashes.                                         *)
(***************************************************************************)
THEOREM TypeInvariant == CrashSpec => []PagerTypeOK
<1>1. Init => PagerTypeOK
  BY DEF Init, PagerTypeOK, EmptyMemory, PageId, NoProcess
<1>2. PagerTypeOK /\ [Next \/ Crash]_vars => PagerTypeOK'
  <2> SUFFICES ASSUME PagerTypeOK, [Next \/ Crash]_vars
               PROVE  PagerTypeOK'
    OBVIOUS
  <2> USE DEF PagerTypeOK, PageId, Allocated, Cached, Ready, NoProcess, AllocateRoot,
              AllocateCount, CloseRoot, CloseCount, Flush, Changed, Closed, Died
  <2>1. CASE Create
    BY <2>1 DEF Create, EmptyMemory
  <2>2. CASE Open
    BY <2>2 DEF Open, disk
  <2>3. CASE Close
    BY <2>3 DEF Close, disk, memory
  <2>4. CASE WriteRoot
    BY <2>4 DEF WriteRoot, memory
  <2>5. CASE WriteCount
    BY <2>5 DEF WriteCount, FirstPage, memory
  <2>16. CASE FailWrite
    BY <2>16 DEF FailWrite, disk, memory
  <2>6. CASE FlushNext
    <3>1. task.next \in PageId /\ task' \in [at : {"flush"}, next : 0 .. num_pages]
      BY <2>6 DEF FlushNext, PagesToFlush, NextToFlush
    <3>2. UNCHANGED <<root_pid, num_pages, file>> /\ WriteBack(task.next)
      BY <2>6 DEF FlushNext
    <3>3. CASE pages[task.next] = Null
      BY <3>1, <3>2, <3>3 DEF WriteBack, disk
    <3>4. CASE pages[task.next] # Null
      <4>1. /\ disk_pages' = [disk_pages EXCEPT ![task.next] = pages[task.next]]
            /\ disk_length' = LongerFile(task.next)
            /\ UNCHANGED disk_meta
            /\ pages' = [pages EXCEPT ![task.next] = Null]
        BY <3>2, <3>4 DEF WriteBack, Sync
      <4>2. disk_pages' \in [PageId -> Content \cup {Hole}]
        BY <3>1, <3>4, <4>1
      <4>3. disk_length' \in 0 .. TABLE_MAX_PAGES
        BY <3>1, <4>1 DEF LongerFile
      <4>4. pages' \in [PageId -> Content \cup {Null}]
        BY <3>1, <4>1
      <4> QED
        BY <3>1, <3>2, <4>1, <4>2, <4>3, <4>4
    <3> QED
      BY <3>3, <3>4
  <2>7. CASE Finish
    BY <2>7 DEF Finish, EmptyMemory, disk
  <2>8. CASE Crash
    BY <2>8 DEF Crash, Die, EmptyMemory, disk
  <2>9. ASSUME NEW p \in PageId, LoadPage(p)
        PROVE  PagerTypeOK'
    BY <2>9 DEF LoadPage, InFile, disk
  <2>10. ASSUME NEW p \in PageId, FailShortRead(p)
         PROVE  PagerTypeOK'
    BY <2>10 DEF FailShortRead, Die, EmptyMemory, disk
  <2>11. ASSUME NEW p \in PageId, SetRoot(p)
         PROVE  PagerTypeOK'
    BY <2>11 DEF SetRoot, disk
  <2>12. ASSUME NEW p \in PageId, FlushPage(p)
         PROVE  PagerTypeOK'
    <3>1. /\ disk_pages' = [disk_pages EXCEPT ![p] = pages[p]]
          /\ disk_length' = LongerFile(p)
          /\ pages' = [pages EXCEPT ![p] = Null]
          /\ UNCHANGED <<root_pid, num_pages, task, disk_meta>>
      BY <2>12 DEF FlushPage, WriteBack, Sync
    <3>2. disk_pages' \in [PageId -> Content \cup {Hole}]
      BY <2>12, <3>1 DEF FlushPage
    <3>3. disk_length' \in 0 .. TABLE_MAX_PAGES
      BY <3>1 DEF LongerFile
    <3> QED
      BY <2>12, <3>1, <3>2, <3>3 DEF FlushPage
  <2>13. ASSUME NEW p \in PageId, NEW content \in Content, WritePage(p, content)
         PROVE  PagerTypeOK'
    BY <2>13 DEF WritePage, disk
  <2>14. ASSUME NEW content \in Content, Allocate(content)
         PROVE  PagerTypeOK'
    BY <2>14 DEF Allocate, disk
  <2>15. CASE UNCHANGED vars
    BY <2>15 DEF vars, memory, disk
  <2> QED
    BY <2>1, <2>2, <2>3, <2>4, <2>5, <2>6, <2>7, <2>8, <2>9, <2>10, <2>11,
       <2>12, <2>13, <2>14, <2>15, <2>16 DEF Next
<1> QED
  BY <1>1, <1>2, PTL DEF CrashSpec
------------------------------------------------------------------------------
(***************************************************************************)
(* The inductive invariant.  A page that is not in memory is in the file   *)
(* and somebody wrote it: that is so at first because the file was whole   *)
(* when it was opened, and stays so because a page leaves memory only by   *)
(* being written.  It is what makes the file whole again when the flush    *)
(* loop is through, once one knows that the loop left nothing behind it,   *)
(* that the file never has more pages than are allocated and that the      *)
(* metadata the loop found in the file are those in memory.                *)
(***************************************************************************)
Homes ==
  file # "damaged" =>
    \A p \in Allocated \ Cached : p < disk_length /\ disk_pages[p] # Hole

NoLonger ==
  file # "damaged" /\ task.at # "none" => disk_length <= num_pages

WholeFile ==
  file \in {"absent", "complete"} =>
    /\ disk_meta.num_pages = disk_length
    /\ \A p \in PageId : p < disk_length => disk_pages[p] # Hole

FlushedPrefix ==
  task.at = "flush" => \A p \in PageId : p < task.next => pages[p] = Null

MetaWritten ==
  /\ task.at \in {"allocate_count", "close_count"} => disk_meta.root_pid = root_pid
  /\ task.at = "flush" => /\ disk_meta.root_pid = root_pid
                          /\ disk_meta.num_pages = num_pages

FileStates ==
  /\ task.at = "none" => file # "changing"
  /\ task.at # "none" => file # "absent"
  /\ task.at \in {"allocate_count", "close_count", "flush"} => file # "complete"

IInv == PagerTypeOK /\ Homes /\ NoLonger /\ WholeFile /\ FlushedPrefix /\ MetaWritten /\ FileStates

LEMMA InitIInv == Init => IInv
  BY DEF Init, IInv, PagerTypeOK, EmptyMemory, PageId, NoProcess, Homes, NoLonger, WholeFile,
         FlushedPrefix, MetaWritten, FileStates, Allocated, Cached

(***************************************************************************)
(* What flush_page does to memory and file, for a page that may be cached. *)
(***************************************************************************)
LEMMA WriteBackEffect ==
  ASSUME PagerTypeOK, NEW p \in PageId, WriteBack(p)
  PROVE  /\ pages' = [pages EXCEPT ![p] = Null]
         /\ disk_length' >= disk_length
         /\ disk_length' \in Nat
         /\ disk_length' = disk_length \/ disk_length' = p + 1
         /\ pages[p] # Null => p < disk_length'
         /\ disk_meta' = disk_meta
         /\ disk_pages' = IF pages[p] = Null THEN disk_pages
                                             ELSE [disk_pages EXCEPT ![p] = pages[p]]
<1>1. CASE pages[p] = Null
  <2>1. pages' = pages /\ UNCHANGED disk
    BY <1>1 DEF WriteBack
  <2>2. pages = [pages EXCEPT ![p] = Null]
    BY <1>1 DEF PagerTypeOK
  <2> QED
    BY <1>1, <2>1, <2>2 DEF disk, PagerTypeOK
<1>2. CASE pages[p] # Null
  BY <1>2 DEF WriteBack, Sync, LongerFile, PagerTypeOK, PageId
<1> QED
  BY <1>1, <1>2

LEMMA StepIInv == IInv /\ PagerTypeOK' /\ [Next \/ Crash]_vars => IInv'
<1> SUFFICES ASSUME IInv, PagerTypeOK', [Next \/ Crash]_vars
             PROVE  IInv'
  OBVIOUS
<1> USE DEF IInv, Allocated, Cached, Ready, NoProcess, AllocateRoot,
            AllocateCount, CloseRoot, CloseCount, Flush, Changed, Closed, Died,
            Homes, NoLonger, WholeFile, FlushedPrefix, MetaWritten, FileStates
<1>1. CASE Create
  BY <1>1 DEF Create, EmptyMemory, PagerTypeOK, PageId
<1>2. CASE Open
  BY <1>2 DEF Open, disk, PagerTypeOK, PageId
<1>3. CASE Close
  BY <1>3 DEF Close, disk, memory
<1>4. CASE WriteRoot
  BY <1>4 DEF WriteRoot, memory, PagerTypeOK
<1>16. CASE FailWrite
  BY <1>16 DEF FailWrite, disk, memory
<1>5. CASE WriteCount
  BY <1>5 DEF WriteCount, FirstPage, memory, PagerTypeOK, PageId
<1>6. CASE FlushNext
  <2>1. task.next \in PageId /\ task.next < num_pages /\ task' = Flush(task.next + 1)
    BY <1>6 DEF FlushNext, PagesToFlush, NextToFlush, PagerTypeOK, PageId
  <2>2. UNCHANGED <<root_pid, num_pages, file>> /\ WriteBack(task.next) /\ task.at = "flush"
    BY <1>6 DEF FlushNext
  <2>3. /\ pages' = [pages EXCEPT ![task.next] = Null]
        /\ disk_length' >= disk_length
        /\ disk_length' \in {disk_length, task.next + 1}
        /\ pages[task.next] # Null => task.next < disk_length'
        /\ disk_meta' = disk_meta
        /\ disk_pages' = IF pages[task.next] = Null THEN disk_pages
                         ELSE [disk_pages EXCEPT ![task.next] = pages[task.next]]
    BY <2>1, <2>2, WriteBackEffect
  <2>4. Homes'
    <3> SUFFICES ASSUME file # "damaged", NEW p \in Allocated, p \notin Cached'
                 PROVE  p < disk_length' /\ disk_pages'[p] # Hole
      BY <2>2
    <3>1. CASE p = task.next
      BY <2>1, <2>3, <3>1 DEF PagerTypeOK, PageId
    <3>2. CASE p # task.next
      <4>1. p \in PageId /\ p \notin Cached
        BY <2>1, <2>3, <3>2 DEF PagerTypeOK, PageId
      <4>2. p < disk_length /\ disk_pages[p] # Hole
        BY <4>1
      <4> QED
        BY <2>1, <2>3, <3>2, <4>1, <4>2 DEF PagerTypeOK, PageId
    <3> QED
      BY <3>1, <3>2
  <2>5. NoLonger'
    BY <2>1, <2>2, <2>3 DEF PagerTypeOK, PageId
  <2>6. WholeFile'
    BY <2>2
  <2>7. FlushedPrefix' /\ MetaWritten' /\ FileStates'
    BY <2>1, <2>2, <2>3 DEF PagerTypeOK, PageId
  <2> QED
    BY <2>4, <2>5, <2>6, <2>7
<1>7. CASE Finish
  <2>1. task.at = "flush" /\ task.next = num_pages
    BY <1>7 DEF Finish, PagesToFlush, PagerTypeOK
  <2>2. ASSUME file # "damaged", NEW p \in PageId, p < num_pages
        PROVE  p < disk_length /\ disk_pages[p] # Hole
    <3>1. pages[p] = Null
      BY <2>1, <2>2 DEF PagerTypeOK
    <3> QED
      BY <2>2, <3>1 DEF PagerTypeOK, PageId
  <2>3. file # "damaged" => num_pages = disk_length
    <3> SUFFICES ASSUME file # "damaged", num_pages # disk_length
                 PROVE  FALSE
      OBVIOUS
    <3>1. /\ num_pages - 1 \in PageId
          /\ num_pages - 1 < num_pages
          /\ num_pages - 1 >= disk_length
      BY <2>1 DEF PagerTypeOK, PageId
    <3>2. num_pages - 1 < disk_length
      BY <2>2, <3>1
    <3> QED
      BY <3>1, <3>2 DEF PagerTypeOK, PageId
  <2> QED
    BY <1>7, <2>1, <2>2, <2>3 DEF Finish, EmptyMemory, disk, PagerTypeOK, PageId
<1>8. CASE Crash
  BY <1>8 DEF Crash, Die, EmptyMemory, disk
<1>9. ASSUME NEW p \in PageId, LoadPage(p)
      PROVE  IInv'
  BY <1>9 DEF LoadPage, disk, PagerTypeOK
<1>10. ASSUME NEW p \in PageId, FailShortRead(p)
       PROVE  IInv'
  BY <1>10 DEF FailShortRead, Die, EmptyMemory, disk
<1>11. ASSUME NEW p \in PageId, SetRoot(p)
       PROVE  IInv'
  BY <1>11 DEF SetRoot, disk
<1>12. ASSUME NEW p \in PageId, FlushPage(p)
       PROVE  IInv'
  <2>1. WriteBack(p) /\ pages[p] # Null
    BY <1>12 DEF FlushPage
  <2> QED
    BY <1>12, <2>1, WriteBackEffect DEF FlushPage, PagerTypeOK, PageId
<1>13. ASSUME NEW p \in PageId, NEW content \in Content, WritePage(p, content)
       PROVE  IInv'
  BY <1>13 DEF WritePage, disk, PagerTypeOK
<1>14. ASSUME NEW content \in Content, Allocate(content)
       PROVE  IInv'
  BY <1>14 DEF Allocate, disk, PagerTypeOK, PageId
<1>15. CASE UNCHANGED vars
  BY <1>15 DEF vars, memory, disk, PagerTypeOK
<1> QED
  BY <1>1, <1>2, <1>3, <1>4, <1>5, <1>6, <1>7, <1>8, <1>9, <1>10, <1>11,
     <1>12, <1>13, <1>14, <1>15, <1>16 DEF Next

LEMMA CrashInvariant == CrashSpec => []IInv
  BY InitIInv, StepIInv, TypeInvariant, PTL DEF CrashSpec

(***************************************************************************)
(* A file that was closed properly is whole, whatever crashed before.      *)
(***************************************************************************)
THEOREM ClosedFile == CrashSpec => []ClosedFileIsWhole
<1>1. IInv => ClosedFileIsWhole
  BY DEF IInv, WholeFile, ClosedFileIsWhole, PagerTypeOK, PageId
<1> QED
  BY <1>1, CrashInvariant, PTL

(***************************************************************************)
(* As long as no process dies, get_page never reads less than a page.      *)
(***************************************************************************)
THEOREM FullReads == Spec => []ReadsFullPages
<1> DEFINE Undamaged == file # "damaged"
<1>1. Init => Undamaged
  BY DEF Init
<1>2. IInv /\ Undamaged /\ [Next]_vars => Undamaged'
  <2> SUFFICES ASSUME IInv, Undamaged, [Next]_vars
               PROVE  Undamaged'
    OBVIOUS
  <2>1. ~\E p \in PageId : FailShortRead(p)
    BY DEF FailShortRead, IInv, Homes, PagerTypeOK, PageId, Allocated
  <2> QED
    BY <2>1 DEF Next, vars, Create, Open, Close, WriteRoot, WriteCount, FailWrite, FlushNext,
       Finish, LoadPage, SetRoot, FlushPage, WritePage, Allocate, Changed, Closed
<1>3. IInv /\ Undamaged => ReadsFullPages
  BY DEF IInv, Homes, ReadsFullPages
<1>4. Spec => CrashSpec
  <2>1. [Next]_vars => [Next \/ Crash]_vars
    OBVIOUS
  <2> QED
    BY <2>1, PTL DEF Spec, CrashSpec
<1> QED
  BY <1>1, <1>2, <1>3, <1>4, CrashInvariant, PTL DEF Spec
------------------------------------------------------------------------------
(***************************************************************************)
(* Refinement.  Once the file is damaged nothing is promised, so only the  *)
(* steps of an undamaged file have to be matched.                          *)
(***************************************************************************)
LEMMA InitRefines == Init => PS!Init
  BY DEF Init, PS!Init, Status, View, Saved, Unknown, PS!NoStore, NoProcess

LEMMA StepRefines == IInv /\ IInv' /\ [Next \/ Crash]_vars => [PS!Next]_(PS!psvars)
<1> SUFFICES ASSUME IInv, IInv', [Next \/ Crash]_vars
             PROVE  PS!Next \/ UNCHANGED <<Status, View, Saved>>
  BY DEF PS!psvars
<1> USE DEF IInv, FileStates, Ready, NoProcess, AllocateRoot, AllocateCount,
            CloseRoot, CloseCount, Flush, Changed, Closed, Died
<1>a. ASSUME file = "damaged", file' = "damaged"
      PROVE  UNCHANGED <<Status, View, Saved>>
  BY <1>a DEF Status, View, Saved
<1>b. ASSUME task.at # "none", task'.at # "none",
             UNCHANGED <<root_pid, num_pages, file>>,
             \A p \in Allocated : PageInUse(p)' = PageInUse(p),
             UNCHANGED disk \/ file # "complete"
      PROVE  UNCHANGED <<Status, View, Saved>>
  <2>1. Status' = Status
    BY <1>b DEF Status
  <2>2. [p \in Allocated |-> PageInUse(p)]' = [p \in Allocated |-> PageInUse(p)]
    BY <1>b DEF Allocated
  <2>3. View' = View
    BY <1>b, <2>1, <2>2 DEF View
  <2>4. Saved' = Saved
    BY <1>b DEF Saved, InFile, disk
  <2> QED
    BY <2>1, <2>3, <2>4
<1>1. CASE Create
  <2>1. Status \in {"closed", "lost"} /\ Status' = "open"
    BY <1>1 DEF Create, Status
  <2>2. View' = Saved' /\ View' = PS!Empty
    BY <1>1, <2>1 DEF Create, View, Saved, PS!Empty, PS!Store, Snapshot,
                      EmptyMemory, Allocated
  <2> QED
    BY <2>1, <2>2 DEF PS!Create, PS!Next
<1>2. CASE Open
  <2>1. CASE file = "damaged"
    BY <1>2, <1>a, <2>1 DEF Open
  <2>2. CASE file = "complete"
    <3>1. Status = "closed" /\ Status' = "open" /\ Saved.known /\ Saved' = Saved
      BY <1>2, <2>2 DEF Open, Status, Saved, Snapshot, InFile, disk
    <3>2. Cached' = {}
      BY <1>2 DEF Open, Cached
    <3>3. \A p \in 0 .. disk_meta.num_pages - 1 : PageInUse(p)' = InFile(p)
      BY <1>2, <3>2 DEF Open, PageInUse, InFile, disk
    <3>4. View' = Saved
      BY <1>2, <2>2, <3>1, <3>3 DEF Open, View, Saved, Snapshot, Allocated
    <3> QED
      BY <3>1, <3>4 DEF PS!Open, PS!Next
  <2> QED
    BY <1>2, <2>1, <2>2 DEF Open, PagerTypeOK
<1>3. CASE Close
  BY <1>3, <1>b DEF Close, memory, disk, Allocated, PageInUse, InFile, Cached
<1>4. CASE WriteRoot
  <2>1. CASE file = "damaged"
    BY <1>4, <1>a, <2>1 DEF WriteRoot
  <2>2. CASE file = "changing"
    BY <1>4, <1>b, <2>2 DEF WriteRoot, memory, Allocated, PageInUse, InFile, Cached
  <2>3. CASE file = "complete"
    <3>1. Status = "open" /\ Status' = "open" /\ Saved' = Unknown /\ View' = View
      BY <1>4, <2>3 DEF WriteRoot, Status, Saved, View, memory, Allocated,
                        PageInUse, InFile, Cached, Snapshot
    <3> QED
      BY <3>1 DEF PS!Change, PS!Next, PS!NoStore, Unknown
  <2> QED
    BY <1>4, <2>1, <2>2, <2>3 DEF WriteRoot, PagerTypeOK
<1>17. CASE FailWrite
  BY <1>17, <1>b DEF FailWrite, memory, disk, Allocated, PageInUse, InFile, Cached
<1>5. CASE WriteCount
  BY <1>5, <1>b DEF WriteCount, FirstPage, memory, Allocated, PageInUse, InFile, Cached
<1>6. CASE FlushNext
  <2>1. task.next \in PageId /\ task.next < num_pages /\ task' = Flush(task.next + 1)
    BY <1>6 DEF FlushNext, PagesToFlush, NextToFlush, PagerTypeOK, PageId
  <2>2. UNCHANGED <<root_pid, num_pages, file>> /\ WriteBack(task.next)
        /\ task.at = "flush"
    BY <1>6 DEF FlushNext
  <2>3. \A p \in Allocated : PageInUse(p)' = PageInUse(p)
    BY <2>1, <2>2, WriteBackEffect DEF PagerTypeOK, PageId, Allocated, PageInUse, InFile, Cached
  <2> QED
    BY <1>b, <2>1, <2>2, <2>3
<1>7. CASE Finish
  <2>1. CASE file = "damaged"
    BY <1>7, <1>a, <2>1 DEF Finish
  <2>2. CASE file = "changing"
    <3>1. Status = "open" /\ Status' = "closed" /\ View' = Unknown
      BY <1>7, <2>2 DEF Finish, Status, View
    <3>2. task.at = "flush" /\ task.next = num_pages
      BY <1>7 DEF Finish, PagesToFlush, PagerTypeOK
    <3>3. \A p \in Allocated : PageInUse(p) = InFile(p)
      BY <3>2 DEF FlushedPrefix, PagerTypeOK, Allocated, PageId, PageInUse, InFile, Cached
    <3>4. Saved' = View
      BY <1>7, <2>2, <3>1, <3>2, <3>3
      DEF Finish, MetaWritten, Saved, View, Snapshot, Allocated, InFile, disk
    <3> QED
      BY <3>1, <3>4 DEF PS!Close, PS!Next, PS!NoStore, Unknown
  <2> QED
    BY <1>7, <2>1, <2>2 DEF Finish, PagerTypeOK
<1>8. ASSUME task.at # "none", Die
      PROVE  PS!Next \/ UNCHANGED <<Status, View, Saved>>
  <2>1. CASE file = "damaged"
    BY <1>8, <1>a, <2>1 DEF Die
  <2>2. CASE file # "damaged"
    <3>1. /\ Status = "open" /\ View' = Unknown
          /\ Saved.known = (file = "complete")
          /\ Status' = IF file = "complete" THEN "closed" ELSE "lost"
      BY <1>8, <2>2 DEF Die, Status, View, Saved, Unknown, Snapshot, PagerTypeOK
    <3>2. Saved' = Saved
      BY <1>8, <2>2 DEF Die, Saved, Snapshot, InFile, disk, PagerTypeOK
    <3> QED
      BY <3>1, <3>2 DEF PS!Crash, PS!Next, PS!NoStore, Unknown
  <2> QED
    BY <2>1, <2>2
<1>9. ASSUME NEW p \in PageId, LoadPage(p)
      PROVE  UNCHANGED <<Status, View, Saved>>
  BY <1>9, <1>b DEF LoadPage, disk, Allocated, PageInUse, InFile, Cached, PagerTypeOK
<1>10. ASSUME NEW p \in PageId, SetRoot(p)
       PROVE  PS!Next \/ UNCHANGED <<Status, View, Saved>>
  <2>1. CASE file = "damaged"
    BY <1>10, <1>a, <2>1 DEF SetRoot
  <2>2. CASE file # "damaged"
    <3>1. Status = "open" /\ Status' = "open" /\ Saved' = Saved
      BY <1>10, <2>2 DEF SetRoot, Status, Saved, Snapshot, InFile, disk
    <3>2. [q \in Allocated |-> PageInUse(q)]' = [q \in Allocated |-> PageInUse(q)]
      BY <1>10 DEF SetRoot, Allocated, PageInUse, InFile, Cached, disk
    <3>3. View' = Snapshot(p, num_pages, [q \in Allocated |-> PageInUse(q)])
      BY <1>10, <3>1, <3>2 DEF SetRoot, View, Snapshot
    <3>4. View = Snapshot(root_pid, num_pages, [q \in Allocated |-> PageInUse(q)])
      BY <3>1 DEF View
    <3>5. View' = PS!Store(p, View.size, View.contents)
      BY <3>3, <3>4 DEF Snapshot, PS!Store
    <3> QED
      BY <3>1, <3>5 DEF PS!SetRoot, PS!Next
  <2> QED
    BY <2>1, <2>2
<1>11. ASSUME NEW p \in PageId, FlushPage(p)
       PROVE  PS!Next \/ UNCHANGED <<Status, View, Saved>>
  <2>1. WriteBack(p) /\ task.at = "ready" /\ task' = task
    BY <1>11 DEF FlushPage
  <2>2. \A q \in Allocated : PageInUse(q)' = PageInUse(q)
    BY <1>11, <2>1, WriteBackEffect
    DEF FlushPage, PagerTypeOK, PageId, Allocated, PageInUse, InFile, Cached
  <2>3. CASE file # "complete"
    BY <1>11, <1>b, <2>1, <2>2, <2>3 DEF FlushPage
  <2>4. CASE file = "complete"
    <3>1. Status = "open" /\ Status' = "open" /\ Saved' = Unknown
      BY <1>11, <2>4 DEF FlushPage, Status, Saved
    <3>2. View' = View
      BY <1>11, <2>2, <3>1 DEF FlushPage, View, Snapshot, Allocated
    <3> QED
      BY <3>1, <3>2 DEF PS!Change, PS!Next, PS!NoStore, Unknown
  <2> QED
    BY <2>3, <2>4
<1>12. ASSUME NEW p \in PageId, NEW content \in Content, WritePage(p, content)
       PROVE  PS!Next \/ UNCHANGED <<Status, View, Saved>>
  <2>1. CASE file = "damaged"
    BY <1>12, <1>a, <2>1 DEF WritePage
  <2>2. CASE file # "damaged"
    <3>1. Status = "open" /\ Status' = "open" /\ Saved' = Saved
      BY <1>12, <2>2 DEF WritePage, Status, Saved, Snapshot, InFile, disk
    <3>2. p < View.size
      BY <1>12, <3>1 DEF WritePage, View, Snapshot, Allocated, PagerTypeOK
    <3>3. \A q \in Allocated :
            PageInUse(q)' = IF q = p THEN content ELSE PageInUse(q)
      BY <1>12 DEF WritePage, Allocated, PageInUse, InFile, Cached, PagerTypeOK, PageId, disk
    <3>4. [q \in Allocated |-> PageInUse(q)]' =
            [[q \in Allocated |-> PageInUse(q)] EXCEPT ![p] = content]
      BY <1>12, <3>3 DEF WritePage, Allocated
    <3>5. View = Snapshot(root_pid, num_pages, [q \in Allocated |-> PageInUse(q)])
      BY <3>1 DEF View
    <3>6. View' = Snapshot(root_pid, num_pages, [q \in Allocated |-> PageInUse(q)]')
      BY <1>12, <3>1 DEF WritePage, View, Snapshot
    <3>7. View' = PS!Store(View.root, View.size, [View.contents EXCEPT ![p] = content])
      BY <3>4, <3>5, <3>6 DEF Snapshot, PS!Store
    <3> QED
      BY <3>1, <3>2, <3>7 DEF PS!Write, PS!Next
  <2> QED
    BY <2>1, <2>2
<1>13. ASSUME NEW content \in Content, Allocate(content)
       PROVE  PS!Next \/ UNCHANGED <<Status, View, Saved>>
  <2>1. CASE file = "damaged"
    BY <1>13, <1>a, <2>1 DEF Allocate
  <2>2. CASE file # "damaged"
    <3>1. Status = "open" /\ Status' = "open" /\ Saved' = Saved
      BY <1>13, <2>2 DEF Allocate, Status, Saved, Snapshot, InFile, disk
    <3>2. \A q \in 0 .. num_pages :
            PageInUse(q)' = IF q = num_pages THEN content ELSE PageInUse(q)
      BY <1>13 DEF Allocate, PageInUse, InFile, Cached, PagerTypeOK, PageId, disk
    <3>3. View' = PS!Store(View.root, View.size + 1,
                    [q \in 0 .. View.size |->
                       IF q = View.size THEN content ELSE View.contents[q]])
      <4>1. View = Snapshot(root_pid, num_pages, [q \in Allocated |-> PageInUse(q)])
        BY <3>1 DEF View
      <4>2. View' = Snapshot(root_pid, num_pages + 1,
                             [q \in Allocated |-> PageInUse(q)]')
        BY <1>13, <3>1 DEF Allocate, View, Snapshot
      <4>3. Allocated' = 0 .. num_pages
        BY <1>13 DEF Allocate, Allocated, PagerTypeOK
      <4>4. [q \in Allocated |-> PageInUse(q)]' =
              [q \in 0 .. num_pages |->
                 IF q = num_pages THEN content
                 ELSE [r \in Allocated |-> PageInUse(r)][q]]
        BY <3>2, <4>3 DEF Allocated, PagerTypeOK
      <4> QED
        BY <4>1, <4>2, <4>4 DEF Snapshot, PS!Store
    <3> QED
      BY <3>1, <3>3 DEF PS!Allocate, PS!Next
  <2> QED
    BY <2>1, <2>2
<1>14. CASE UNCHANGED vars
  BY <1>14 DEF vars, memory, disk, Status, View, Saved, Allocated, PageInUse, InFile, Cached
<1>15. ASSUME NEW p \in PageId, FailShortRead(p)
       PROVE  PS!Next \/ UNCHANGED <<Status, View, Saved>>
  BY <1>8, <1>15 DEF FailShortRead
<1>16. CASE Crash
  BY <1>8, <1>16 DEF Crash, PagerTypeOK
<1> QED
  BY <1>1, <1>2, <1>3, <1>4, <1>5, <1>6, <1>7, <1>9, <1>10, <1>11,
     <1>12, <1>13, <1>14, <1>15, <1>16, <1>17 DEF Next

(***************************************************************************)
(* The pager is a page store: what was written reads back, is the same     *)
(* after close and open, and a crash before the file was touched takes     *)
(* the file back to its last close.                                        *)
(***************************************************************************)
THEOREM Refinement == CrashSpec => ImplementsPageStore
<1>1. CrashSpec => PS!Init /\ [][PS!Next]_(PS!psvars)
  BY InitRefines, StepRefines, CrashInvariant, PTL DEF CrashSpec
<1> QED
  BY <1>1 DEF ImplementsPageStore, PS!Spec
==============================================================================
