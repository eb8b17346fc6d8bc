-------------------------------- MODULE Pager --------------------------------
(***************************************************************************)
(* class BTreePager with its BtreeMetaData (src/src/core/dbfile.h,         *)
(* dbfile.cpp): a file of 16 bytes of metadata followed by pages, and a    *)
(* cache of pages that is never evicted and is written back when the pager *)
(* is destroyed.                                                           *)
(*                                                                         *)
(* Every write(2) to the file is a step of its own, so that the process    *)
(* may die between any two of them.  What write(2) has written stays in    *)
(* the file: power failures, which would matter because nothing is synced, *)
(* are not modelled.                                                       *)
(***************************************************************************)
EXTENDS Integers, FiniteSets

CONSTANTS
  TABLE_MAX_PAGES,  \* bound: slots of the page array
  Content,          \* what a page may hold, as far as the pager can tell
  Zero,             \* a page of zero bytes
  Hole,             \* a page of the file that nobody wrote; it reads as Zero
  Null              \* nullptr in the page array

ASSUME PagerAssumption ==
  /\ TABLE_MAX_PAGES \in Nat \ {0}
  /\ Zero \in Content
  /\ Null \notin Content
  /\ Hole \notin Content

VARIABLES
  root_pid,     \* BtreeMetaData, in memory
  num_pages,
  pages,        \* the cache
  task,         \* what the process is in the middle of
  disk_meta,    \* the metadata in the file; what is missing reads as 0
  disk_pages,   \* the pages in the file
  disk_length,  \* how many complete pages the file has
  file          \* what is known of the file (of no effect on the program)

memory == <<root_pid, num_pages, pages>>
disk == <<disk_meta, disk_pages, disk_length>>
vars == <<memory, task, disk, file>>

PageId == 0 .. TABLE_MAX_PAGES - 1
Allocated == 0 .. num_pages - 1
Cached == {p \in PageId : pages[p] # Null}

NoProcess == [at |-> "none"]
Ready == [at |-> "ready"]
AllocateRoot == [at |-> "allocate_root"]    \* write_to_disk is about to write
AllocateCount == [at |-> "allocate_count"]  \*   root_pid, then num_pages
CloseRoot == [at |-> "close_root"]          \* and the same in ~BTreePager
CloseCount == [at |-> "close_count"]
Flush(i) == [at |-> "flush", next |-> i]    \* its loop

EmptyMemory(root, pids, cache) ==
  root = 0 /\ pids = 0 /\ cache = [p \in PageId |-> Null]

Init ==
  /\ EmptyMemory(root_pid, num_pages, pages)
  /\ task = NoProcess
  /\ disk_meta = [root_pid |-> 0, num_pages |-> 0]
  /\ disk_pages = [p \in PageId |-> Hole]
  /\ disk_length = 0
  /\ file = "absent"

(***************************************************************************)
(* The file is what the last close or create left; a session has changed   *)
(* it; or a process died after changing it.                                *)
(***************************************************************************)
Changed(f) == IF f = "complete" THEN "changing" ELSE f
Closed(f) == IF f = "changing" THEN "complete" ELSE f
Died(f) == IF f = "changing" THEN "damaged" ELSE f

(***************************************************************************)
(* The process ends without running a destructor.                          *)
(***************************************************************************)
Die ==
  /\ task' = NoProcess
  /\ file' = Died(file)
  /\ EmptyMemory(root_pid', num_pages', pages')
  /\ UNCHANGED disk

(***************************************************************************)
(* The constructor, mode 'c': O_TRUNC.                                     *)
(***************************************************************************)
Create ==
  /\ task = NoProcess
  /\ EmptyMemory(root_pid', num_pages', pages')
  /\ disk_meta' = [root_pid |-> 0, num_pages |-> 0]
  /\ disk_pages' = [p \in PageId |-> Hole]
  /\ disk_length' = 0
  /\ task' = Ready
  /\ file' = "complete"

(***************************************************************************)
(* The constructor, mode 'o'.                                              *)
(***************************************************************************)
OpenWithoutRoot ==
  /\ task = NoProcess
  /\ file # "absent"
  /\ root_pid' = 0
  /\ num_pages' = disk_meta.num_pages
  /\ pages' = [p \in PageId |-> Null]
  /\ task' = Ready
  /\ UNCHANGED <<disk, file>>

Open ==
  /\ task = NoProcess
  /\ file # "absent"
  /\ root_pid' = disk_meta.root_pid
  /\ num_pages' = disk_meta.num_pages
  /\ pages' = [p \in PageId |-> Null]
  /\ task' = Ready
  /\ UNCHANGED <<disk, file>>

(***************************************************************************)
(* get_page of a page that is not cached.  A page beyond the end of the    *)
(* file fails the assertion that PAGE_SIZE bytes were read, and the        *)
(* process aborts.                                                         *)
(***************************************************************************)
InFile(p) == IF disk_pages[p] = Hole THEN Zero ELSE disk_pages[p]

LoadPage(p) ==
  /\ task = Ready
  /\ p \in Allocated \ Cached
  /\ p < disk_length
  /\ pages' = [pages EXCEPT ![p] = InFile(p)]
  /\ UNCHANGED <<root_pid, num_pages, task, disk, file>>

FailShortRead(p) ==
  /\ task = Ready
  /\ p \in Allocated \ Cached
  /\ p >= disk_length
  /\ Die

(***************************************************************************)
(* The tree writes through the pointer that get_page or allocate_page      *)
(* returned, and moves the root in memory.                                 *)
(***************************************************************************)
WritePage(p, content) ==
  /\ task = Ready
  /\ p \in Allocated \cap Cached
  /\ pages' = [pages EXCEPT ![p] = content]
  /\ UNCHANGED <<root_pid, num_pages, task, disk, file>>

SetRoot(p) ==
  /\ task = Ready
  /\ p \in Allocated
  /\ root_pid' = p
  /\ UNCHANGED <<num_pages, pages, task, disk, file>>

(***************************************************************************)
(* allocate_page: a malloc'ed page of unknown content takes the next       *)
(* number, and the metadata is written at once, the page is not.           *)
(***************************************************************************)
Allocate(content) ==
  /\ task = Ready
  /\ num_pages < TABLE_MAX_PAGES
  /\ num_pages' = num_pages + 1
  /\ pages' = [pages EXCEPT ![num_pages] = content]
  /\ task' = AllocateRoot
  /\ UNCHANGED <<root_pid, disk, file>>

(***************************************************************************)
(* BtreeMetaData::write_to_disk, one write(2) per number.                  *)
(***************************************************************************)
WriteRoot ==
  /\ \/ task = AllocateRoot /\ task' = AllocateCount
     \/ task = CloseRoot /\ task' = CloseCount
  /\ disk_meta' = [disk_meta EXCEPT !.root_pid = root_pid]
  /\ file' = Changed(file)
  /\ UNCHANGED <<memory, disk_pages, disk_length>>

SecondPage == 1
FirstPage == 0   \* where the loop of ~BTreePager starts

WriteCount ==
  /\ \/ task = AllocateCount /\ task' = Ready
     \/ task = CloseCount /\ task' = Flush(FirstPage)
  /\ disk_meta' = [disk_meta EXCEPT !.num_pages = num_pages]
  /\ UNCHANGED <<memory, disk_pages, disk_length, file>>

(***************************************************************************)
(* write(2) fails in allocate_page.  exit() then runs the destructor, for  *)
(* the pager is a static object, and that starts with the metadata again.  *)
(* A write(2) that fails in the destructor ends the process: Crash.        *)
(***************************************************************************)
FailWrite ==
  /\ task \in {AllocateRoot, AllocateCount}
  /\ task' = CloseRoot
  /\ UNCHANGED <<memory, disk, file>>

(***************************************************************************)
(* sync: writing beyond the end of the file leaves a hole before the page. *)
(***************************************************************************)
LongerFileByOne(p) == disk_length + 1
LongerFile(p) == IF p < disk_length THEN disk_length ELSE p + 1

SyncWithoutHeader(p) ==   \* page_start = page_id * PAGE_SIZE
  /\ disk_pages' = [disk_pages EXCEPT ![p] = pages[p]]
  /\ disk_length' = LongerFile(p)
  /\ disk_meta' = IF p = 0 THEN [root_pid |-> 0, num_pages |-> 0] ELSE disk_meta

Sync(p) ==
  /\ disk_pages' = [disk_pages EXCEPT ![p] = pages[p]]
  /\ disk_length' = LongerFile(p)
  /\ UNCHANGED disk_meta

(***************************************************************************)
(* flush_page, which does nothing for a page that is not cached.           *)
(***************************************************************************)
WriteBackNothing(p) ==
  pages' = [pages EXCEPT ![p] = Null] /\ UNCHANGED disk

WriteBack(p) ==
  IF pages[p] = Null
  THEN UNCHANGED <<pages, disk>>
  ELSE Sync(p) /\ pages' = [pages EXCEPT ![p] = Null]

FlushPage(p) ==
  /\ task = Ready
  /\ p \in Allocated \cap Cached
  /\ WriteBack(p)
  /\ file' = Changed(file)
  /\ UNCHANGED <<root_pid, num_pages, task>>

(***************************************************************************)
(* ~BTreePager, when the program exits: on the command .exit, and when     *)
(* get_page refuses a page number beyond num_pages.  It writes the         *)
(* metadata and then each page.                                            *)
(***************************************************************************)
Close ==
  /\ task = Ready
  /\ task' = CloseRoot
  /\ UNCHANGED <<memory, disk, file>>

PagesToFlush == num_pages   \* and where it ends

NextToFlushSame(i) == i
NextToFlush(i) == i + 1

FlushNext ==
  /\ task.at = "flush"
  /\ task.next < PagesToFlush
  /\ WriteBack(task.next)
  /\ task' = Flush(NextToFlush(task.next))
  /\ UNCHANGED <<root_pid, num_pages, file>>

Finish ==
  /\ task.at = "flush"
  /\ task.next >= PagesToFlush
  /\ task' = NoProcess
  /\ file' = Closed(file)
  /\ EmptyMemory(root_pid', num_pages', pages')
  /\ UNCHANGED disk

(***************************************************************************)
(* The process is killed, or aborts in an assertion of the tree.           *)
(***************************************************************************)
Crash ==
  /\ task # NoProcess
  /\ Die

Next ==
  \/ Create \/ Open \/ Close
  \/ WriteRoot \/ WriteCount \/ FailWrite \/ FlushNext \/ Finish
  \/ \E p \in PageId : LoadPage(p) \/ FailShortRead(p) \/ SetRoot(p) \/ FlushPage(p)
  \/ \E p \in PageId, content \in Content : WritePage(p, content)
  \/ \E content \in Content : Allocate(content)

Spec == Init /\ [][Next]_vars
CrashSpec == Init /\ [][Next \/ Crash]_vars

(***************************************************************************)
(* A process that started to close finishes: the destructor is a loop over *)
(* system calls that waits for nobody.                                     *)
(***************************************************************************)
FairSpec == Spec /\ WF_vars(WriteRoot \/ WriteCount \/ FlushNext \/ Finish)
------------------------------------------------------------------------------
PagerTypeOK ==
  /\ root_pid \in PageId
  /\ num_pages \in 0 .. TABLE_MAX_PAGES
  /\ pages \in [PageId -> Content \cup {Null}]
  /\ task \in [at : {"none", "ready", "allocate_root", "allocate_count",
                     "close_root", "close_count"}]
               \cup [at : {"flush"}, next : 0 .. num_pages]
  /\ disk_meta \in [root_pid : PageId, num_pages : 0 .. TABLE_MAX_PAGES]
  /\ disk_pages \in [PageId -> Content \cup {Hole}]
  /\ disk_length \in 0 .. TABLE_MAX_PAGES
  /\ file \in {"absent", "complete", "changing", "damaged"}

(***************************************************************************)
(* get_page of an allocated page reads PAGE_SIZE bytes (the assertion      *)
(* nbytes == PAGE_SIZE, dbfile.cpp:258): a page that is not in memory is   *)
(* completely in the file.                                                 *)
(***************************************************************************)
ReadsFullPages ==
  task = Ready => \A p \in Allocated \ Cached : p < disk_length

(***************************************************************************)
(* A file that no process has open and that was closed properly is whole:  *)
(* the metadata count exactly the pages that are there, and none of them   *)
(* is a hole nobody wrote.                                                 *)
(***************************************************************************)
ClosedFileIsWhole ==
  task = NoProcess /\ file = "complete" =>
    /\ disk_meta.num_pages = disk_length
    /\ \A p \in 0 .. disk_length - 1 : disk_pages[p] # Hole

(***************************************************************************)
(* Closing comes to an end.                                                *)
(***************************************************************************)
CloseFinishes == task = CloseRoot ~> task = NoProcess
------------------------------------------------------------------------------
(***************************************************************************)
(* The pager implements the page store.                                    *)
(***************************************************************************)
Status ==
  IF file = "damaged" THEN "lost"
  ELSE IF task = NoProcess THEN "closed" ELSE "open"

PageInUse(p) == IF p \in Cached THEN pages[p] ELSE InFile(p)

Unknown == [known |-> FALSE]
Snapshot(root, size, contents) ==
  [known |-> TRUE, root |-> root, size |-> size, contents |-> contents]

View ==
  IF Status = "open"
  THEN Snapshot(root_pid, num_pages, [p \in Allocated |-> PageInUse(p)])
  ELSE Unknown

Saved ==
  IF file = "complete"
  THEN Snapshot(disk_meta.root_pid, disk_meta.num_pages,
                [p \in 0 .. disk_meta.num_pages - 1 |-> InFile(p)])
  ELSE Unknown

PS == INSTANCE PageStore WITH status <- Status, view <- View, saved <- Saved

(***************************************************************************)
(* Pages and root read back as written last, survive close and open, and   *)
(* survive a crash of any session that has not touched the file yet.       *)
(***************************************************************************)
ImplementsPageStore == PS!Spec
==============================================================================
