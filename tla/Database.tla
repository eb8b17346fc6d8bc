------------------------------- MODULE Database -------------------------------
(***************************************************************************)
(* The program (src/src/main.cpp, command.cpp, global_variables.cpp): a    *)
(* B+ tree in one file, in sessions.  A session opens the file or creates  *)
(* it, executes commands on the tree and ends with .exit or a crash.       *)
(*                                                                         *)
(* This module extends the tree, module BPlusTree, with the file, which    *)
(* module Pager describes for any client.  Pages are loaded on demand, but *)
(* as a page that is not in memory does not change, the pages of a session *)
(* are taken from the file at once when it starts.  The ones the code      *)
(* would not have loaded are flushed as they were read, to no effect.      *)
(* A page that is counted by the metadata and not in the file, or that     *)
(* nobody wrote, has no node: its slot in the pager's page array stays     *)
(* empty for as long as no get_page asks for it (KeptFileOpens).           *)
(*                                                                         *)
(* The only thread makes the tree's steps and the writes in turn: a step   *)
(* that allocates a page is followed by the two writes of allocate_page,   *)
(* and these write the root as it was before the step.                     *)
(***************************************************************************)
EXTENDS BPlusTree

\* The command select asks for all rows.
ASSUME SelectAssumption == SelectRange = {<<0, UINT32_MAX>>}

VARIABLES
  task,         \* what the process is in the middle of
  disk_meta,    \* the metadata in the file; what is missing reads as 0
  disk_pages,   \* the pages in the file
  disk_length,  \* how many complete pages the file has
  file          \* what is known of the file (of no effect on the program)

memory == vars
disk == <<disk_meta, disk_pages, disk_length>>
databaseVars == <<memory, task, disk, file>>

NoProcess == [at |-> "none"]
Ready == [at |-> "ready"]
EndOfInput == [at |-> "end_of_input"]
AllocateRoot(root) == [at |-> "allocate_root", root |-> root]
AllocateCount == [at |-> "allocate_count"]
CloseRoot == [at |-> "close_root"]
CloseCount == [at |-> "close_count"]
Flush(i) == [at |-> "flush", next |-> i]

\* A page of the file to which nobody wrote a node.
Hole == [kind |-> "hole"]

(***************************************************************************)
(* The memory of a process with the tree of the file, and of none.         *)
(***************************************************************************)
Memory(ps, root, count) ==
  /\ pages' = ps /\ root_pid' = root /\ num_pages' = count
  /\ call' = Idle /\ reply' = NoReply

NoMemory == Memory([p \in PageId |-> NoPage], 0, 0)

DatabaseInit ==
  /\ pages = [p \in PageId |-> NoPage] /\ root_pid = 0 /\ num_pages = 0
  /\ call = Idle /\ reply = NoReply
  /\ task = NoProcess
  /\ disk_meta = [root_pid |-> 0, num_pages |-> 0]
  /\ disk_pages = [p \in PageId |-> Hole]
  /\ disk_length = 0
  /\ file = "absent"

(***************************************************************************)
(* `file': what the last .exit left, or still as good as that; replaced    *)
(* in part; or a process died after that.                                  *)
(***************************************************************************)
Died == IF file = "changing" THEN "damaged" ELSE file

Die ==
  /\ task' = NoProcess
  /\ file' = Died
  /\ NoMemory
  /\ UNCHANGED disk

(***************************************************************************)
(* initalize: a file that does not exist is created, and the constructor   *)
(* of the tree makes page 0 an empty root.                                 *)
(***************************************************************************)
Create ==
  /\ task = NoProcess
  /\ file = "absent"
  /\ Memory([p \in PageId |-> IF p = 0
               THEN LeafNode(TRUE, NODE_PARENT_INVALID, <<>>, <<>>) ELSE NoPage],
            0, 1)
  /\ task' = AllocateRoot(0)
  /\ file' = "changing"
  /\ UNCHANGED disk

(***************************************************************************)
(* A file that exists is opened: its root page must be one of those that   *)
(* the metadata count and the file holds.                                  *)
(***************************************************************************)
InFile(p) == p < disk_meta.num_pages /\ p < disk_length

RootReadable == InFile(disk_meta.root_pid)

PagesInFile ==
  [p \in PageId |-> IF InFile(p) /\ disk_pages[p] # Hole THEN disk_pages[p]
                                                        ELSE NoPage]

Open ==
  /\ task = NoProcess
  /\ file = "complete"
  /\ RootReadable
  /\ Memory(PagesInFile, disk_meta.root_pid, disk_meta.num_pages)
  /\ task' = Ready
  /\ UNCHANGED <<disk, file>>

(***************************************************************************)
(* The process exits or aborts when it asks for the root.  What a session  *)
(* does that gets past this with a damaged file is not modelled.           *)
(***************************************************************************)
FailStart ==
  /\ task = NoProcess
  /\ file # "absent"
  /\ ~RootReadable
  /\ UNCHANGED databaseVars

StartOnDamagedFile ==
  /\ task = NoProcess
  /\ file = "damaged"
  /\ RootReadable
  /\ UNCHANGED databaseVars

(***************************************************************************)
(* The commands insert and select, and the steps of an insert.             *)
(***************************************************************************)
InsertCommand(key, row) ==
  /\ task = Ready
  /\ Insert(key, row)
  /\ UNCHANGED <<task, disk, file>>

SelectCommand ==
  /\ task = Ready
  /\ Select(0, UINT32_MAX)
  /\ UNCHANGED <<task, disk, file>>

InsertStep ==
  /\ task = Ready
  /\ Step
  /\ task' = IF num_pages' = num_pages THEN Ready ELSE AllocateRoot(root_pid)
  /\ UNCHANGED <<disk, file>>

Replaced(changes) == IF file = "complete" /\ changes THEN "changing" ELSE file

(***************************************************************************)
(* One of the two writes of allocate_page fails.  The page is malloc'ed    *)
(* and counted by then, but not filled, and what the step would have done  *)
(* with it is not done: exit() runs the destructors in mid-insert.  A      *)
(* write that fails elsewhere runs no destructor (Crash): the tree's is    *)
(* not registered before its constructor returns, and exit() within a      *)
(* destructor that exit() called is the end.                               *)
(***************************************************************************)
NeedsPage ==
  \/ \E pos \in LeafPositions : AtLeaf(pos) /\ ~IsDuplicate(pos) /\ LeafIsFull
  \/ call.pc = "climb" /\ call.parent = NODE_PARENT_INVALID
  \/ \E pos \in ParentPositions : AtParent(pos) /\ ParentIsFull

FailAllocatePage ==
  /\ task = Ready
  /\ NeedsPage
  /\ num_pages < TABLE_MAX_PAGES
  /\ num_pages' = num_pages + 1
  /\ disk_meta' \in {disk_meta, [disk_meta EXCEPT !.root_pid = root_pid]}
  /\ file' = Replaced(disk_meta' # disk_meta)
  /\ task' = CloseRoot
  /\ UNCHANGED <<pages, root_pid, call, reply, disk_pages, disk_length>>

Unfilled(p) == pages[p] = NoPage /\ call # Idle /\ p = num_pages - 1

(***************************************************************************)
(* BtreeMetaData::write_to_disk.                                           *)
(***************************************************************************)
RootAtCloseOfFile == disk_meta.root_pid   \* as if ~BTreePager wrote no metadata
RootAtClose == root_pid

WriteRoot ==
  /\ \E root \in PageId :
       /\ \/ task = AllocateRoot(root) /\ task' = AllocateCount
          \/ task = CloseRoot /\ root = RootAtClose /\ task' = CloseCount
       /\ disk_meta' = [disk_meta EXCEPT !.root_pid = root]
  /\ file' = Replaced(disk_meta' # disk_meta)
  /\ UNCHANGED <<memory, disk_pages, disk_length>>

WriteCount ==
  /\ \/ task = AllocateCount /\ task' = Ready
     \/ task = CloseCount /\ task' = Flush(0)
  /\ disk_meta' = [disk_meta EXCEPT !.num_pages = num_pages]
  /\ UNCHANGED <<memory, disk_pages, disk_length, file>>

(***************************************************************************)
(* .exit runs the destructors of the static tree and of its pager.         *)
(***************************************************************************)
Exit ==
  /\ task = Ready
  /\ call = Idle
  /\ task' = CloseRoot
  /\ UNCHANGED <<memory, disk, file>>

PagesToFlushOfFile == IF disk_length = 0 THEN num_pages ELSE disk_length
PagesToFlush == num_pages

LongerFileByOne(p) == disk_length + 1
LongerFile(p) == IF p < disk_length THEN disk_length ELSE p + 1

FlushNext ==
  /\ task.at = "flush"
  /\ task.next < PagesToFlush
  /\ LET p == task.next IN
     \/ /\ pages[p] = NoPage /\ ~Unfilled(p)
        /\ UNCHANGED <<disk, file>>
     \/ /\ Unfilled(p)
        /\ disk_pages' = [disk_pages EXCEPT ![p] = Hole]
        /\ disk_length' = LongerFile(p)
        /\ UNCHANGED <<disk_meta, file>>
     \/ /\ pages[p] # NoPage
        /\ disk_pages' = [disk_pages EXCEPT ![p] = pages[p]]
        /\ disk_length' = LongerFile(p)
        /\ file' = Replaced(pages[p] # disk_pages[p])
        /\ UNCHANGED disk_meta
  /\ task' = Flush(task.next + 1)
  /\ UNCHANGED memory

(***************************************************************************)
(* The flushed tree is whole, unless an insert was cut off in its climb.   *)
(***************************************************************************)
Finish ==
  /\ task.at = "flush"
  /\ task.next >= PagesToFlush
  /\ task' = NoProcess
  /\ file' = IF call.pc = "climb" THEN Died ELSE "complete"
  /\ NoMemory
  /\ UNCHANGED disk

(***************************************************************************)
(* An insert with a name or an address of 32 characters or more fails an   *)
(* assertion in UserInfo::from_string.                                     *)
(***************************************************************************)
InsertLongField ==
  /\ task = Ready
  /\ call = Idle
  /\ Die

(***************************************************************************)
(* At the end of the input getline fails, and for ever after: the loop     *)
(* answers an empty line that no command is, again and again, and does not *)
(* come to the destructors.                                                *)
(***************************************************************************)
ReadNothing ==
  /\ task \in {Ready, EndOfInput}
  /\ call = Idle
  /\ task' = EndOfInput
  /\ UNCHANGED <<memory, disk, file>>

(***************************************************************************)
(* The process is killed.                                                  *)
(***************************************************************************)
Crash ==
  /\ task # NoProcess
  /\ Die

(***************************************************************************)
(* parse: what a line of input makes the loop of main do.  Any other line  *)
(* is answered with a message.                                             *)
(***************************************************************************)
Command ==
  \/ Exit \/ SelectCommand \/ InsertLongField
  \/ \E key \in Key, row \in Row : InsertCommand(key, row)

DatabaseNext ==
  \/ Create \/ Open \/ FailStart \/ StartOnDamagedFile
  \/ Command \/ ReadNothing \/ InsertStep \/ FailAllocatePage
  \/ WriteRoot \/ WriteCount \/ FlushNext \/ Finish
  \/ Crash

DatabaseSpec == DatabaseInit /\ [][DatabaseNext]_databaseVars
------------------------------------------------------------------------------
(***************************************************************************)
(* The pages of the file that are below its root, level by level.          *)
(***************************************************************************)
ChildrenOnDisk(p) ==
  IF InFile(p) /\ disk_pages[p].kind = "inner"
  THEN ToSet(disk_pages[p].children) ELSE {}

WithChildren(found) == found \cup UNION {ChildrenOnDisk(p) : p \in found}

SubtreeOnDisk ==
  LET found[level \in 0 .. TABLE_MAX_PAGES] ==
        IF level = 0 THEN {disk_meta.root_pid} ELSE WithChildren(found[level - 1])
  IN  found[TABLE_MAX_PAGES]

CellsOnDisk ==
  UNION {CellsOf(disk_pages[p]) :
           p \in {q \in SubtreeOnDisk : disk_pages[q].kind = "leaf"}}

(***************************************************************************)
(* Types.                                                                  *)
(***************************************************************************)
DatabaseTypeOK ==
  /\ num_pages \in 0 .. TABLE_MAX_PAGES
  /\ root_pid \in PageId
  /\ pages \in [PageId -> Node \cup {NoPage}]
  /\ task # NoProcess => call \in Call
  /\ task \in {NoProcess, Ready, EndOfInput, AllocateCount, CloseRoot, CloseCount}
             \cup {AllocateRoot(p) : p \in PageId}
             \cup {Flush(p) : p \in 0 .. num_pages}
  /\ disk_meta \in [root_pid : PageId, num_pages : 0 .. TABLE_MAX_PAGES]
  /\ disk_pages \in [PageId -> Node \cup {Hole}]
  /\ disk_length \in 0 .. TABLE_MAX_PAGES
  /\ file \in {"absent", "complete", "changing", "damaged"}

(***************************************************************************)
(* A file that was closed, and that no session has begun to replace since, *)
(* opens, and no get_page on the tree in it reads short: every page below  *)
(* the root is in the file and is a node.  Pages that a dead session only  *)
(* counted are not below the root (main.cpp:27, dbfile.cpp:276).           *)
(***************************************************************************)
KeptFileOpens ==
  file = "complete" =>
    /\ RootReadable
    /\ \A p \in SubtreeOnDisk :
         InFile(p) /\ disk_pages[p].kind \in {"leaf", "inner"}

(***************************************************************************)
(* Whatever a crash left of the file, a start is refused or it finds a     *)
(* page with its root byte set where the metadata say the root is: the     *)
(* assertion at the end of the tree's constructor (btree.cpp:61).          *)
(***************************************************************************)
StartFindsRoot ==
  task = NoProcess /\ RootReadable =>
    LET root == disk_pages[disk_meta.root_pid] IN root # Hole /\ root.is_root
------------------------------------------------------------------------------
(***************************************************************************)
(* The program implements the persistent map.                              *)
(***************************************************************************)
Status ==
  CASE task # NoProcess -> "open"
    [] task = NoProcess /\ file = "complete" -> "closed"
    [] task = NoProcess /\ file = "damaged" -> "lost"
    [] task = NoProcess /\ file = "absent" -> "absent"

RowsInSession == IF task = NoProcess THEN {} ELSE StoredRows

Saved ==
  IF file = "complete" THEN [known |-> TRUE, cells |-> CellsOnDisk]
                       ELSE [known |-> FALSE]

PM == INSTANCE PersistentMap WITH
  rows <- RowsInSession, request <- MapRequest, status <- Status, saved <- Saved

(***************************************************************************)
(* Inserts and selects of all sessions see one map.  It survives .exit, a  *)
(* failed write of the allocation for a leaf, and any crash of a session   *)
(* that has not moved the root or replaced a page in the file, also when   *)
(* the session has allocated pages.                                        *)
(***************************************************************************)
ImplementsPersistentMap == PM!PMSpec
==============================================================================
