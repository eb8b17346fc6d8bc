---------------------------- MODULE DatabaseProofs -----------------------------
(***************************************************************************)
(* The program, whatever the keys, the loads, the number of pages and the  *)
(* moment a session dies: the invariants of Database, and that it          *)
(* implements PersistentMap.                                               *)
(***************************************************************************)
EXTENDS Database, BPlusTreeTheorems

(***************************************************************************)
(* The tree `ps', when no insert climbs in it: what IndInv, ShapeInv and   *)
(* RootHasKeys say then, of pages that need not be in memory.              *)
(***************************************************************************)
Nodes(ps) == {p \in PageId : ps[p] # NoPage}

TreeOn(ps, root) ==
  /\ PagesInv(ps, Nodes(ps), root)
  /\ \A p \in Nodes(ps) : ps[p].parent # Unwritten
  /\ \E s \in Shapes : TreeShape(ps, Nodes(ps), root, s) /\ s.up = s.hi
  /\ ps[root].kind = "inner" => ps[root].keys # <<>>

(***************************************************************************)
(* The inductive invariant.  A start that gets to page `root' finds a node *)
(* with its root byte set there.                                           *)
(***************************************************************************)
StartsAt(root) ==
  root < disk_length => disk_pages[root] \in Node /\ disk_pages[root].is_root = TRUE

Session == task # NoProcess

TaskType ==
  task \in {NoProcess, Ready, EndOfInput, AllocateCount, CloseRoot, CloseCount}
             \cup {AllocateRoot(p) : p \in PageId}
             \cup {Flush(p) : p \in 0 .. num_pages}

DiskType ==
  /\ disk_meta \in [root_pid : PageId, num_pages : 0 .. TABLE_MAX_PAGES]
  /\ disk_pages \in [PageId -> Node \cup {Hole}]
  /\ disk_length \in 0 .. TABLE_MAX_PAGES
  /\ disk_length <= disk_meta.num_pages
  /\ \A p \in PageId : p >= disk_length => disk_pages[p] = Hole

FileInv ==
  /\ file \in IF Session THEN {"complete", "changing"} ELSE {"absent", "complete", "damaged"}
  /\ StartsAt(disk_meta.root_pid)
  /\ file = "absent" => disk_length = 0 /\ disk_meta.num_pages = 0
  /\ file = "complete" => TreeOn(PagesInFile, disk_meta.root_pid)

(***************************************************************************)
(* The memory of a session, and of none.  A page without a node in memory  *)
(* has none in the file either, so that nothing is lost by not loading it. *)
(***************************************************************************)
TreeInv ==
  /\ IndInv /\ ShapeInv /\ RootHasKeys
  /\ pages[root_pid].is_root = TRUE

NoLoss == \A p \in PageId : pages[p] = NoPage => disk_pages[p] = Hole

MemoryInv ==
  /\ Session =>
       /\ TreeInv /\ StartsAt(root_pid)
       /\ disk_meta.num_pages <= num_pages
       /\ NoLoss
  /\ ~Session =>
       /\ pages = [p \in PageId |-> NoPage] /\ root_pid = 0 /\ num_pages = 0
       /\ call = Idle /\ reply = NoReply

\* The pages below i are in the file as they are in memory.
Flushed(i) ==
  \A p \in Nodes(pages) :
    p < i => p < disk_length /\ disk_pages[p] = pages[p]

(***************************************************************************)
(* How far the process is with its writes.                                 *)
(***************************************************************************)
TaskInv ==
  /\ task.at = "allocate_root" => StartsAt(task.root)
  /\ task.at \in {"ready", "end_of_input", "flush"} =>
       disk_meta.num_pages = num_pages
  /\ task.at \in {"close_count", "flush"} => disk_meta.root_pid = root_pid
  /\ task.at = "flush" => Flushed(task.next)

DatabaseInv == TaskType /\ DiskType /\ FileInv /\ MemoryInv /\ TaskInv

------------------------------------------------------------------------------
(***************************************************************************)
(* The tree in memory and the tree of a file.                              *)
(***************************************************************************)
LEMMA TreeToFile ==
  ASSUME TreeInv, call.pc # "climb"
  PROVE  TreeOn(pages, root_pid)
<1>1. IndInv /\ ShapeInv /\ RootHasKeys /\ call.pc # "climb"
  BY DEF TreeInv
<1>2. Nodes(pages) = Allocated
  BY DEF Nodes, Allocated
<1>3. PagesInv(pages, Allocated, root_pid)
  BY <1>1 DEF IndInv
<1>4. \A p \in Allocated : pages[p].parent # Unwritten
  BY <1>1 DEF IndInv, OnlyPendingUnwritten, Pending
<1>5. \E s \in Shapes : TreeShape(pages, Allocated, root_pid, s) /\ s.up = s.hi
  BY <1>1 DEF ShapeInv, CallShape
<1>6. pages[root_pid].kind = "inner" => pages[root_pid].keys # <<>>
  BY <1>1 DEF RootHasKeys
<1> QED
  BY <1>2, <1>3, <1>4, <1>5, <1>6 DEF TreeOn

\* A session that opens a file with a tree has it in memory.
FileTreeLoaded ==
  /\ TreeOn(pages, root_pid)
  /\ call = Idle /\ reply = NoReply
  /\ num_pages \in 1 .. TABLE_MAX_PAGES /\ Nodes(pages) \subseteq 0 .. num_pages - 1

LEMMA FileToTree ==
  FileTreeLoaded => IndInv /\ ShapeInv /\ RootHasKeys
<1> SUFFICES ASSUME FileTreeLoaded
             PROVE  IndInv /\ ShapeInv /\ RootHasKeys
  OBVIOUS
<1>1. Nodes(pages) = Allocated
  BY DEF Nodes, Allocated
<1>2. /\ TreeOn(pages, root_pid) /\ call = [pc |-> "idle"] /\ reply.status = "NONE"
      /\ num_pages \in 1 .. TABLE_MAX_PAGES /\ Allocated \subseteq 0 .. num_pages - 1
  BY <1>1 DEF FileTreeLoaded, Idle, NoReply, Reply
<1>3. /\ PagesInv(pages, Allocated, root_pid)
      /\ \A p \in Allocated : pages[p].parent # Unwritten
      /\ \E s \in Shapes : TreeShape(pages, Allocated, root_pid, s) /\ s.up = s.hi
      /\ pages[root_pid].kind = "inner" => pages[root_pid].keys # <<>>
  BY <1>1, <1>2 DEF TreeOn
<1>4. call \in Call /\ ClimbInv /\ OnlyPendingUnwritten
  BY <1>2, <1>3 DEF Call, ClimbInv, OnlyPendingUnwritten
<1>5. IndInv
  BY <1>2, <1>3, <1>4 DEF IndInv
<1>6. ShapeInv
  BY <1>2, <1>3 DEF ShapeInv, CallShape
<1> QED
  BY <1>3, <1>5, <1>6 DEF RootHasKeys

LEMMA EmptyTree ==
  Init => TreeInv /\ StoredRows = {}
<1> SUFFICES ASSUME Init
             PROVE  TreeInv /\ StoredRows = {}
  OBVIOUS
<1>1. IndInv /\ ShapeInv
  BY InitIndInv, InitShape
<1>2. 0 \in PageId /\ root_pid = 0
  BY PageAssumption DEF Init, PageId
<1>3. pages[root_pid].kind = "leaf" /\ pages[root_pid].is_root = TRUE
  BY <1>2 DEF Init, LeafNode
<1>4. StoredRows = {}
  BY InitMap DEF Map!Init
<1> QED
  BY <1>1, <1>3, <1>4 DEF TreeInv, RootHasKeys

\* Pages of the file that nobody wrote are the ones that are not loaded.
LEMMA FilePages ==
  DiskType =>
    /\ \A p \in PageId :
         PagesInFile[p] = IF disk_pages[p] = Hole THEN NoPage ELSE disk_pages[p]
    /\ PagesInFile \in [PageId -> Node \cup {NoPage}]
    /\ Hole \notin Node
<1> SUFFICES ASSUME DiskType
             PROVE  /\ \A p \in PageId : PagesInFile[p] =
                         IF disk_pages[p] = Hole THEN NoPage ELSE disk_pages[p]
                    /\ PagesInFile \in [PageId -> Node \cup {NoPage}]
                    /\ Hole \notin Node
  OBVIOUS
<1>1. Hole \notin Node
  BY DEF Hole, Node
<1>2. ASSUME NEW p \in PageId, disk_pages[p] # Hole
      PROVE  InFile(p)
  <2>1. /\ p \in Int /\ disk_length \in Int /\ disk_meta.num_pages \in Int
        /\ disk_length <= disk_meta.num_pages
        /\ ~(p >= disk_length)
    BY <1>2, PageAssumption DEF DiskType, PageId
  <2> QED
    BY <2>1 DEF InFile
<1>3. \A p \in PageId : disk_pages[p] \in Node \cup {Hole}
  BY DEF DiskType
<1> QED
  BY <1>1, <1>2, <1>3 DEF PagesInFile

LEMMA SameFile ==
  ASSUME DiskType, DiskType', disk_pages' = disk_pages
  PROVE  PagesInFile' = PagesInFile
<1>1. /\ PagesInFile \in [PageId -> Node \cup {NoPage}]
      /\ \A p \in PageId :
           PagesInFile[p] = IF disk_pages[p] = Hole THEN NoPage ELSE disk_pages[p]
  BY FilePages
<1>2. /\ PagesInFile' \in [PageId -> Node \cup {NoPage}]
      /\ \A p \in PageId :
           PagesInFile'[p] = IF disk_pages'[p] = Hole THEN NoPage ELSE disk_pages'[p]
  <2>1. (DiskType =>
          /\ \A p \in PageId :
               PagesInFile[p] = IF disk_pages[p] = Hole THEN NoPage ELSE disk_pages[p]
          /\ PagesInFile \in [PageId -> Node \cup {NoPage}]
          /\ Hole \notin Node)'
    BY FilePages, PTL
  <2> QED
    BY <2>1
<1> QED
  BY <1>1, <1>2

------------------------------------------------------------------------------
(***************************************************************************)
(* What an action leaves alone.                                            *)
(***************************************************************************)
LEMMA SameMemory ==
  ASSUME TreeInv, UNCHANGED vars
  PROVE  TreeInv' /\ root_pid' = root_pid /\ num_pages' = num_pages /\ pages' = pages
         /\ call' = call /\ reply' = reply
<1>1. /\ pages' = pages /\ root_pid' = root_pid /\ num_pages' = num_pages
      /\ call' = call /\ reply' = reply
  BY DEF vars
<1>2. IndInv' /\ ShapeInv'
  BY StepIndInv, StepShape DEF TreeInv
<1>3. RootHasKeys'
  BY <1>2, StepRootHasKeys DEF TreeInv
<1> QED
  BY <1>1, <1>2, <1>3 DEF TreeInv

LEMMA SameDisk ==
  ASSUME DiskType, UNCHANGED disk
  PROVE  /\ DiskType' /\ PagesInFile' = PagesInFile
         /\ disk_meta' = disk_meta /\ disk_pages' = disk_pages
         /\ disk_length' = disk_length
<1>1. /\ disk_meta' = disk_meta /\ disk_pages' = disk_pages
      /\ disk_length' = disk_length
  BY DEF disk
<1>2. DiskType'
  BY <1>1 DEF DiskType
<1> QED
  BY <1>1, <1>2, SameFile

\* Numbers of pages, and the fields of the metadata.
LEMMA Counts ==
  ASSUME DiskType
  PROVE  /\ PageId \subseteq Int /\ \A p \in PageId : p >= 0
         /\ disk_length \in Int /\ disk_length >= 0
         /\ disk_meta.root_pid \in PageId
         /\ disk_meta.num_pages \in Int /\ disk_length <= disk_meta.num_pages
         /\ disk_meta.num_pages \in 0 .. TABLE_MAX_PAGES /\ TABLE_MAX_PAGES \in Nat
BY PageAssumption DEF DiskType, PageId

LEMMA TreeCounts ==
  ASSUME TreeInv
  PROVE  /\ num_pages \in 1 .. TABLE_MAX_PAGES /\ root_pid \in PageId
         /\ num_pages \in Int /\ root_pid < num_pages
         /\ pages[root_pid] \in Node
         /\ Allocated = Nodes(pages)
         /\ \A p \in Nodes(pages) : pages[p] \in Node /\ p < num_pages
         /\ pages \in [PageId -> Node \cup {NoPage}]
<1>1. IndInv /\ Allocated = Nodes(pages)
  BY DEF TreeInv, Allocated, Nodes
<1>2. /\ num_pages \in 1 .. TABLE_MAX_PAGES /\ Allocated \subseteq 0 .. num_pages - 1
      /\ root_pid \in Allocated /\ Allocated \in SUBSET PageId
      /\ pages \in [PageId -> Node \cup {NoPage}]
  BY <1>1 DEF IndInv, PagesInv
<1>3. \A p \in Allocated : pages[p] \in Node
  BY <1>1, PageFacts
<1> QED
  BY <1>1, <1>2, <1>3, PageAssumption

\* The processes of each kind.
LEMMA Tasks ==
  /\ NoProcess.at = "none" /\ Ready.at = "ready" /\ EndOfInput.at = "end_of_input"
  /\ AllocateCount.at = "allocate_count" /\ CloseRoot.at = "close_root"
  /\ CloseCount.at = "close_count"
  /\ \A root : AllocateRoot(root).at = "allocate_root" /\ AllocateRoot(root).root = root
  /\ \A i : Flush(i).at = "flush" /\ Flush(i).next = i
BY DEF NoProcess, Ready, EndOfInput, AllocateCount, CloseRoot, CloseCount,
       AllocateRoot, Flush

LEMMA TaskIsFlush ==
  ASSUME TaskType, task.at = "flush"
  PROVE  task.next \in 0 .. num_pages /\ task = Flush(task.next)
<1>1. task \in {Flush(p) : p \in 0 .. num_pages}
  BY Tasks DEF TaskType
<1> QED
  BY <1>1, Tasks

------------------------------------------------------------------------------
(***************************************************************************)
(* The invariant: one lemma for every action.                              *)
(***************************************************************************)
LEMMA InitDatabaseInv ==
  ASSUME DatabaseInit
  PROVE  DatabaseInv
<1> USE DEF DatabaseInit
<1>1. TaskType
  BY DEF TaskType
<1>2. DiskType
  BY PageAssumption DEF DiskType, PageId
<1>3. FileInv
  <2>1. ~Session
    BY DEF Session
  <2>2. StartsAt(disk_meta.root_pid)
    BY DEF StartsAt
  <2> QED
    BY <2>1, <2>2 DEF FileInv
<1>4. MemoryInv
  BY DEF MemoryInv, Session
<1>5. TaskInv
  BY Tasks DEF TaskInv
<1> QED
  BY <1>1, <1>2, <1>3, <1>4, <1>5 DEF DatabaseInv

LEMMA CreateInv ==
  ASSUME DatabaseInv, Create
  PROVE  DatabaseInv'
<1>1. /\ task' = AllocateRoot(0) /\ file' = "changing" /\ file = "absent"
      /\ ~Session /\ UNCHANGED disk
  BY DEF Create, Session
<1>2. TreeInv' /\ root_pid' = 0 /\ num_pages' = 1
  <2>1. Init'
    BY DEF Create, Memory, Init, PageId, LeafNode
  <2>2. (Init => TreeInv /\ StoredRows = {})'
    BY EmptyTree, PTL
  <2> QED
    BY <2>1, <2>2 DEF Create, Memory
<1>3. DiskType /\ FileInv
  BY DEF DatabaseInv
<1>4. /\ DiskType' /\ disk_meta' = disk_meta /\ disk_pages' = disk_pages
      /\ disk_length' = disk_length
  BY <1>1, <1>3, SameDisk
<1>5. disk_length = 0 /\ disk_meta.num_pages = 0
  BY <1>1, <1>3 DEF FileInv
<1>6. task' # NoProcess /\ Session'
  BY <1>1, Tasks DEF Session
<1>7. TaskType'
  <2>1. 0 \in PageId
    BY PageAssumption DEF PageId
  <2> QED
    BY <1>1, <2>1 DEF TaskType, AllocateRoot, PageId
<1>8. \A root \in PageId : ~(root < disk_length')
  BY <1>3, <1>4, <1>5, Counts
<1>9. FileInv'
  <2>1. StartsAt(disk_meta.root_pid)'
    BY <1>3, <1>4, <1>8, Counts DEF StartsAt
  <2> QED
    BY <1>1, <1>6, <2>1 DEF FileInv
<1>10. 0 \in PageId
  BY PageAssumption DEF PageId
<1>11. MemoryInv'
  <2>1. StartsAt(root_pid)'
    BY <1>2, <1>8, <1>10 DEF StartsAt
  <2>2. NoLoss'
    BY <1>3, <1>4, <1>5, Counts DEF NoLoss, DiskType
  <2> QED
    BY <1>2, <1>4, <1>5, <1>6, <2>1, <2>2 DEF MemoryInv
<1>12. TaskInv'
  BY <1>1, <1>8, <1>10, Tasks DEF TaskInv, StartsAt
<1> QED
  BY <1>4, <1>7, <1>9, <1>11, <1>12 DEF DatabaseInv

LEMMA OpenLoads ==
  ASSUME DatabaseInv, Open
  PROVE  TreeInv' /\ num_pages' \in 1 .. TABLE_MAX_PAGES
<1>1. /\ DiskType /\ TreeOn(PagesInFile, disk_meta.root_pid)
      /\ StartsAt(disk_meta.root_pid)
  BY DEF DatabaseInv, FileInv, Open
<1>2. /\ pages' = PagesInFile /\ root_pid' = disk_meta.root_pid
      /\ num_pages' = disk_meta.num_pages /\ call' = Idle /\ reply' = NoReply
  BY DEF Open, Memory
<1>3. disk_meta.root_pid < disk_meta.num_pages /\ disk_meta.root_pid < disk_length
  BY DEF Open, RootReadable, InFile
<1>4. num_pages' \in 1 .. TABLE_MAX_PAGES
  BY <1>1, <1>2, <1>3, Counts
<1>5. Nodes(pages') \subseteq 0 .. num_pages' - 1
  <2>1. ASSUME NEW p \in Nodes(pages')
        PROVE  p \in 0 .. num_pages' - 1
    <3>1. p \in PageId /\ PagesInFile[p] # NoPage
      BY <1>2 DEF Nodes
    <3>2. InFile(p)
      BY <3>1 DEF PagesInFile
    <3> QED
      BY <1>1, <1>2, <3>1, <3>2, Counts DEF InFile
  <2> QED
    BY <2>1
<1>6. FileTreeLoaded'
  BY <1>1, <1>2, <1>4, <1>5 DEF FileTreeLoaded
<1>7. (FileTreeLoaded => IndInv /\ ShapeInv /\ RootHasKeys)'
  BY FileToTree, PTL
<1>8. pages'[root_pid'].is_root = TRUE
  <2>1. disk_meta.root_pid \in PageId
    BY <1>1, Counts
  <2>2. /\ disk_pages[disk_meta.root_pid] \in Node
        /\ disk_pages[disk_meta.root_pid].is_root = TRUE
    BY <1>1, <1>3 DEF StartsAt
  <2>3. PagesInFile[disk_meta.root_pid] = disk_pages[disk_meta.root_pid]
    BY <1>1, <2>1, <2>2, FilePages
  <2> QED
    BY <1>2, <2>2, <2>3
<1> QED
  BY <1>4, <1>6, <1>7, <1>8 DEF TreeInv

LEMMA OpenInv ==
  ASSUME DatabaseInv, Open
  PROVE  DatabaseInv'
<1>1. /\ task' = Ready /\ file' = file /\ file = "complete" /\ UNCHANGED disk
  BY DEF Open
<1>2. TreeInv'
  BY OpenLoads
<1>3. DiskType /\ FileInv
  BY DEF DatabaseInv
<1>4. /\ DiskType' /\ PagesInFile' = PagesInFile /\ disk_meta' = disk_meta
      /\ disk_pages' = disk_pages /\ disk_length' = disk_length
  BY <1>1, <1>3, SameDisk
<1>5. task' # NoProcess /\ Session'
  BY <1>1, Tasks DEF Session
<1>6. /\ pages' = PagesInFile /\ root_pid' = disk_meta.root_pid
      /\ num_pages' = disk_meta.num_pages
  BY DEF Open, Memory
<1>7. TaskType'
  BY <1>1 DEF TaskType
<1>8. StartsAt(disk_meta.root_pid)' /\ StartsAt(root_pid)'
  BY <1>3, <1>4, <1>6 DEF FileInv, StartsAt
<1>9. FileInv'
  BY <1>1, <1>3, <1>4, <1>5, <1>8 DEF FileInv
<1>10. MemoryInv'
  <2>1. NoLoss'
    <3>1. ASSUME NEW p \in PageId, pages'[p] = NoPage
          PROVE  disk_pages'[p] = Hole
      BY <1>3, <1>4, <1>6, <3>1, FilePages, NoPageAssumption DEF DiskType
    <3> QED
      BY <3>1 DEF NoLoss
  <2>2. disk_meta'.num_pages <= num_pages'
    BY <1>3, <1>4, <1>6, Counts
  <2> QED
    BY <1>2, <1>5, <1>8, <2>1, <2>2 DEF MemoryInv
<1>11. TaskInv'
  BY <1>1, <1>4, <1>6, Tasks DEF TaskInv
<1> QED
  BY <1>4, <1>7, <1>9, <1>10, <1>11 DEF DatabaseInv

(***************************************************************************)
(* A step of the tree leaves the file alone; if it allocated a page, the   *)
(* writes of allocate_page follow.                                         *)
(***************************************************************************)
TreeStep ==
  /\ task = Ready
  /\ [Next]_vars
  /\ task' = IF num_pages' = num_pages THEN Ready ELSE AllocateRoot(root_pid)
  /\ UNCHANGED <<disk, file>>

LEMMA TreeStepCounts ==
  ASSUME DatabaseInv, TreeStep
  PROVE  /\ TreeInv /\ TreeInv'
         /\ num_pages <= num_pages' /\ num_pages \in Int /\ num_pages' \in Int
         /\ Allocated \subseteq Allocated'
         /\ root_pid' = root_pid \/ root_pid' = num_pages
<1>1. TreeInv /\ [Next]_vars
  BY Tasks DEF DatabaseInv, MemoryInv, Session, TreeStep
<1>2. IndInv /\ ShapeInv /\ RootHasKeys /\ pages[root_pid].is_root = TRUE
      /\ root_pid \in Allocated
  BY <1>1 DEF TreeInv, IndInv, PagesInv
<1>3. IndInv' /\ ShapeInv'
  BY <1>1, <1>2, StepIndInv, StepShape
<1>4. RootHasKeys'
  BY <1>1, <1>2, <1>3, StepRootHasKeys
<1>5. num_pages \in Int
  BY <1>1, TreeCounts
<1>6. /\ pages'[root_pid'].is_root = TRUE
      /\ num_pages <= num_pages' /\ num_pages' \in Int
      /\ Allocated \subseteq Allocated'
      /\ root_pid' = root_pid \/ root_pid' = num_pages
  <2>1. CASE SameRoot
    BY <1>2, <1>5, <2>1 DEF SameRoot, RootBytesKept, PagesKept
  <2>2. CASE FreshPage
    BY <1>2, <1>5, <2>2 DEF FreshPage, RootBytesKept, PageAdded
  <2>3. CASE RootMoved
    BY <1>2, <1>5, <2>3 DEF RootMoved, PageAdded
  <2> QED
    BY <1>1, <1>2, <2>1, <2>2, <2>3, StepRoot
<1> QED
  BY <1>1, <1>3, <1>4, <1>5, <1>6 DEF TreeInv

LEMMA TreeStepInv ==
  ASSUME DatabaseInv, TreeStep
  PROVE  DatabaseInv'
<1>1. /\ TreeInv /\ TreeInv'
      /\ num_pages <= num_pages' /\ num_pages \in Int /\ num_pages' \in Int
      /\ Allocated \subseteq Allocated'
      /\ root_pid' = root_pid \/ root_pid' = num_pages
  BY TreeStepCounts
<1>2. /\ DiskType /\ FileInv /\ task = Ready /\ Session /\ UNCHANGED disk
      /\ file' = file /\ StartsAt(root_pid) /\ NoLoss
      /\ disk_meta.num_pages = num_pages
      /\ task' = IF num_pages' = num_pages THEN Ready ELSE AllocateRoot(root_pid)
  BY Tasks DEF DatabaseInv, TreeStep, MemoryInv, TaskInv, Session
<1>3. /\ DiskType' /\ PagesInFile' = PagesInFile /\ disk_meta' = disk_meta
      /\ disk_pages' = disk_pages /\ disk_length' = disk_length
  BY <1>2, SameDisk
<1>4. root_pid \in PageId
  BY <1>1, TreeCounts
<1>5. /\ task' # NoProcess /\ Session' /\ task'.at \in {"ready", "allocate_root"}
      /\ task'.at = "ready" => num_pages' = num_pages
      /\ task'.at = "allocate_root" => task'.root = root_pid
  BY <1>2, Tasks DEF Session
<1>6. TaskType'
  BY <1>2, <1>4 DEF TaskType, AllocateRoot, PageId
<1>7. FileInv'
  <2>1. StartsAt(disk_meta.root_pid)'
    BY <1>2, <1>3 DEF FileInv, StartsAt
  <2> QED
    BY <1>2, <1>3, <1>5, <2>1 DEF FileInv
<1>8. StartsAt(root_pid)'
  <2>1. CASE root_pid' = root_pid
    BY <1>2, <1>3, <2>1 DEF StartsAt
  <2>2. CASE root_pid' = num_pages
    <3>1. ~(root_pid' < disk_length')
      BY <1>1, <1>2, <1>3, <2>2, Counts
    <3> QED
      BY <3>1 DEF StartsAt
  <2> QED
    BY <1>1, <2>1, <2>2
<1>9. NoLoss'
  <2>1. ASSUME NEW p \in PageId, pages'[p] = NoPage
        PROVE  disk_pages'[p] = Hole
    <3>1. p \notin Allocated'
      BY <2>1 DEF Allocated, PageId
    <3>2. pages[p] = NoPage
      BY <1>1, <3>1 DEF Allocated
    <3> QED
      BY <1>2, <1>3, <3>2 DEF NoLoss
  <2> QED
    BY <2>1 DEF NoLoss
<1>10. MemoryInv'
  BY <1>1, <1>2, <1>3, <1>5, <1>8, <1>9 DEF MemoryInv
<1>11. TaskInv'
  <2>1. task'.at = "allocate_root" => StartsAt(task.root)'
    BY <1>2, <1>3, <1>5 DEF StartsAt
  <2> QED
    BY <1>2, <1>3, <1>5, <2>1 DEF TaskInv
<1> QED
  BY <1>3, <1>6, <1>7, <1>10, <1>11 DEF DatabaseInv

LEMMA CommandIsTreeStep ==
  ASSUME DatabaseInv,
         \/ SelectCommand \/ InsertStep
         \/ \E key \in Key, row \in Row : InsertCommand(key, row)
  PROVE  TreeStep
<1>1. CASE SelectCommand
  <2>1. <<0, UINT32_MAX>> \in SelectRange
    BY SelectAssumption
  <2>2. Select(<<0, UINT32_MAX>>[1], <<0, UINT32_MAX>>[2])
    BY <1>1 DEF SelectCommand
  <2>3. Next
    BY <2>1, <2>2 DEF Next
  <2>4. num_pages' = num_pages
    BY <1>1 DEF SelectCommand, Select
  <2> QED
    BY <1>1, <2>3, <2>4 DEF SelectCommand, TreeStep
<1>2. CASE InsertStep
  BY <1>2 DEF InsertStep, TreeStep, Next
<1>3. CASE \E key \in Key, row \in Row : InsertCommand(key, row)
  <2>1. PICK key \in Key, row \in Row : InsertCommand(key, row)
    BY <1>3
  <2>2. Next
    BY <2>1 DEF InsertCommand, Next
  <2>3. num_pages' = num_pages
    BY <2>1 DEF InsertCommand, Insert
  <2> QED
    BY <2>1, <2>2, <2>3 DEF InsertCommand, TreeStep
<1> QED
  BY <1>1, <1>2, <1>3

(***************************************************************************)
(* A failed allocation counts one page more, in memory only.               *)
(***************************************************************************)
LEMMA FailAllocatePageInv ==
  ASSUME DatabaseInv, FailAllocatePage
  PROVE  DatabaseInv'
<1>1. /\ task = Ready /\ task' = CloseRoot
      /\ num_pages < TABLE_MAX_PAGES /\ num_pages' = num_pages + 1
      /\ pages' = pages /\ root_pid' = root_pid /\ call' = call /\ reply' = reply
      /\ disk_meta' \in {disk_meta, [disk_meta EXCEPT !.root_pid = root_pid]}
      /\ disk_pages' = disk_pages /\ disk_length' = disk_length
      /\ file' = Replaced(disk_meta' # disk_meta)
  BY DEF FailAllocatePage
<1>2. /\ Session /\ Session' /\ DiskType /\ FileInv
      /\ TreeInv /\ NoLoss /\ StartsAt(root_pid)
      /\ disk_meta.num_pages = num_pages
  BY <1>1, Tasks DEF DatabaseInv, MemoryInv, TaskInv, Session
<1>3. /\ num_pages \in 1 .. TABLE_MAX_PAGES /\ num_pages \in Int
      /\ TABLE_MAX_PAGES \in Nat /\ root_pid \in PageId
  BY <1>2, TreeCounts, Counts
<1>4. num_pages' \in 1 .. TABLE_MAX_PAGES /\ num_pages <= num_pages'
  BY <1>1, <1>3
<1>5. TreeInv'
  <2>1. IndInv /\ ShapeInv /\ RootHasKeys /\ Allocated' = Allocated
    BY <1>1, <1>2 DEF TreeInv, Allocated, PageId
  <2>2. Allocated' \subseteq 0 .. num_pages' - 1
    BY <1>1, <1>3, <2>1 DEF IndInv
  <2>3. call' \in Call'
    BY <1>1, <2>1 DEF IndInv, Call
  <2>4. OnlyPendingUnwritten' /\ ClimbInv'
    BY <1>1, <2>1 DEF IndInv, OnlyPendingUnwritten, Pending, ClimbInv, HalfLoaded
  <2>5. IndInv'
    BY <1>1, <1>4, <2>1, <2>2, <2>3, <2>4 DEF IndInv
  <2>6. ShapeInv'
    BY <1>1, <2>1 DEF ShapeInv
  <2>7. RootHasKeys' /\ pages'[root_pid'].is_root = TRUE
    BY <1>1, <1>2, <2>1 DEF TreeInv, RootHasKeys
  <2> QED
    BY <2>5, <2>6, <2>7 DEF TreeInv
<1>6. TaskType'
  BY <1>1 DEF TaskType
<1>7. /\ disk_meta' \in [root_pid : PageId, num_pages : 0 .. TABLE_MAX_PAGES]
      /\ disk_meta'.num_pages = disk_meta.num_pages
      /\ disk_meta'.root_pid \in {disk_meta.root_pid, root_pid}
  BY <1>1, <1>2, <1>3 DEF DiskType
<1>8. DiskType'
  BY <1>1, <1>2, <1>7 DEF DiskType
<1>9. PagesInFile' = PagesInFile
  BY <1>1, <1>2, <1>8, SameFile
<1>10. FileInv'
  <2>1. StartsAt(disk_meta.root_pid)'
    BY <1>1, <1>2, <1>7 DEF FileInv, StartsAt
  <2>2. file' \in {"complete", "changing"}
    BY <1>1, <1>2 DEF Replaced, FileInv
  <2>3. ASSUME file' = "complete"
        PROVE  TreeOn(PagesInFile', disk_meta'.root_pid)
    <3>1. file = "complete" /\ disk_meta' = disk_meta
      BY <1>1, <2>3 DEF Replaced
    <3> QED
      BY <1>2, <1>9, <3>1 DEF FileInv
  <2> QED
    BY <1>2, <2>1, <2>2, <2>3 DEF FileInv
<1>11. MemoryInv'
  <2>1. StartsAt(root_pid)' /\ NoLoss'
    BY <1>1, <1>2 DEF StartsAt, NoLoss
  <2>2. disk_meta'.num_pages <= num_pages'
    BY <1>2, <1>4, <1>7
  <2> QED
    BY <1>2, <1>5, <2>1, <2>2 DEF MemoryInv
<1>12. TaskInv'
  BY <1>1, Tasks DEF TaskInv
<1> QED
  BY <1>6, <1>8, <1>10, <1>11, <1>12 DEF DatabaseInv

(***************************************************************************)
(* Actions that leave the memory and the file alone.                       *)
(***************************************************************************)
LEMMA QuietInv ==
  ASSUME DatabaseInv, UNCHANGED <<memory, disk, file>>,
         TaskType', Session' <=> Session, TaskInv'
  PROVE  DatabaseInv'
<1>1. DiskType /\ FileInv /\ MemoryInv /\ file' = file /\ UNCHANGED disk
      /\ UNCHANGED vars
  BY DEF DatabaseInv, memory
<1>2. /\ DiskType' /\ PagesInFile' = PagesInFile /\ disk_meta' = disk_meta
      /\ disk_pages' = disk_pages /\ disk_length' = disk_length
  BY <1>1, SameDisk
<1>3. FileInv'
  <2>1. StartsAt(disk_meta.root_pid)'
    BY <1>1, <1>2 DEF FileInv, StartsAt
  <2> QED
    BY <1>1, <1>2, <2>1 DEF FileInv
<1>4. MemoryInv'
  <2>1. CASE Session
    <3>1. TreeInv' /\ root_pid' = root_pid /\ num_pages' = num_pages /\ pages' = pages
      BY <1>1, <2>1, SameMemory DEF MemoryInv
    <3>2. StartsAt(root_pid)'
      BY <1>1, <1>2, <2>1, <3>1
         DEF MemoryInv, StartsAt
    <3>3. NoLoss'
      BY <1>1, <1>2, <2>1, <3>1 DEF MemoryInv, NoLoss
    <3> QED
      BY <1>1, <1>2, <2>1, <3>1, <3>2, <3>3 DEF MemoryInv
  <2>2. CASE ~Session
    <3>1. pages' = pages /\ root_pid' = root_pid /\ num_pages' = num_pages
          /\ call' = call /\ reply' = reply
      BY <1>1 DEF vars
    <3> QED
      BY <1>1, <2>2, <3>1 DEF MemoryInv
  <2> QED
    BY <2>1, <2>2
<1> QED
  BY <1>2, <1>3, <1>4 DEF DatabaseInv

LEMMA ExitInv ==
  ASSUME DatabaseInv, Exit
  PROVE  DatabaseInv'
<1>1. /\ task = Ready /\ task' = CloseRoot
      /\ UNCHANGED <<memory, disk, file>>
  BY DEF Exit
<1>2. TaskType' /\ Session /\ Session'
  BY <1>1, Tasks DEF TaskType, Session
<1>3. TaskInv'
  BY <1>1, Tasks DEF TaskInv
<1> QED
  BY <1>1, <1>2, <1>3, QuietInv

LEMMA ReadNothingInv ==
  ASSUME DatabaseInv, ReadNothing
  PROVE  DatabaseInv'
<1>1. /\ task \in {Ready, EndOfInput} /\ task' = EndOfInput
      /\ UNCHANGED <<memory, disk, file>>
  BY DEF ReadNothing
<1>2. TaskType' /\ Session /\ Session'
  BY <1>1, Tasks DEF TaskType, Session
<1>3. num_pages' = num_pages /\ disk_meta' = disk_meta
  BY <1>1 DEF memory, vars, disk
<1>4. disk_meta.num_pages = num_pages
  BY <1>1, Tasks DEF DatabaseInv, TaskInv
<1>5. TaskInv'
  BY <1>1, <1>3, <1>4, Tasks DEF TaskInv
<1> QED
  BY <1>1, <1>2, <1>5, QuietInv

LEMMA StutterInv ==
  ASSUME DatabaseInv, UNCHANGED databaseVars
  PROVE  DatabaseInv'
<1>1. task' = task /\ UNCHANGED <<memory, disk, file>>
  BY DEF databaseVars
<1>2. /\ pages' = pages /\ root_pid' = root_pid /\ num_pages' = num_pages
      /\ call' = call /\ disk_meta' = disk_meta /\ disk_pages' = disk_pages
      /\ disk_length' = disk_length
  BY <1>1 DEF memory, vars, disk
<1>3. TaskType' /\ (Session' <=> Session)
  BY <1>1, <1>2
     DEF DatabaseInv, TaskType, Session, NoProcess, Ready, EndOfInput, AllocateCount,
         CloseRoot, CloseCount, AllocateRoot, Flush, PageId
<1>4. TaskInv'
  BY <1>1, <1>2
     DEF DatabaseInv, TaskInv, StartsAt, Flushed, Nodes
<1> QED
  BY <1>1, <1>3, <1>4, QuietInv

(***************************************************************************)
(* The writes to the file, which leave the memory alone.                   *)
(***************************************************************************)
LEMMA WritingMemory ==
  ASSUME DatabaseInv, UNCHANGED memory, Session, Session',
         StartsAt(root_pid)', NoLoss', disk_meta'.num_pages <= num_pages
  PROVE  MemoryInv'
<1>1. TreeInv /\ UNCHANGED vars
  BY DEF DatabaseInv, MemoryInv, memory
<1>2. TreeInv' /\ num_pages' = num_pages
  BY <1>1, SameMemory
<1> QED
  BY <1>2 DEF MemoryInv

LEMMA WriteRootInv ==
  ASSUME DatabaseInv, WriteRoot
  PROVE  DatabaseInv'
<1>1. PICK root \in PageId :
        /\ \/ task = AllocateRoot(root) /\ task' = AllocateCount
           \/ task = CloseRoot /\ root = root_pid /\ task' = CloseCount
        /\ disk_meta' = [disk_meta EXCEPT !.root_pid = root]
  BY DEF WriteRoot, RootAtClose
<1>2. /\ UNCHANGED <<memory, disk_pages, disk_length>>
      /\ file' = Replaced(disk_meta' # disk_meta)
  BY DEF WriteRoot
<1>3. Session /\ Session' /\ DiskType /\ FileInv /\ MemoryInv
  BY <1>1, Tasks DEF Session, DatabaseInv
<1>4. /\ root_pid' = root_pid /\ num_pages' = num_pages /\ pages' = pages /\ call' = call
      /\ disk_pages' = disk_pages /\ disk_length' = disk_length
  BY <1>2 DEF memory, vars
<1>5. /\ disk_meta' \in [root_pid : PageId, num_pages : 0 .. TABLE_MAX_PAGES]
      /\ disk_meta'.root_pid = root /\ disk_meta'.num_pages = disk_meta.num_pages
  BY <1>1, <1>3 DEF DiskType
<1>6. StartsAt(root)
  BY <1>1, <1>3, Tasks DEF DatabaseInv, TaskInv, MemoryInv
<1>7. TaskType'
  BY <1>1 DEF TaskType
<1>8. DiskType'
  BY <1>3, <1>4, <1>5 DEF DiskType
<1>9. FileInv'
  <2>1. StartsAt(disk_meta.root_pid)'
    BY <1>4, <1>5, <1>6 DEF StartsAt
  <2>2. file' \in {"complete", "changing"}
    BY <1>2, <1>3 DEF Replaced, FileInv
  <2>3. ASSUME file' = "complete"
        PROVE  TreeOn(PagesInFile', disk_meta'.root_pid)
    <3>1. file = "complete" /\ disk_meta' = disk_meta
      BY <1>2, <2>3 DEF Replaced
    <3>2. PagesInFile' = PagesInFile
      BY <1>3, <1>4, <1>8, SameFile
    <3> QED
      BY <1>3, <3>1, <3>2 DEF FileInv
  <2> QED
    BY <1>3, <2>1, <2>2, <2>3 DEF FileInv
<1>10. MemoryInv'
  <2>1. StartsAt(root_pid)'
    BY <1>3, <1>4 DEF MemoryInv, StartsAt
  <2>2. NoLoss'
    BY <1>3, <1>4 DEF MemoryInv, NoLoss
  <2>3. disk_meta'.num_pages <= num_pages
    BY <1>3, <1>5 DEF MemoryInv
  <2> QED
    BY <1>2, <1>3, <2>1, <2>2, <2>3, WritingMemory
<1>11. TaskInv'
  <2>1. CASE task' = AllocateCount
    BY <2>1, Tasks DEF TaskInv
  <2>2. CASE task = CloseRoot /\ root = root_pid /\ task' = CloseCount
    BY <1>4, <1>5, <2>2, Tasks DEF TaskInv
  <2> QED
    BY <1>1, <2>1, <2>2
<1> QED
  BY <1>7, <1>8, <1>9, <1>10, <1>11 DEF DatabaseInv

LEMMA WriteCountInv ==
  ASSUME DatabaseInv, WriteCount
  PROVE  DatabaseInv'
<1>1. /\ \/ task = AllocateCount /\ task' = Ready
         \/ task = CloseCount /\ task' = Flush(0)
      /\ disk_meta' = [disk_meta EXCEPT !.num_pages = num_pages]
      /\ UNCHANGED <<memory, disk_pages, disk_length, file>>
  BY DEF WriteCount
<1>2. Session /\ Session' /\ DiskType /\ FileInv /\ MemoryInv /\ TreeInv
  BY <1>1, Tasks DEF Session, DatabaseInv, MemoryInv
<1>3. /\ root_pid' = root_pid /\ num_pages' = num_pages /\ pages' = pages /\ call' = call
      /\ disk_pages' = disk_pages /\ disk_length' = disk_length /\ file' = file
  BY <1>1 DEF memory, vars
<1>4. num_pages \in 1 .. TABLE_MAX_PAGES /\ num_pages \in Int
  BY <1>2, TreeCounts
<1>5. /\ disk_meta' \in [root_pid : PageId, num_pages : 0 .. TABLE_MAX_PAGES]
      /\ disk_meta'.root_pid = disk_meta.root_pid /\ disk_meta'.num_pages = num_pages
  BY <1>1, <1>2, <1>4 DEF DiskType
<1>6. TaskType'
  BY <1>1, <1>3, <1>4 DEF TaskType
<1>7. DiskType'
  <2>1. disk_length <= num_pages
    BY <1>2, <1>4, Counts DEF MemoryInv
  <2> QED
    BY <1>2, <1>3, <1>5, <2>1 DEF DiskType
<1>8. PagesInFile' = PagesInFile
  BY <1>2, <1>3, <1>7, SameFile
<1>9. FileInv'
  <2>1. StartsAt(disk_meta.root_pid)'
    BY <1>2, <1>3, <1>5 DEF FileInv, StartsAt
  <2> QED
    BY <1>2, <1>3, <1>5, <1>8, <2>1 DEF FileInv
<1>10. MemoryInv'
  <2>1. StartsAt(root_pid)'
    BY <1>2, <1>3 DEF MemoryInv, StartsAt
  <2>2. NoLoss'
    BY <1>2, <1>3 DEF MemoryInv, NoLoss
  <2>3. disk_meta'.num_pages <= num_pages
    BY <1>4, <1>5
  <2> QED
    BY <1>1, <1>2, <2>1, <2>2, <2>3, WritingMemory
<1>11. TaskInv'
  <2>1. CASE task' = Ready
    BY <1>3, <1>5, <2>1, Tasks DEF TaskInv
  <2>2. CASE task = CloseCount /\ task' = Flush(0)
    <3>1. disk_meta.root_pid = root_pid
      BY <2>2, Tasks DEF DatabaseInv, TaskInv
    <3>2. Flushed(task.next)'
      <4>1. task'.next = 0
        BY <2>2, Tasks
      <4>2. \A p \in Nodes(pages') : ~(p < 0)
        BY <1>2, Counts DEF Nodes
      <4> QED
        BY <4>1, <4>2 DEF Flushed
    <3> QED
      BY <1>3, <1>5, <2>2, <3>1, <3>2, Tasks DEF TaskInv
  <2> QED
    BY <1>1, <2>1, <2>2
<1> QED
  BY <1>6, <1>7, <1>9, <1>10, <1>11 DEF DatabaseInv

(***************************************************************************)
(* What holds while the pages are flushed.                                 *)
(***************************************************************************)
LEMMA Flushing ==
  ASSUME DatabaseInv, task.at = "flush"
  PROVE  /\ Session /\ DiskType /\ FileInv /\ TreeInv /\ NoLoss
         /\ task.next \in 0 .. num_pages /\ Flushed(task.next)
         /\ disk_meta.num_pages = num_pages /\ disk_meta.root_pid = root_pid
         /\ StartsAt(root_pid)
<1>1. Session
  BY Tasks DEF Session
<1>2. task.next \in 0 .. num_pages
  BY TaskIsFlush DEF DatabaseInv
<1> QED
  BY <1>1, <1>2 DEF DatabaseInv, MemoryInv, TaskInv

LEMMA FlushEmptyInv ==
  ASSUME DatabaseInv, FlushNext, pages[task.next] = NoPage
  PROVE  DatabaseInv'
<1> DEFINE i == task.next
<1>1. /\ task.at = "flush" /\ i < num_pages /\ task' = Flush(i + 1)
      /\ \/ UNCHANGED disk
         \/ /\ Unfilled(i)
            /\ disk_pages' = [disk_pages EXCEPT ![i] = Hole]
            /\ disk_length' = IF i < disk_length THEN disk_length ELSE i + 1
            /\ disk_meta' = disk_meta
      /\ file' = file /\ UNCHANGED memory
  BY DEF FlushNext, PagesToFlush, LongerFile
<1>2. /\ Session /\ DiskType /\ FileInv /\ TreeInv /\ NoLoss
      /\ i \in 0 .. num_pages /\ Flushed(i)
      /\ disk_meta.num_pages = num_pages /\ disk_meta.root_pid = root_pid
      /\ StartsAt(root_pid) /\ pages[i] = NoPage
  BY <1>1, Flushing
<1> HIDE DEF i
<1>3. /\ root_pid' = root_pid /\ num_pages' = num_pages /\ pages' = pages
  BY <1>1 DEF memory, vars
<1>4. /\ num_pages \in 1 .. TABLE_MAX_PAGES /\ num_pages \in Int /\ i \in Int
      /\ TABLE_MAX_PAGES \in Nat /\ root_pid \in PageId /\ root_pid < num_pages
      /\ disk_length \in Int /\ disk_length >= 0 /\ disk_length <= num_pages
      /\ PageId \subseteq Int /\ i \in 0 .. num_pages
  BY <1>2, TreeCounts, Counts
<1>5. i \in PageId /\ disk_pages[i] = Hole
  BY <1>1, <1>2, <1>4 DEF PageId, NoLoss
<1>6. /\ disk_pages' = disk_pages /\ disk_meta' = disk_meta
      /\ disk_length' \in 0 .. num_pages /\ disk_length <= disk_length'
      /\ disk_length' = disk_length \/ i = num_pages - 1
  <2>1. CASE UNCHANGED disk
    BY <1>4, <2>1 DEF disk
  <2>2. CASE Unfilled(i) /\ ~UNCHANGED disk
    <3>1. disk_pages' = disk_pages
      BY <1>1, <1>2, <1>5, <2>2 DEF DiskType
    <3>2. i = num_pages - 1
      BY <2>2 DEF Unfilled
    <3> QED
      BY <1>1, <1>4, <2>2, <3>1, <3>2
  <2> QED
    BY <1>1, <2>1, <2>2
<1>7. TaskType' /\ Session' /\ task'.at = "flush" /\ task'.next = i + 1
  BY <1>1, <1>2, <1>3, <1>4, Tasks DEF TaskType, Session
<1>8. DiskType'
  <2>1. disk_length' \in 0 .. TABLE_MAX_PAGES /\ disk_length' <= disk_meta'.num_pages
    BY <1>2, <1>4, <1>6
  <2>2. \A p \in PageId : p >= disk_length' => disk_pages'[p] = Hole
    BY <1>2, <1>4, <1>6 DEF DiskType
  <2> QED
    BY <1>2, <1>6, <2>1, <2>2 DEF DiskType
<1>9. PagesInFile' = PagesInFile
  BY <1>2, <1>6, <1>8, SameFile
<1>10. StartsAt(root_pid)'
  <2>1. ASSUME root_pid < disk_length'
        PROVE  disk_pages[root_pid] \in Node /\ disk_pages[root_pid].is_root = TRUE
    <3>1. pages[root_pid] \in Node /\ pages[root_pid].is_root = TRUE
          /\ root_pid \in Nodes(pages)
      BY <1>2, TreeCounts DEF TreeInv, IndInv, PagesInv
    <3>2. CASE disk_length' = disk_length
      BY <1>2, <2>1, <3>2 DEF StartsAt
    <3>3. CASE i = num_pages - 1
      <4>1. root_pid # i
        BY <1>2, <3>1 DEF Nodes
      <4>2. root_pid < i
        BY <1>4, <3>3, <4>1
      <4> QED
        BY <1>2, <3>1, <4>2 DEF Flushed
    <3> QED
      BY <1>6, <3>2, <3>3
  <2> QED
    BY <1>3, <1>6, <2>1 DEF StartsAt
<1>11. FileInv'
  BY <1>1, <1>2, <1>3, <1>6, <1>7, <1>9, <1>10 DEF FileInv, StartsAt
<1>12. MemoryInv'
  <2>1. NoLoss'
    BY <1>2, <1>3, <1>6 DEF NoLoss
  <2>2. disk_meta'.num_pages <= num_pages
    BY <1>2, <1>4, <1>6
  <2> QED
    BY <1>1, <1>2, <1>7, <1>10, <2>1, <2>2, WritingMemory
<1>13. Flushed(task.next)'
  <2>1. ASSUME NEW p \in Nodes(pages), p < i + 1
        PROVE  p < disk_length' /\ disk_pages[p] = pages[p]
    <3>1. p # i /\ p \in Int
      BY <1>2, <1>4 DEF Nodes
    <3>2. p < i
      BY <1>4, <2>1, <3>1
    <3>3. p < disk_length /\ disk_pages[p] = pages[p]
      BY <1>2, <3>2 DEF Flushed
    <3> QED
      BY <1>4, <1>6, <3>1, <3>3
  <2> QED
    BY <1>3, <1>6, <1>7, <2>1 DEF Flushed
<1>14. TaskInv'
  BY <1>2, <1>3, <1>6, <1>7, <1>13 DEF TaskInv
<1> QED
  BY <1>7, <1>8, <1>11, <1>12, <1>14 DEF DatabaseInv

LEMMA FlushPageInv ==
  ASSUME DatabaseInv, FlushNext, pages[task.next] # NoPage
  PROVE  DatabaseInv'
<1> DEFINE i == task.next
<1>1. /\ task.at = "flush" /\ i < num_pages /\ task' = Flush(i + 1)
      /\ disk_pages' = [disk_pages EXCEPT ![i] = pages[i]]
      /\ disk_length' = IF i < disk_length THEN disk_length ELSE i + 1
      /\ file' = Replaced(pages[i] # disk_pages[i])
      /\ disk_meta' = disk_meta /\ UNCHANGED memory
  BY DEF FlushNext, Unfilled, PagesToFlush, LongerFile
<1>2. /\ Session /\ DiskType /\ FileInv /\ TreeInv /\ NoLoss
      /\ i \in 0 .. num_pages /\ Flushed(i)
      /\ disk_meta.num_pages = num_pages /\ disk_meta.root_pid = root_pid
      /\ StartsAt(root_pid)
  BY <1>1, Flushing
<1> HIDE DEF i
<1>3. /\ root_pid' = root_pid /\ num_pages' = num_pages /\ pages' = pages /\ call' = call
  BY <1>1 DEF memory, vars
<1>4. /\ num_pages \in 1 .. TABLE_MAX_PAGES /\ num_pages \in Int /\ i \in Int
      /\ TABLE_MAX_PAGES \in Nat /\ root_pid \in PageId
      /\ disk_length \in Int /\ disk_length >= 0 /\ disk_length <= num_pages
      /\ PageId \subseteq Int
  BY <1>2, TreeCounts, Counts
<1>5. i \in PageId /\ pages[i] \in Node /\ i \in Nodes(pages)
  <2>1. i \in PageId
    BY <1>1, <1>2, <1>4 DEF PageId
  <2>2. i \in Nodes(pages)
    BY <2>1 DEF Nodes, i
  <2> QED
    BY <1>2, <2>1, <2>2, TreeCounts
<1>6. /\ disk_length' \in 0 .. num_pages /\ disk_length <= disk_length'
      /\ i < disk_length'
      /\ disk_length' <= i + 1 \/ disk_length' = disk_length
  BY <1>1, <1>2, <1>4
<1>7. /\ disk_pages'[i] = pages[i]
      /\ \A p \in PageId : p # i => disk_pages'[p] = disk_pages[p]
      /\ disk_pages' \in [PageId -> Node \cup {Hole}]
  BY <1>1, <1>2, <1>5 DEF DiskType
<1>8. TaskType' /\ Session' /\ task'.at = "flush" /\ task'.next = i + 1
  BY <1>1, <1>2, <1>3, <1>4, Tasks DEF TaskType, Session
<1>9. DiskType'
  <2>1. ASSUME NEW p \in PageId, p >= disk_length'
        PROVE  disk_pages'[p] = Hole
    <3>1. p # i /\ p >= disk_length
      BY <1>1, <1>4, <1>6, <2>1
    <3> QED
      BY <1>2, <1>7, <3>1 DEF DiskType
  <2>2. disk_length' \in 0 .. TABLE_MAX_PAGES /\ disk_length' <= disk_meta'.num_pages
    BY <1>1, <1>2, <1>4, <1>6
  <2>3. disk_meta' \in [root_pid : PageId, num_pages : 0 .. TABLE_MAX_PAGES]
    BY <1>1, <1>2 DEF DiskType
  <2> QED
    BY <1>7, <2>1, <2>2, <2>3 DEF DiskType
<1>10. StartsAt(root_pid)'
  <2>1. ASSUME root_pid < disk_length'
        PROVE  disk_pages'[root_pid] \in Node /\ disk_pages'[root_pid].is_root = TRUE
    <3>1. pages[root_pid] \in Node /\ pages[root_pid].is_root = TRUE
          /\ root_pid \in Nodes(pages)
      BY <1>2, TreeCounts DEF TreeInv, IndInv, PagesInv
    <3>2. CASE root_pid = i
      BY <1>7, <3>1, <3>2
    <3>3. CASE root_pid # i /\ root_pid < i
      BY <1>2, <1>4, <1>7, <3>1, <3>3 DEF Flushed
    <3>4. CASE root_pid # i /\ ~(root_pid < i)
      <4>1. root_pid < disk_length
        BY <1>1, <1>4, <2>1, <3>4
      <4> QED
        BY <1>2, <1>4, <1>7, <3>4, <4>1 DEF StartsAt
    <3> QED
      BY <3>2, <3>3, <3>4
  <2> QED
    BY <1>3, <2>1 DEF StartsAt
<1>11. FileInv'
  <2>1. StartsAt(disk_meta.root_pid)'
    BY <1>1, <1>2, <1>3, <1>10 DEF StartsAt
  <2>2. file' \in {"complete", "changing"}
    BY <1>1, <1>2 DEF Replaced, FileInv
  <2>3. ASSUME file' = "complete"
        PROVE  TreeOn(PagesInFile', disk_meta'.root_pid)
    <3>1. file = "complete" /\ pages[i] = disk_pages[i]
      BY <1>1, <2>3 DEF Replaced
    <3>2. disk_pages' = disk_pages
      BY <1>1, <1>2, <3>1 DEF DiskType
    <3>3. PagesInFile' = PagesInFile
      BY <1>2, <1>9, <3>2, SameFile
    <3> QED
      BY <1>1, <1>2, <3>1, <3>3 DEF FileInv
  <2> QED
    BY <1>8, <2>1, <2>2, <2>3 DEF FileInv
<1>12. MemoryInv'
  <2>1. NoLoss'
    <3>1. ASSUME NEW p \in PageId, pages[p] = NoPage
          PROVE  disk_pages'[p] = Hole
      <4>1. p # i
        BY <3>1 DEF i
      <4> QED
        BY <1>2, <1>7, <3>1, <4>1 DEF NoLoss
    <3> QED
      BY <1>3, <3>1 DEF NoLoss
  <2>2. disk_meta'.num_pages <= num_pages
    BY <1>1, <1>2, <1>4
  <2> QED
    BY <1>1, <1>2, <1>8, <1>10, <2>1, <2>2, WritingMemory
<1>13. Flushed(task.next)'
  <2>1. ASSUME NEW p \in Nodes(pages), p < i + 1
        PROVE  p < disk_length' /\ disk_pages'[p] = pages[p]
    <3>1. p \in PageId /\ p \in Int
      BY <1>4 DEF Nodes
    <3>2. CASE p = i
      BY <1>6, <1>7, <3>2
    <3>3. CASE p # i
      <4>1. p < i
        BY <1>4, <2>1, <3>1, <3>3
      <4> QED
        BY <1>2, <1>4, <1>6, <1>7, <3>1, <3>3, <4>1 DEF Flushed
    <3> QED
      BY <3>2, <3>3
  <2> QED
    BY <1>3, <1>8, <2>1 DEF Flushed
<1>14. TaskInv'
  BY <1>1, <1>2, <1>3, <1>8, <1>13 DEF TaskInv
<1> QED
  BY <1>8, <1>9, <1>11, <1>12, <1>14 DEF DatabaseInv

(***************************************************************************)
(* A process that is gone has left the file as it was.                     *)
(***************************************************************************)
LEMMA GoneInv ==
  ASSUME DatabaseInv, task' = NoProcess, NoMemory, UNCHANGED disk,
         file' \in {"absent", "complete", "damaged"},
         file' = "absent" => file = "absent",
         file' = "complete" => TreeOn(PagesInFile, disk_meta.root_pid)
  PROVE  DatabaseInv'
<1>1. DiskType /\ FileInv
  BY DEF DatabaseInv
<1>2. /\ DiskType' /\ PagesInFile' = PagesInFile /\ disk_meta' = disk_meta
      /\ disk_pages' = disk_pages /\ disk_length' = disk_length
  BY <1>1, SameDisk
<1>3. ~Session' /\ task'.at = "none"
  BY Tasks DEF Session
<1>4. FileInv'
  <2>1. StartsAt(disk_meta.root_pid)'
    BY <1>1, <1>2 DEF FileInv, StartsAt
  <2> QED
    BY <1>1, <1>2, <1>3, <2>1 DEF FileInv
<1>5. MemoryInv'
  BY <1>3 DEF MemoryInv, NoMemory, Memory
<1>6. TaskType'
  BY DEF TaskType
<1>7. TaskInv'
  BY <1>3 DEF TaskInv
<1> QED
  BY <1>2, <1>4, <1>5, <1>6, <1>7 DEF DatabaseInv

LEMMA DieInv ==
  ASSUME DatabaseInv, Session, Die
  PROVE  DatabaseInv'
<1>1. task' = NoProcess /\ NoMemory /\ UNCHANGED disk /\ file' = Died
  BY DEF Die
<1>2. /\ file \in {"complete", "changing"}
      /\ file = "complete" => TreeOn(PagesInFile, disk_meta.root_pid)
  BY DEF DatabaseInv, FileInv
<1>3. file' \in {"complete", "damaged"} /\ (file' = "complete" => file = "complete")
  BY <1>1, <1>2 DEF Died
<1> QED
  BY <1>1, <1>2, <1>3, GoneInv

(***************************************************************************)
(* When every page is flushed, the tree in the file is the one in memory.  *)
(***************************************************************************)
LEMMA FlushedIsComplete ==
  ASSUME DatabaseInv, Finish
  PROVE  /\ DiskType /\ TreeInv /\ PagesInFile = pages
         /\ disk_meta.root_pid = root_pid
<1>1. task.at = "flush" /\ task.next >= num_pages
  BY DEF Finish, PagesToFlush
<1>2. /\ DiskType /\ TreeInv /\ NoLoss /\ task.next \in 0 .. num_pages
      /\ Flushed(task.next) /\ disk_meta.root_pid = root_pid
  BY <1>1, Flushing
<1>3. /\ num_pages \in Int /\ pages \in [PageId -> Node \cup {NoPage}]
      /\ \A p \in Nodes(pages) : pages[p] \in Node /\ p < num_pages
      /\ Nodes(pages) \subseteq PageId /\ PageId \subseteq Int
  BY <1>2, TreeCounts, Counts DEF Nodes
<1>4. task.next = num_pages
  BY <1>1, <1>2, <1>3
<1>5. /\ PagesInFile \in [PageId -> Node \cup {NoPage}]
      /\ \A p \in PageId : PagesInFile[p] =
           IF disk_pages[p] = Hole THEN NoPage ELSE disk_pages[p]
      /\ Hole \notin Node
  BY <1>2, FilePages
<1>6. ASSUME NEW p \in PageId
      PROVE  PagesInFile[p] = pages[p]
  <2>1. CASE pages[p] = NoPage
    BY <1>2, <1>5, <2>1 DEF NoLoss
  <2>2. CASE pages[p] # NoPage
    <3>1. p \in Nodes(pages)
      BY <2>2 DEF Nodes
    <3>2. disk_pages[p] = pages[p] /\ pages[p] \in Node
      BY <1>2, <1>3, <1>4, <3>1 DEF Flushed
    <3> QED
      BY <1>5, <3>2
  <2> QED
    BY <2>1, <2>2
<1>7. PagesInFile = pages
  <2>1. /\ PagesInFile \in [PageId -> Node \cup {NoPage}]
        /\ pages \in [PageId -> Node \cup {NoPage}]
        /\ \A p \in PageId : PagesInFile[p] = pages[p]
    BY <1>3, <1>5, <1>6
  <2> QED
    BY <2>1
<1> QED
  BY <1>2, <1>7

\* An insert that was cut off in its climb leaves no more than a death does.
LEMMA FinishInClimb ==
  ASSUME DatabaseInv, Finish, call.pc = "climb"
  PROVE  Session /\ Die
BY Tasks DEF Finish, Session, Die

LEMMA FinishInv ==
  ASSUME DatabaseInv, Finish
  PROVE  DatabaseInv'
<1>1. CASE call.pc = "climb"
  BY <1>1, FinishInClimb, DieInv
<1>2. CASE call.pc # "climb"
  <2>1. task' = NoProcess /\ file' = "complete" /\ NoMemory /\ UNCHANGED disk
    BY <1>2 DEF Finish
  <2>2. TreeOn(PagesInFile, disk_meta.root_pid)
    BY <1>2, FlushedIsComplete, TreeToFile
  <2> QED
    BY <2>1, <2>2, GoneInv
<1> QED
  BY <1>1, <1>2

LEMMA StepDatabaseInv ==
  ASSUME DatabaseInv, [DatabaseNext]_databaseVars
  PROVE  DatabaseInv'
<1>1. CASE Create
  BY <1>1, CreateInv
<1>2. CASE Open
  BY <1>2, OpenInv
<1>3. CASE FailStart \/ StartOnDamagedFile \/ UNCHANGED databaseVars
  BY <1>3, StutterInv DEF FailStart, StartOnDamagedFile
<1>4. CASE Exit
  BY <1>4, ExitInv
<1>5. CASE \/ SelectCommand \/ InsertStep
           \/ \E key \in Key, row \in Row : InsertCommand(key, row)
  BY <1>5, CommandIsTreeStep, TreeStepInv
<1>6. CASE InsertLongField \/ Crash
  <2>1. Session /\ Die
    BY <1>6, Tasks DEF InsertLongField, Crash, Session
  <2> QED
    BY <2>1, DieInv
<1>7. CASE ReadNothing
  BY <1>7, ReadNothingInv
<1>8. CASE WriteRoot
  BY <1>8, WriteRootInv
<1>9. CASE WriteCount
  BY <1>9, WriteCountInv
<1>10. CASE FlushNext
  BY <1>10, FlushEmptyInv, FlushPageInv
<1>11. CASE Finish
  BY <1>11, FinishInv
<1>12. CASE FailAllocatePage
  BY <1>12, FailAllocatePageInv
<1> QED
  BY <1>1, <1>2, <1>3, <1>4, <1>5, <1>6, <1>7, <1>8, <1>9, <1>10, <1>11, <1>12
     DEF DatabaseNext, Command

LEMMA DatabaseInvariance == DatabaseSpec => []DatabaseInv
<1>1. DatabaseInit => DatabaseInv
  BY InitDatabaseInv
<1>2. DatabaseInv /\ [DatabaseNext]_databaseVars => DatabaseInv'
  BY StepDatabaseInv
<1> QED
  BY <1>1, <1>2, PTL DEF DatabaseSpec

------------------------------------------------------------------------------
(***************************************************************************)
(* The counters of the metadata, the pages in memory and in the file, and  *)
(* what the process does next have their types in all states of all        *)
(* sessions, also those that follow a crash (dbfile.cpp:247-328).          *)
(***************************************************************************)
THEOREM DatabaseTypes == DatabaseSpec => []DatabaseTypeOK
<1>1. DatabaseInv => DatabaseTypeOK
  <2> SUFFICES ASSUME DatabaseInv PROVE DatabaseTypeOK
    OBVIOUS
  <2>1. TaskType /\ DiskType /\ FileInv /\ MemoryInv
    BY DEF DatabaseInv
  <2>2. file \in {"absent", "complete", "changing", "damaged"}
    BY <2>1 DEF FileInv
  <2>3. /\ num_pages \in 0 .. TABLE_MAX_PAGES /\ root_pid \in PageId
        /\ pages \in [PageId -> Node \cup {NoPage}]
        /\ task # NoProcess => call \in Call
    <3>1. CASE Session
      <4>1. TreeInv /\ call \in Call
        BY <2>1, <3>1 DEF MemoryInv, TreeInv, IndInv
      <4> QED
        BY <4>1, TreeCounts
    <3>2. CASE ~Session
      BY <2>1, <3>2, PageAssumption DEF MemoryInv, Session, PageId
    <3> QED
      BY <3>1, <3>2
  <2> QED
    BY <2>1, <2>2, <2>3 DEF DatabaseTypeOK, TaskType, DiskType
<1> QED
  BY <1>1, DatabaseInvariance, PTL

(***************************************************************************)
(* Whatever a crash left, and whatever the moment: a start that gets to    *)
(* the root page of the metadata finds a page with its root byte set, the  *)
(* assertion of the tree's constructor (btree.cpp:61).  allocate_page may  *)
(* write a root that is not in the file yet; then the start is refused.    *)
(***************************************************************************)
THEOREM StartsFindRoot == DatabaseSpec => []StartFindsRoot
<1>1. DatabaseInv => StartFindsRoot
  <2> SUFFICES ASSUME DatabaseInv, RootReadable
               PROVE  /\ disk_pages[disk_meta.root_pid] # Hole
                      /\ disk_pages[disk_meta.root_pid].is_root
    BY DEF StartFindsRoot
  <2>1. DiskType /\ StartsAt(disk_meta.root_pid)
    BY DEF DatabaseInv, FileInv
  <2>2. /\ disk_pages[disk_meta.root_pid] \in Node
        /\ disk_pages[disk_meta.root_pid].is_root = TRUE
    BY <2>1 DEF StartsAt, RootReadable, InFile
  <2> QED
    BY <2>1, <2>2, FilePages
<1> QED
  BY <1>1, DatabaseInvariance, PTL

------------------------------------------------------------------------------
(***************************************************************************)
(* The pages below the root of a file are the pages that are in it.        *)
(***************************************************************************)
DiskLevels(found) ==
  /\ SubtreeOnDisk = found[TABLE_MAX_PAGES]
  /\ found[0] = {disk_meta.root_pid}
  /\ \A k \in 1 .. TABLE_MAX_PAGES : found[k] = WithChildren(found[k - 1])

LEMMA ChildrenAreOnDisk ==
  ASSUME DiskType, NEW p \in PageId
  PROVE  ChildrenOnDisk(p) \in SUBSET PageId
<1>1. CASE InFile(p) /\ disk_pages[p].kind = "inner"
  <2>1. disk_pages[p] \in Node
    BY <1>1 DEF DiskType, Hole
  <2>2. disk_pages[p].children \in Seq(PageId)
    BY <2>1 DEF Node
  <2>3. ToSet(disk_pages[p].children) \subseteq PageId
    BY <2>2, ElementOfSeq, LenProperties DEF ToSet
  <2> QED
    BY <1>1, <2>3 DEF ChildrenOnDisk
<1>2. CASE ~(InFile(p) /\ disk_pages[p].kind = "inner")
  BY <1>2 DEF ChildrenOnDisk
<1> QED
  BY <1>1, <1>2

LEMMA SubtreeByLevel ==
  ASSUME DiskType
  PROVE  \E found : DiskLevels(found)
<1> DEFINE D       == SUBSET PageId
           step    == [d \in D |-> WithChildren(d)]
           z       == {disk_meta.root_pid}
           M       == TABLE_MAX_PAGES
           Body(g) == [level \in 0 .. M |->
                         IF level = 0 THEN z ELSE WithChildren(g[level - 1])]
<1>1. M \in Nat /\ z \in D
  BY Counts
<1>2. ASSUME NEW d \in D
      PROVE  WithChildren(d) \in D
  BY ChildrenAreOnDisk DEF WithChildren
<1>3. step \in [D -> D]
  BY <1>2
<1> HIDE DEF D, step, z, M
<1>4. PICK g : IsChain(g, M, D, step, z)
  BY <1>1, <1>3, ChainExists
<1>5. g \in [0 .. M -> D] /\ g[0] = z /\ \A k \in 1 .. M : g[k] = step[g[k - 1]]
  BY <1>4 DEF IsChain
<1>6. g = Body(g)
  <2>1. ASSUME NEW k \in 0 .. M
        PROVE  g[k] = IF k = 0 THEN z ELSE WithChildren(g[k - 1])
    <3>1. CASE k = 0
      BY <1>5, <3>1
    <3>2. CASE k # 0
      <4>1. k \in 1 .. M /\ k - 1 \in 0 .. M
        BY <1>1, <3>2
      <4>2. g[k - 1] \in D /\ g[k] = step[g[k - 1]]
        BY <1>5, <4>1
      <4> QED
        BY <3>2, <4>2 DEF step
    <3> QED
      BY <3>1, <3>2
  <2> QED
    BY <1>5, <2>1
<1> DEFINE found == CHOOSE f : f = Body(f)
<1>7. found = Body(found)
  <2> HIDE DEF Body
  <2> QED
    BY <1>6
<1>8. SubtreeOnDisk = found[TABLE_MAX_PAGES]
  BY DEF SubtreeOnDisk, z, M
<1> HIDE DEF found
<1>9. found[0] = z /\ \A k \in 1 .. M : found[k] = WithChildren(found[k - 1])
  BY <1>1, <1>7
<1> QED
  BY <1>8, <1>9 DEF DiskLevels, z, M

\* A child in the file is a page of the tree, one level down.
LEMMA ChildOnDisk ==
  ASSUME DiskType, NEW root, WellLinked(PagesInFile, Nodes(PagesInFile), root),
         NEW p \in Nodes(PagesInFile)
  PROVE  /\ InFile(p) /\ disk_pages[p] = PagesInFile[p]
         /\ disk_pages[p].kind \in {"leaf", "inner"}
         /\ ChildrenOnDisk(p) \subseteq Nodes(PagesInFile)
         /\ PagesInFile[p].kind = "inner" =>
              \A i \in 1 .. Len(PagesInFile[p].keys) + 1 :
                PagesInFile[p].children[i] \in ChildrenOnDisk(p)
<1> DEFINE A == Nodes(PagesInFile)
<1>1. p \in PageId /\ PagesInFile[p] # NoPage
  BY DEF Nodes
<1>2. InFile(p) /\ disk_pages[p] = PagesInFile[p]
  BY <1>1 DEF PagesInFile
<1>3. IsNode(PagesInFile[p], A)
  BY DEF WellLinked
<1>4. /\ PagesInFile[p].kind \in {"leaf", "inner"}
      /\ PagesInFile[p].children \in Seq(A)
      /\ PagesInFile[p].kind = "inner" =>
           Len(PagesInFile[p].children) = Len(PagesInFile[p].keys) + 1
  BY <1>3 DEF IsNode, Node
<1>5. ToSet(PagesInFile[p].children) =
        {PagesInFile[p].children[i] : i \in 1 .. Len(PagesInFile[p].children)}
  BY <1>4, LenProperties DEF ToSet
<1>6. ToSet(PagesInFile[p].children) \subseteq A
  BY <1>4, <1>5, ElementOfSeq
<1> HIDE DEF A
<1>7. ChildrenOnDisk(p) =
        IF PagesInFile[p].kind = "inner" THEN ToSet(PagesInFile[p].children) ELSE {}
  BY <1>2 DEF ChildrenOnDisk
<1> QED
  BY <1>2, <1>4, <1>5, <1>6, <1>7 DEF A

LEMMA FileTreeLinked ==
  ASSUME NEW ps, NEW root, TreeOn(ps, root)
  PROVE  /\ WellLinked(ps, Nodes(ps), root) /\ root \in Nodes(ps)
         /\ \E s \in Shapes : TreeShape(ps, Nodes(ps), root, s)
<1>1. PagesInv(ps, Nodes(ps), root)
  BY DEF TreeOn
<1> QED
  BY <1>1, PagesAreWellLinked DEF TreeOn, PagesInv

LEMMA FoundAreNodes ==
  ASSUME DiskType, TreeOn(PagesInFile, disk_meta.root_pid)
  PROVE  SubtreeOnDisk \subseteq Nodes(PagesInFile)
<1> DEFINE A == Nodes(PagesInFile)
<1>1. PICK found : DiskLevels(found)
  BY SubtreeByLevel
<1>2. /\ WellLinked(PagesInFile, A, disk_meta.root_pid) /\ disk_meta.root_pid \in A
  BY FileTreeLinked
<1>3. \A p \in A : ChildrenOnDisk(p) \subseteq A
  BY <1>2, ChildOnDisk
<1> HIDE DEF A
<1> DEFINE T == {k \in Nat : k <= TABLE_MAX_PAGES => found[k] \subseteq A}
<1>4. 0 \in T
  BY <1>1, <1>2 DEF DiskLevels
<1>5. ASSUME NEW k \in Nat, k \in T
      PROVE  k + 1 \in T
  <2> SUFFICES ASSUME k + 1 <= TABLE_MAX_PAGES
               PROVE  found[k + 1] \subseteq A
    OBVIOUS
  <2>1. k + 1 \in 1 .. TABLE_MAX_PAGES /\ (k + 1) - 1 = k /\ k <= TABLE_MAX_PAGES
    BY Counts
  <2>2. found[k] \subseteq A /\ found[k + 1] = WithChildren(found[k])
    BY <1>1, <1>5, <2>1 DEF DiskLevels
  <2> QED
    BY <1>3, <2>2 DEF WithChildren
<1> HIDE DEF T
<1>6. TABLE_MAX_PAGES \in T
  BY <1>4, <1>5, NatSetInduction, Counts
<1> QED
  BY <1>1, <1>6, Counts DEF T, A, DiskLevels

(***************************************************************************)
(* Every page of the tree is found: a page is a child of a page one level  *)
(* higher, and no page is as high as there are levels.                     *)
(***************************************************************************)
LEMMA ParentOnDisk ==
  ASSUME DiskType, NEW root, NEW s \in Shapes,
         WellLinked(PagesInFile, Nodes(PagesInFile), root),
         TreeShape(PagesInFile, Nodes(PagesInFile), root, s),
         NEW p \in Nodes(PagesInFile), p # root, PagesInFile[p].parent # Unwritten
  PROVE  \E q \in Nodes(PagesInFile) :
           s.height[q] = s.height[p] + 1 /\ p \in ChildrenOnDisk(q)
<1> DEFINE ps == PagesInFile
           A  == Nodes(PagesInFile)
           q  == ps[p].parent
<1>1. q \in A /\ ps[q].kind = "inner"
  BY LinkedPage
<1>2. IsChild(ps, p)
  BY ShapeOfPage DEF PageShape
<1>3. PICK i \in 1 .. Len(ps[q].children) : ps[q].children[i] = p
  BY <1>2 DEF IsChild
<1>4. i \in 1 .. Len(ps[q].keys) + 1
  BY <1>1, LinkedPage
<1>5. s.height[q] = s.height[p] + 1
  BY <1>1, <1>3, <1>4, ShapeOfChild
<1>6. p \in ChildrenOnDisk(q)
  BY <1>1, <1>3, <1>4, ChildOnDisk
<1> QED
  BY <1>1, <1>5, <1>6

LEMMA NodesAreFound ==
  ASSUME DiskType, TreeOn(PagesInFile, disk_meta.root_pid)
  PROVE  Nodes(PagesInFile) \subseteq SubtreeOnDisk
<1> DEFINE A    == Nodes(PagesInFile)
           root == disk_meta.root_pid
           M    == TABLE_MAX_PAGES
<1>1. PICK found : DiskLevels(found)
  BY SubtreeByLevel
<1>2. PICK s \in Shapes : TreeShape(PagesInFile, A, root, s)
  BY FileTreeLinked
<1>3. /\ WellLinked(PagesInFile, A, root)
      /\ \A p \in A : PagesInFile[p].parent # Unwritten
  BY FileTreeLinked DEF TreeOn
<1>4. M \in Nat /\ A \subseteq 0 .. M - 1
  BY Counts DEF Nodes, PageId
<1>5. \A p \in A : s.height[p] \in Nat /\ s.height[p] < M
  BY <1>2, <1>3, <1>4, ShapeOfPage, HeightsBelow
<1>6. ASSUME NEW p \in A, p # root
      PROVE  \E q \in A : s.height[q] = s.height[p] + 1 /\ p \in ChildrenOnDisk(q)
  BY <1>2, <1>3, <1>6, ParentOnDisk
<1> HIDE DEF A, root, M
<1> DEFINE High(k) == {p \in A : s.height[p] >= M - k}
           T == {k \in Nat : k <= M => root \in found[k] /\ High(k) \subseteq found[k]}
<1>7. 0 \in T
  <2>1. High(0) = {}
    <3>1. ASSUME NEW p \in A
          PROVE  ~(s.height[p] >= M - 0)
      <4>1. s.height[p] \in Nat /\ s.height[p] < M /\ M \in Nat
        BY <1>4, <1>5
      <4> QED
        BY <4>1
    <3> QED
      BY <3>1
  <2> HIDE DEF High
  <2> QED
    BY <1>1, <2>1 DEF DiskLevels, root
<1>8. ASSUME NEW k \in Nat, k \in T
      PROVE  k + 1 \in T
  <2> SUFFICES ASSUME k + 1 <= M
               PROVE  root \in found[k + 1] /\ High(k + 1) \subseteq found[k + 1]
    OBVIOUS
  <2>1. k + 1 \in 1 .. M /\ (k + 1) - 1 = k /\ k <= M
    BY <1>4
  <2>2. root \in found[k] /\ High(k) \subseteq found[k]
    BY <1>8, <2>1
  <2>3. found[k + 1] = WithChildren(found[k])
    BY <1>1, <2>1 DEF DiskLevels, M
  <2>4. ASSUME NEW p \in High(k + 1)
        PROVE  p \in found[k + 1]
    <3>1. CASE p = root
      BY <2>2, <2>3, <3>1 DEF WithChildren
    <3>2. CASE p # root
      <4>1. PICK q \in A : s.height[q] = s.height[p] + 1 /\ p \in ChildrenOnDisk(q)
        BY <1>6, <3>2
      <4>2. q \in High(k)
        BY <1>4, <1>5, <4>1
      <4> QED
        BY <2>2, <2>3, <4>1, <4>2 DEF WithChildren
    <3> QED
      BY <3>1, <3>2
  <2> QED
    BY <2>2, <2>3, <2>4 DEF WithChildren
<1> HIDE DEF T
<1>9. M \in T
  BY <1>4, <1>7, <1>8, NatSetInduction
<1>10. A \subseteq found[M]
  <2>1. High(M) \subseteq found[M]
    BY <1>4, <1>9 DEF T
  <2>2. A \subseteq High(M)
    BY <1>4, <1>5
  <2> QED
    BY <2>1, <2>2
<1> QED
  BY <1>1, <1>10 DEF DiskLevels, A, M

(***************************************************************************)
(* A file that was closed opens, whatever happened to it until the next    *)
(* replacement of a page: the root and every page below it are in the file *)
(* and are nodes, so no get_page of the tree reads short (main.cpp:27,     *)
(* dbfile.cpp:276).                                                        *)
(***************************************************************************)
THEOREM KeptFilesOpen == DatabaseSpec => []KeptFileOpens
<1>1. DatabaseInv => KeptFileOpens
  <2> SUFFICES ASSUME DatabaseInv, file = "complete"
               PROVE  /\ RootReadable
                      /\ \A p \in SubtreeOnDisk :
                           InFile(p) /\ disk_pages[p].kind \in {"leaf", "inner"}
    BY DEF KeptFileOpens
  <2>1. DiskType /\ TreeOn(PagesInFile, disk_meta.root_pid)
    BY DEF DatabaseInv, FileInv
  <2>2. /\ WellLinked(PagesInFile, Nodes(PagesInFile), disk_meta.root_pid)
        /\ disk_meta.root_pid \in Nodes(PagesInFile)
    BY <2>1, FileTreeLinked
  <2>3. \A p \in Nodes(PagesInFile) :
          InFile(p) /\ disk_pages[p].kind \in {"leaf", "inner"}
    BY <2>1, <2>2, ChildOnDisk
  <2> QED
    BY <2>1, <2>2, <2>3, FoundAreNodes DEF RootReadable
<1> QED
  BY <1>1, DatabaseInvariance, PTL

------------------------------------------------------------------------------
(***************************************************************************)
(* What the map sees of a state: the cells of the pages in memory, the     *)
(* cells of the pages in the file.                                         *)
(***************************************************************************)
LeafCells(ps) ==
  UNION {CellsOf(ps[p]) : p \in {q \in Nodes(ps) : ps[q].kind = "leaf"}}

LEMMA RowsAre ==
  RowsInSession = IF Session THEN LeafCells(pages) ELSE {}
BY DEF RowsInSession, Session, StoredRows, LeafPages, Allocated, LeafCells, Nodes

LEMMA RowsWillBe ==
  RowsInSession' = IF Session' THEN LeafCells(pages') ELSE {}
<1>1. (RowsInSession = IF Session THEN LeafCells(pages) ELSE {})'
  BY RowsAre, PTL
<1> QED
  BY <1>1

SavedCells(complete, ps) ==
  IF complete THEN [known |-> TRUE, cells |-> LeafCells(ps)] ELSE [known |-> FALSE]

LEMMA SavedIs ==
  DatabaseInv => Saved = SavedCells(file = "complete", PagesInFile)
<1> SUFFICES ASSUME DatabaseInv
             PROVE  Saved = SavedCells(file = "complete", PagesInFile)
  OBVIOUS
<1>1. CASE file = "complete"
  <2>1. DiskType /\ TreeOn(PagesInFile, disk_meta.root_pid)
    BY <1>1 DEF DatabaseInv, FileInv
  <2>2. SubtreeOnDisk = Nodes(PagesInFile)
    BY <2>1, FoundAreNodes, NodesAreFound
  <2>3. \A p \in Nodes(PagesInFile) : disk_pages[p] = PagesInFile[p]
    BY <2>1, FileTreeLinked, ChildOnDisk
  <2>4. CellsOnDisk = LeafCells(PagesInFile)
    BY <2>2, <2>3 DEF CellsOnDisk, LeafCells
  <2> QED
    BY <1>1, <2>4 DEF Saved, SavedCells
<1>2. CASE file # "complete"
  BY <1>2 DEF Saved, SavedCells
<1> QED
  BY <1>1, <1>2

LEMMA SavedWillBe ==
  ASSUME DatabaseInv'
  PROVE  Saved' = SavedCells(file' = "complete", PagesInFile')
<1>1. (DatabaseInv => Saved = SavedCells(file = "complete", PagesInFile))'
  BY SavedIs, PTL
<1> QED
  BY <1>1

\* What a step leaves in the file.
KeepsFile ==
  (file' = "complete" <=> file = "complete")
    /\ (file = "complete" => PagesInFile' = PagesInFile)

LEMMA SavedIsKept ==
  ASSUME DatabaseInv, DatabaseInv', KeepsFile
  PROVE  Saved' = Saved
BY SavedIs, SavedWillBe DEF KeepsFile, SavedCells

LEMMA StatusIs ==
  /\ Session => Status = "open"
  /\ ~Session /\ file = "complete" => Status = "closed"
  /\ ~Session /\ file = "damaged" => Status = "lost"
  /\ ~Session /\ file = "absent" => Status = "absent"
BY DEF Status, Session

LEMMA StatusWillBe ==
  /\ Session' => Status' = "open"
  /\ ~Session' /\ file' = "complete" => Status' = "closed"
  /\ ~Session' /\ file' = "damaged" => Status' = "lost"
  /\ ~Session' /\ file' = "absent" => Status' = "absent"
<1>1. (/\ Session => Status = "open"
       /\ ~Session /\ file = "complete" => Status = "closed"
       /\ ~Session /\ file = "damaged" => Status = "lost"
       /\ ~Session /\ file = "absent" => Status = "absent")'
  BY StatusIs, PTL
<1> QED
  BY <1>1

LEMMA NoRequest ==
  /\ call = Idle => MapRequest = PM!Nothing
  /\ call' = Idle => MapRequest' = PM!Nothing
  /\ call' = call => MapRequest' = MapRequest
<1>1. call = Idle => MapRequest = PM!Nothing
  BY DEF MapRequest, Idle, PM!Nothing
<1>2. call' = Idle => MapRequest' = PM!Nothing
  BY DEF MapRequest, Idle, PM!Nothing
<1>3. call' = call => MapRequest' = MapRequest
  BY DEF MapRequest
<1> QED
  BY <1>1, <1>2, <1>3

LEMMA NewMemory ==
  ASSUME NEW ps, NEW root, NEW count, Memory(ps, root, count), RowsInSession' = {}
  PROVE  PM!NoSession
<1>1. call' = Idle /\ reply' = [status |-> "NONE"]
  BY DEF Memory, NoReply, Reply
<1> QED
  BY <1>1, NoRequest DEF PM!NoSession, PM!Pending, PM!Answer

(***************************************************************************)
(* The steps of the program as steps of the persistent map.                *)
(***************************************************************************)
LEMMA InitPM ==
  ASSUME DatabaseInit
  PROVE  PM!PMInit
<1>1. /\ ~Session /\ file = "absent" /\ call = Idle /\ reply = [status |-> "NONE"]
  BY DEF DatabaseInit, Session, NoReply, Reply
<1>2. Status = "absent" /\ RowsInSession = {} /\ MapRequest = PM!Nothing
  BY <1>1, StatusIs, RowsAre, NoRequest
<1>3. Saved = [known |-> FALSE]
  BY <1>1 DEF Saved
<1> QED
  BY <1>1, <1>2, <1>3 DEF PM!PMInit, PM!Init, PM!Pending, PM!Answer, PM!NothingSaved

LEMMA CreateIsCreate ==
  ASSUME DatabaseInv, DatabaseInv', Create
  PROVE  PM!Create
<1>1. /\ ~Session /\ file = "absent" /\ file' = "changing" /\ task' = AllocateRoot(0)
  BY DEF Create, Session
<1>2. Session'
  BY <1>1, Tasks DEF Session
<1>3. Status = "absent" /\ Status' = "open"
  BY <1>1, <1>2, StatusIs, StatusWillBe
<1>4. Saved' = Saved
  BY <1>1, SavedIsKept DEF KeepsFile
<1>5. RowsInSession' = {}
  <2>1. Init'
    BY DEF Create, Memory, Init, PageId, LeafNode
  <2>2. (Init => TreeInv /\ StoredRows = {})'
    BY EmptyTree, PTL
  <2>3. task' # NoProcess
    BY <1>2 DEF Session
  <2> QED
    BY <2>1, <2>2, <2>3 DEF RowsInSession
<1>6. PM!NoSession
  BY <1>5, NewMemory DEF Create
<1> QED
  BY <1>3, <1>4, <1>6 DEF PM!Create

LEMMA OpenIsOpen ==
  ASSUME DatabaseInv, DatabaseInv', Open
  PROVE  PM!Open
<1>1. /\ ~Session /\ file = "complete" /\ file' = file /\ task' = Ready
      /\ UNCHANGED disk /\ DiskType
      /\ pages' = PagesInFile /\ call' = Idle /\ reply' = [status |-> "NONE"]
  BY DEF Open, Session, Memory, NoReply, Reply, DatabaseInv
<1>2. Session'
  BY <1>1, Tasks DEF Session
<1>3. Status = "closed" /\ Status' = "open"
  BY <1>1, <1>2, StatusIs, StatusWillBe
<1>4. Saved' = Saved
  BY <1>1, SameDisk, SavedIsKept DEF KeepsFile
<1>5. RowsInSession' = LeafCells(PagesInFile)
  BY <1>1, <1>2, RowsWillBe
<1>6. Saved.cells = LeafCells(PagesInFile)
  BY <1>1, SavedIs DEF SavedCells
<1>7. MapRequest' = PM!Nothing
  BY <1>1, NoRequest
<1> QED
  BY <1>1, <1>3, <1>4, <1>5, <1>6, <1>7 DEF PM!Open, PM!Pending, PM!Answer

LEMMA FinishIsExit ==
  ASSUME DatabaseInv, DatabaseInv', Finish, call.pc # "climb"
  PROVE  PM!Exit
<1>1. DiskType /\ TreeInv /\ PagesInFile = pages
  BY FlushedIsComplete
<1>2. /\ task.at = "flush" /\ task' = NoProcess /\ file' = "complete"
      /\ NoMemory /\ UNCHANGED disk
  BY DEF Finish
<1>3. Session /\ ~Session'
  BY <1>2, Tasks DEF Session
<1>4. Status = "open" /\ Status' = "closed"
  BY <1>2, <1>3, StatusIs, StatusWillBe
<1>8. MapRequest.state # "stored"
  <2>1. call.pc \in {"idle", "find"}
    BY <1>1 DEF TreeInv, IndInv, Call
  <2> QED
    BY <2>1 DEF MapRequest
<1>5. RowsInSession = LeafCells(pages) /\ RowsInSession' = {}
  BY <1>3, RowsAre, RowsWillBe
<1>6. Saved' = [known |-> TRUE, cells |-> RowsInSession]
  <2>1. PagesInFile' = PagesInFile
    BY <1>1, <1>2, SameDisk
  <2> QED
    BY <1>1, <1>2, <1>5, <2>1, SavedWillBe DEF SavedCells
<1>7. PM!NoSession
  BY <1>2, <1>5, NewMemory DEF NoMemory
<1> QED
  BY <1>4, <1>6, <1>7, <1>8 DEF PM!Exit, PM!CellsSaved

LEMMA DieIsCrash ==
  ASSUME DatabaseInv, DatabaseInv', Session, Die
  PROVE  PM!Crash
<1>1. /\ task' = NoProcess /\ NoMemory /\ UNCHANGED disk /\ file' = Died
      /\ DiskType /\ file \in {"complete", "changing"}
  BY DEF Die, DatabaseInv, FileInv
<1>2. ~Session'
  BY <1>1 DEF Session
<1>3. /\ file = "complete" => file' = "complete"
      /\ file = "changing" => file' = "damaged"
  BY <1>1 DEF Died
<1>4. Status = "open" /\ RowsInSession' = {}
  BY <1>2, StatusIs, RowsWillBe
<1>5. Saved' = Saved
  <2>1. KeepsFile
    BY <1>1, <1>3, SameDisk DEF KeepsFile
  <2> QED
    BY <2>1, SavedIsKept
<1>6. Status' = IF Saved.known THEN "closed" ELSE "lost"
  <2>1. CASE file = "complete"
    <3>1. Saved.known = TRUE
      BY <2>1, SavedIs DEF SavedCells
    <3> QED
      BY <1>2, <1>3, <2>1, <3>1, StatusWillBe
  <2>2. CASE file = "changing"
    <3>1. Saved.known = FALSE
      BY <2>2 DEF Saved
    <3> QED
      BY <1>2, <1>3, <2>2, <3>1, StatusWillBe
  <2> QED
    BY <1>1, <2>1, <2>2
<1>7. PM!NoSession
  BY <1>1, <1>4, NewMemory DEF NoMemory
<1> QED
  BY <1>4, <1>5, <1>6, <1>7 DEF PM!Crash

\* A step that leaves the tree alone leaves the file alone or replaces
\* something in it.
LEMMA FileStep ==
  ASSUME DatabaseInv, DatabaseInv', UNCHANGED <<pages, call, reply>>,
         Session, Session',
         file' = "complete" => file = "complete" /\ PagesInFile' = PagesInFile
  PROVE  PM!ReplaceFile \/ UNCHANGED PM!pmvars
<1>1. pages' = pages /\ call' = call /\ reply' = reply
  OBVIOUS
<1>2. UNCHANGED PM!omvars
  BY <1>1, RowsAre, RowsWillBe, NoRequest DEF PM!omvars
<1>3. Status = "open" /\ Status' = "open"
  BY StatusIs, StatusWillBe
<1>4. Saved' = Saved \/ Saved' = [known |-> FALSE]
  BY SavedIs, SavedWillBe DEF SavedCells
<1> QED
  BY <1>2, <1>3, <1>4 DEF PM!ReplaceFile, PM!pmvars, PM!NothingSaved


\* The ordered map within the persistent one, while there is a session.
LEMMA TreeStepIsCommand ==
  ASSUME DatabaseInv, DatabaseInv', TreeStep
  PROVE  PM!Command \/ UNCHANGED PM!pmvars
<1>1. /\ Session /\ file' = file /\ UNCHANGED disk /\ DiskType
      /\ IndInv /\ ShapeInv /\ RootHasKeys /\ [Next]_vars
  BY Tasks DEF TreeStep, DatabaseInv, MemoryInv, TreeInv, Session
<1>2. Session'
  BY Tasks DEF TreeStep, Session
<1>3. Status = "open" /\ Status' = "open"
  BY <1>1, <1>2, StatusIs, StatusWillBe
<1>4. Saved' = Saved
  BY <1>1, SameDisk, SavedIsKept DEF KeepsFile
<1>5. RowsInSession = StoredRows /\ RowsInSession' = StoredRows'
  BY <1>1, <1>2 DEF RowsInSession, Session
<1>6. Map!Next \/ UNCHANGED Map!omvars
  BY <1>1, StepMap
<1>7. CASE UNCHANGED Map!omvars
  BY <1>3, <1>4, <1>5, <1>7 DEF Map!omvars, PM!pmvars, PM!omvars
<1>8. CASE Map!Next
  <2> SUFFICES PM!Next
    BY <1>3, <1>4 DEF PM!Command
  <2>1. ASSUME NEW cell \in Map!Cell, Map!Ask(cell)
        PROVE  PM!Next
    <3>1. cell \in PM!Cell
      BY DEF Map!Cell, PM!Cell
    <3>2. PM!Ask(cell)
      BY <1>5, <2>1
         DEF Map!Ask, PM!Ask, Map!Nothing, PM!Nothing, Map!Asked, PM!Asked,
             Map!Pending, PM!Pending, Map!Answer, PM!Answer
    <3> QED
      BY <3>1, <3>2 DEF PM!Next
  <2>2. CASE Map!Store
    <3>1. PM!Store
      BY <1>5, <2>2
         DEF Map!Store, PM!Store, Map!Keys, PM!Keys, Map!Nothing, PM!Nothing,
             Map!Stored, PM!Stored, Map!Answer, PM!Answer
    <3> QED
      BY <3>1 DEF PM!Next
  <2>3. CASE Map!Confirm
    <3>1. PM!Confirm
      BY <1>5, <2>3
         DEF Map!Confirm, PM!Confirm, Map!Nothing, PM!Nothing,
             Map!Stored, PM!Stored, Map!Answer, PM!Answer
    <3> QED
      BY <3>1 DEF PM!Next
  <2>4. CASE Map!Refuse
    <3>1. PM!Refuse
      BY <1>5, <2>4
         DEF Map!Refuse, PM!Refuse, Map!Keys, PM!Keys, Map!Nothing, PM!Nothing,
             Map!Answer, PM!Answer
    <3> QED
      BY <3>1 DEF PM!Next
  <2>5. ASSUME NEW range \in SelectRange, Map!Query(range[1], range[2])
        PROVE  PM!Next
    <3>1. PM!Query(range[1], range[2])
      BY <1>5, <2>5
         DEF Map!Query, PM!Query, Map!Nothing, PM!Nothing, Map!Found, PM!Found,
             Map!InOrder, PM!InOrder, Map!ToSet, PM!ToSet
    <3> QED
      BY <3>1 DEF PM!Next
  <2> QED
    BY <1>8, <2>1, <2>2, <2>3, <2>4, <2>5 DEF Map!Next
<1> QED
  BY <1>6, <1>7, <1>8

LEMMA StutterIsStutter ==
  ASSUME DatabaseInv, DatabaseInv', UNCHANGED databaseVars
  PROVE  UNCHANGED PM!pmvars
<1>1. /\ task' = task /\ file' = file /\ UNCHANGED disk /\ DiskType
      /\ pages' = pages /\ call' = call /\ reply' = reply
  BY DEF databaseVars, memory, vars, DatabaseInv
<1>2. Session' <=> Session
  BY <1>1 DEF Session, NoProcess
<1>3. UNCHANGED PM!omvars
  BY <1>1, <1>2, RowsAre, RowsWillBe, NoRequest DEF PM!omvars
<1>4. Saved' = Saved
  BY <1>1, SameDisk, SavedIsKept DEF KeepsFile
<1>5. Status' = Status
  <2>1. CASE Session
    BY <1>2, <2>1, StatusIs, StatusWillBe
  <2>2. CASE ~Session
    <3>1. file \in {"absent", "complete", "damaged"}
      BY <2>2 DEF DatabaseInv, FileInv
    <3> QED
      BY <1>1, <1>2, <2>2, <3>1, StatusIs, StatusWillBe
  <2> QED
    BY <2>1, <2>2
<1> QED
  BY <1>3, <1>4, <1>5 DEF PM!pmvars

\* The writes of the process, and what only changes what it does next.
LEMMA WriteIsFileStep ==
  ASSUME DatabaseInv, DatabaseInv',
         \/ WriteRoot \/ WriteCount \/ FlushNext
         \/ Exit \/ ReadNothing \/ FailAllocatePage
  PROVE  PM!ReplaceFile \/ UNCHANGED PM!pmvars
<1>1. DiskType /\ DiskType'
  BY DEF DatabaseInv
<1>2. CASE WriteRoot
  <2>1. /\ \E root \in PageId :
             \/ task = AllocateRoot(root) /\ task' = AllocateCount
             \/ task = CloseRoot /\ task' = CloseCount
        /\ file' = Replaced(disk_meta' # disk_meta)
        /\ UNCHANGED memory /\ disk_pages' = disk_pages
    BY <1>2 DEF WriteRoot
  <2>2. Session /\ Session'
    BY <2>1, Tasks DEF Session
  <2>3. file' = "complete" => file = "complete"
    BY <2>1 DEF Replaced
  <2>4. PagesInFile' = PagesInFile
    BY <1>1, <2>1, SameFile
  <2> QED
    BY <2>1, <2>2, <2>3, <2>4, FileStep DEF memory, vars
<1>3. CASE WriteCount
  <2>1. /\ \/ task = AllocateCount /\ task' = Ready
           \/ task = CloseCount /\ task' = Flush(0)
        /\ file' = file /\ UNCHANGED memory /\ disk_pages' = disk_pages
    BY <1>3 DEF WriteCount
  <2>2. Session /\ Session'
    BY <2>1, Tasks DEF Session
  <2>3. PagesInFile' = PagesInFile
    BY <1>1, <2>1, SameFile
  <2> QED
    BY <2>1, <2>2, <2>3, FileStep DEF memory, vars
<1>4. CASE FlushNext
  <2>1. task.at = "flush" /\ task' = Flush(task.next + 1) /\ UNCHANGED memory
    BY <1>4 DEF FlushNext
  <2>2. Session /\ Session'
    BY <2>1, Tasks DEF Session
  <2>3. ASSUME file' = "complete"
        PROVE  file = "complete" /\ disk_pages' = disk_pages
    <3>1. CASE pages[task.next] = NoPage
      <4>1. /\ file' = file
            /\ \/ disk_pages' = disk_pages
               \/ disk_pages' = [disk_pages EXCEPT ![task.next] = Hole]
        BY <1>4, <3>1 DEF FlushNext, disk
      <4>2. NoLoss
        BY <2>2 DEF DatabaseInv, MemoryInv
      <4>3. task.next \in PageId => disk_pages[task.next] = Hole
        BY <3>1, <4>2 DEF NoLoss
      <4> QED
        BY <1>1, <2>3, <4>1, <4>3 DEF DiskType
    <3>2. CASE pages[task.next] # NoPage
      <4>1. /\ disk_pages' = [disk_pages EXCEPT ![task.next] = pages[task.next]]
            /\ file' = Replaced(pages[task.next] # disk_pages[task.next])
        BY <1>4, <3>2 DEF FlushNext, Unfilled
      <4>2. file = "complete" /\ pages[task.next] = disk_pages[task.next]
        BY <2>3, <4>1 DEF Replaced
      <4> QED
        BY <1>1, <4>1, <4>2 DEF DiskType
    <3> QED
      BY <3>1, <3>2
  <2>4. file' = "complete" => file = "complete" /\ PagesInFile' = PagesInFile
    BY <1>1, <2>3, SameFile
  <2> QED
    BY <2>1, <2>2, <2>4, FileStep DEF memory, vars
<1>5. CASE Exit \/ ReadNothing
  <2>1. /\ task \in {Ready, EndOfInput} /\ task' \in {CloseRoot, EndOfInput}
        /\ file' = file /\ UNCHANGED memory /\ UNCHANGED disk
    BY <1>5 DEF Exit, ReadNothing
  <2>2. Session /\ Session'
    BY <2>1, Tasks DEF Session
  <2>3. PagesInFile' = PagesInFile
    BY <1>1, <2>1, SameDisk
  <2> QED
    BY <2>1, <2>2, <2>3, FileStep DEF memory, vars
<1>6. CASE FailAllocatePage
  <2>1. /\ task = Ready /\ task' = CloseRoot
        /\ file' = Replaced(disk_meta' # disk_meta)
        /\ UNCHANGED <<pages, call, reply>> /\ disk_pages' = disk_pages
    BY <1>6 DEF FailAllocatePage
  <2>2. Session /\ Session'
    BY <2>1, Tasks DEF Session
  <2>3. file' = "complete" => file = "complete"
    BY <2>1 DEF Replaced
  <2>4. PagesInFile' = PagesInFile
    BY <1>1, <2>1, SameFile
  <2> QED
    BY <2>1, <2>2, <2>3, <2>4, FileStep
<1> QED
  BY <1>2, <1>3, <1>4, <1>5, <1>6

LEMMA StepPM ==
  ASSUME DatabaseInv, [DatabaseNext]_databaseVars
  PROVE  [PM!PMNext]_PM!pmvars
<1>1. DatabaseInv'
  BY StepDatabaseInv
<1>2. CASE Create
  BY <1>1, <1>2, CreateIsCreate DEF PM!PMNext
<1>3. CASE Open
  BY <1>1, <1>3, OpenIsOpen DEF PM!PMNext
<1>4. CASE FailStart \/ StartOnDamagedFile \/ UNCHANGED databaseVars
  BY <1>1, <1>4, StutterIsStutter DEF FailStart, StartOnDamagedFile
<1>5. CASE \/ SelectCommand \/ InsertStep
           \/ \E key \in Key, row \in Row : InsertCommand(key, row)
  BY <1>1, <1>5, CommandIsTreeStep, TreeStepIsCommand DEF PM!PMNext
<1>6. CASE InsertLongField \/ Crash
  <2>1. Session /\ Die
    BY <1>6, Tasks DEF InsertLongField, Crash, Session
  <2> QED
    BY <1>1, <2>1, DieIsCrash DEF PM!PMNext
<1>7. CASE \/ WriteRoot \/ WriteCount \/ FlushNext
           \/ Exit \/ ReadNothing \/ FailAllocatePage
  BY <1>1, <1>7, WriteIsFileStep DEF PM!PMNext
<1>8. CASE Finish
  <2>1. CASE call.pc = "climb"
    BY <1>1, <1>8, <2>1, FinishInClimb, DieIsCrash DEF PM!PMNext
  <2>2. CASE call.pc # "climb"
    BY <1>1, <1>8, <2>2, FinishIsExit DEF PM!PMNext
  <2> QED
    BY <2>1, <2>2
<1> QED
  BY <1>2, <1>3, <1>4, <1>5, <1>6, <1>7, <1>8 DEF DatabaseNext, Command

(***************************************************************************)
(* The program is a persistent ordered map, over any number of sessions    *)
(* and whatever the moment one of them dies: a start after .exit has every *)
(* row that was inserted and no other; a crash of a session that has not   *)
(* moved the root in the metadata or replaced a page costs the inserts of  *)
(* that session and nothing else (main.cpp:21-45, dbfile.cpp:247-328).     *)
(***************************************************************************)
THEOREM PersistentMapRefinement == DatabaseSpec => ImplementsPersistentMap
<1>1. DatabaseInit => PM!PMInit
  BY InitPM
<1>2. DatabaseInv /\ [DatabaseNext]_databaseVars => [PM!PMNext]_PM!pmvars
  BY StepPM
<1> QED
  BY <1>1, <1>2, DatabaseInvariance, PTL
     DEF DatabaseSpec, ImplementsPersistentMap, PM!PMSpec
==============================================================================
