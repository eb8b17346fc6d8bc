# A TLA+ model of dbtoy

dbtoy is a single-process toy database: one table, one B+ tree, one file. This
directory holds TLA+ modules that model its core, TLC configurations that check
them on small instances, and proofs that TLAPS checks for every value of the
constants.

Paths below are relative to the root of the repository as it is mounted under
`src/`, so the tree is in `src/src/core/btree.{h,cpp}`.

    tlasany M.tla                      parse a module
    tlc -workers 2 -config X.cfg M     check a run
    tlapm M.tla                        check the proofs of a module

## 1. Inventory

| part | code | state | operations |
|---|---|---|---|
| command loop | `main.cpp`, `command.{h,cpp}` | none beyond the line it read | parse a line, call the tree, print the answer |
| global variables | `global_variables.{h,cpp}` | row size, path, mode and the two loads of the one tree (defaults 10000 and 1000) | `set_btree_paramters`, `get_btree` (builds the tree on its first call, destroys it at exit) |
| nodes | `BtreeNode`, `LeafNode`, `InternalNode` in `btree.h` | a page: node type, root byte, parent, number of keys, cells | search, insert, insert and split, the assertions of each |
| tree | `BPlusTree` in `btree.{h,cpp}` | `root` and `root_page` (a pointer to the cached root), the two loads; the local variables of the call in progress | `insert`, `find`, `select_cell`, `update_root`, `check_valid` |
| pager | `BTreePager`, `BtreeMetaData` in `dbfile.{h,cpp}` | `root_pid`, `num_pages`, the array of cached pages; the file | constructor (`'c'` truncates, `'o'` opens), `get_page`, `allocate_page`, `set_root_page`, `flush_page`, `sync`, destructor |
| flat table | `Table`, `TableBuffer` in `table.{h,cpp}`, `DbFile` in `dbfile.{h,cpp}` | rows packed in pages; the number of rows follows from the length of the file | append, get a row's slot, close; replaced by the tree and used by `start_tests.cpp` only |
| rows | `UserInfo` in `row.{h,cpp}` | three fixed-size fields | serialize, deserialize, `from_string`, which asserts that a field fits |

How they interact. All calls are synchronous and on one thread. `main` opens or
creates the file, builds a `BPlusTree` on a `BTreePager` and hands it one command
at a time. The tree never reads or writes the file: it asks the pager for a
page, keeps the pointer while it works on the node and writes through it. The
pager caches every page it was ever asked for; the file sees page contents only
when the pager is destroyed, but sees the metadata at every `allocate_page`.

What is hard.

* There is no concurrency of threads. What can interleave is the program with
  its own death: between any two `write` calls, and in particular between the
  metadata of a page and the page (`dbfile.cpp:276`), and between two pages of
  the destructor's loop (`dbfile.cpp:224`). There is no log.
* A `write` that fails calls `exit` (`dbfile.cpp:152`), and what that does depends on where it is. In
  `allocate_page` it runs the destructors of the static tree in the middle of an insert, and they write
  the metadata and every page to the file. In the constructor of the tree, and in a destructor that
  `exit` is already running, no destructor runs after it.
* `insert` is one call, but a long one. A split allocates, moves cells, hands a
  key to the parent found through a stored parent pointer, relinks children,
  and repeats. In between, the tree is *not* a tree: the new half is known only
  to a local variable. A wrong pointer is followed by a later overflow only,
  many calls after the one that wrote it.
* Off-by-one questions at every boundary: how an odd number of cells is halved,
  where the new key falls relative to the pivot, on which side of a separator
  an equal key lives, which children a range query may prune.
* Two numbers for the same thing: `insert` caps the configured load at the
  capacity of a page, `check_valid` does not; the capacity of a page and
  `TABLE_MAX_PAGES` bound arrays that nothing compares with them.
* Memory from `malloc` that is only partly written.
* What is not in the file at all: the loads of a tree, the number of rows of a
  flat table. The next session infers them, from its own configuration and from the length of the file.

What makes each part correct.

* **Nodes**: the loops compute what they should without leaving the page; an insertion keeps the keys of a node sorted and each key with its
  row or its right child; a split loses no cell and no child, and both halves
  are at least half and at most full.
* **Tree**: a balanced search tree after every insert; between the steps of an
  insert, exactly one subtree is unlinked and its place is known; parent pointers and child
  pointers agree always; for the client, an ordered map.
* **Pager**: pages and root read back as written last, within a session and
  across sessions; a crash never goes unnoticed as wrong data, as far as that
  can be said of a file without a log.
* **Opening**: a file that was closed properly can be opened, with the
  loads it is opened with.
* **Flat table**: what was appended is there after closing and opening, and a death
  while closing costs the last rows only.
* **The whole**: an ordered map that is there again after `.exit`.

The hazards are listed one by one, with lines, in `PROJECT.json`.

## 2. Modules

| module | models | how |
|---|---|---|
| `BtreeNode` | the nodes | operators on records: what an insertion or a split makes of a node |
| `BPlusTree` | the tree | a state machine, one step per turn of a loop of `insert` |
| `OrderedMap` | what the tree promises | abstract specification, implemented by `BPlusTree` |
| `Pager` | the pager and its file | a state machine, one step per `write` |
| `PageStore` | what the pager promises | abstract specification, implemented by `Pager` |
| `NodeArrays` | the loops inside a page | a state machine, one step per turn of a loop, compared with `BtreeNode` |
| `Database` | the program: the tree, its file, sessions | extends `BPlusTree` with the file |
| `PersistentMap` | what the program promises | abstract specification, extends `OrderedMap`, implemented by `Database` |
| `ReopenedTree` | a tree used with two pairs of loads | two instances of `BPlusTree` on the same variables |
| `FlatTable` | the flat table and its file | a state machine, one step per `write` |
| `AppendLog` | what the flat table promises | abstract specification, implemented by `FlatTable` |
| `MCBPlusTree`, `MCPager`, `MCNodeArrays`, `MCDatabase`, `MCReopenedTree`, `MCFlatTable` | | small instances for TLC |
| `BtreeNodeProofs` | | lemmas on insertions and halves |
| `BPlusTreeProofs` | | type invariant and loads of the tree |
| `BPlusTreeOrderProofs` | | the shape invariant: order, height and links of the tree |
| `BPlusTreeTheorems` | | what follows from the two: the structural invariants, `check_valid`, the ordered map |
| `PagerProofs` | | the pager's invariants and its refinement of the page store |
| `FlatTableProofs` | | the flat table's invariants and its refinement of the log |
| `NodeArraysProofs` | | the loops inside a page compute what `BtreeNode` says |
| `DatabaseProofs` | | the invariants of the program with its file, and that it is a persistent map |

### BtreeNode and BPlusTree

`pages[p]` is the node in page `p` as `get_page(p)` returns it, `NoPage` if it has none; where its bytes
live is the pager's business. `Allocated` are the pages that have a node. A node is a record of its kind, root byte, parent
pointer, keys and rows or children; keys and rows are sequences, slots
are numbered from 1 (the code: from 0, and -1 for "before the first", which is
position 0 here). Slots beyond `num_cells` / `num_keys` are never read by the
code and are left out. A row is a model value.

`search_key_position` is modelled by the position it finds, not by its loop:
`IsKeyPosition` says that all keys up to `pos` are at most the key and all later
ones are above it. Where a node is sorted there is exactly one such
position. Where it is not there may be none, and the step blocks: the run
`tree_map` would report it as an insert that does not return.

One call of `insert` is a chain of steps, driven by the local variables in `call`:

| action | code |
|---|---|
| `Insert` | the call; `find` begins at the root |
| `Descend` | one turn of `find`'s loop, inner node to child |
| `RejectDuplicate` | the key is there: `FAIL_DUPLICATE_KEY` |
| `LeafInsert` | the leaf is not full: `LeafNode::insert`, `SUCCESS` |
| `LeafSplit` | `allocate_page`, `LeafNode::insert_and_split` |
| `ParentInsert` | a turn of the `while` loop whose parent has room |
| `ParentSplit` | a turn whose parent is full: `allocate_page`, `InternalNode::insert_and_split`, the parents of the two children, the relinking loop |
| `NewRoot` | after the loop: a new root, `update_root` |
| `Select` | a whole `select_cell`, which changes nothing |

Inside `ParentSplit` the order of the code matters and is kept: first the halves, then the
parent pointers of the two children, decided by comparing the inserted key with the pivot (so that
it is `LeftHome` and `RightHome` that decide, and the relinking of the children
of the new page that follows), last the parent pointer that the climb continues
with.

`FreshRootByte` is the set of values the root byte of a `malloc`ed page may
read as. Zero bytes only (`{FALSE}`) is what the passing runs assume; run
`root_byte` drops the assumption.
`Unwritten` stands for the parent pointer no constructor writes.

### Pager

The state is the object (`root_pid`, `num_pages`, `pages`, `Null` for what is
not cached), the file (`disk_meta`, `disk_pages`, `disk_length`) and the place in the call that is
in progress (`task`). `write_to_disk` is two writes, so `allocate_page` is three
steps (`Allocate`, `WriteRoot`, `WriteCount`) and the destructor is two steps
and one per page (`Close`, `WriteRoot`, `WriteCount`, `FlushNext`, `Finish`). Either
write of `allocate_page` may fail, which starts the destructor (`FailWrite`). A page written
beyond the end leaves a `Hole`, a page that nobody wrote and that reads as `Zero` (`InFile`). `Crash` ends the
process anywhere; so does the failing assertion of `get_page` (`FailShortRead`).
Writes reach the file when `write` returns: losing power is not modelled.
The variable `file` has no counterpart in the program: it records whether a session has
changed the file and whether one died after doing so, and no guard but
"there is a file" reads it.

The client of the pager is free: any page, any content of a small set, any root, in
any order. This is more than the tree does, so what holds here holds for the tree.

### NodeArrays

`BtreeNode` says what an insertion or a split makes of a node; `NodeArrays` says how the
code gets there. A page is an array of slots, numbered from 0 as in the code, that hold cells
or junk. A behaviour is one call on one page, from any sorted content to the
return: `leaf_insert`, `leaf_split`, `inner_insert`, `inner_split` or `search`.

| actions | code |
|---|---|
| `CountCell`, `ShiftCell`, `PlaceCell`; `FillEmptyNode` | `insert` of both nodes; the inner node's case n = 0 |
| `ScanFromEnd`, `ScanDown`, `ScanEnds` | the search for the place in `LeafNode::insert_and_split` |
| `StartSearch`, `SearchOn`, `SearchHit`, `SearchMiss` | `search_key_position`, and `search_insert_location` on top of it |
| `MoveCell`, `PlaceInHalf`, `Cut` | the move loop of both `insert_and_split`, the new cell, the new counts |

Key j and child j + 1 of an inner node move together in every loop of the code
and share a slot; child 0 is the page's `head`. Seen this way the loops of leaf and inner
node are the same but for the pivot, so they share actions. An assertion of the code is
a guard: a call that fails one does not return, which `Returns` would report.

### Database and ReopenedTree

`Database` extends `BPlusTree` with a file and runs it in sessions; its own specification is `DatabaseSpec`. `task` is what
the process is in the middle of: nothing, ready for the tree's next step or a
command, in one of the two metadata writes of an allocation, or in the destructors. A step of the tree that
allocates a page is followed by the two writes, and these carry the root as it was before the step.

| action | code |
|---|---|
| `Create`, `Open`, `FailStart` | `initalize` (the file exists or it does not), the constructor of the tree in mode `'c'` and `'o'`, and its `get_page` of the root when that page is not counted or not in the file |
| `StartOnDamagedFile` | a start on a damaged file that gets past its root |
| `Command`: `InsertCommand`, `SelectCommand`, `Exit`, `InsertLongField` | `parse`; the last one is the assertion on a field's length, which aborts |
| `ReadNothing` | the loop of `main` after the end of the input: `getline` fails again and again, and only a kill ends the process |
| `InsertStep` | any step of an insert in progress |
| `FailAllocatePage` | the next step of the insert needs a page, and one of the two writes of `allocate_page` fails: the destructors run |
| `WriteRoot`, `WriteCount` | `write_to_disk`, from an allocation or from the destructor |
| `FlushNext`, `Finish` | the destructor's loop |
| `Crash` | the process is killed |

Pages that an earlier, dead session counted but never wrote are `NoPage` in memory, and `Hole` in
the file once something behind them was written. A session never asks for them, since they are not in the tree: their slots of the
pager's array stay `nullptr`, and the destructor passes over them. The page of a failed allocation is `NoPage` too, but
it is in memory, so that the destructor writes it, with whatever `malloc` left in it: `Unfilled` tells it from the others
(the call was cut off, and it is the last page), and in the file it is a `Hole`, a page whose content means nothing.
If the leaf was not split yet when the allocation failed, the tree that is flushed is that of before the insert, and the file is as good
as after `.exit`. If it was (`call.pc = "climb"`), the right half is linked nowhere, and `Finish` leaves a damaged file.

`file` records, as in `Pager`,
what is known of the file. A start on a file that is `damaged` (a session died
while it replaced parts of it) is modelled; what that session would do with a mixture of two trees is not.

`ReopenedTree` is about the loads, which are not in the file. Its second session
uses the tree of the first with other loads, both being instances of `BPlusTree` on the same variables.

### FlatTable

`num_rows` and `num_pages` are counted when the file is opened, from its length.
`get_page` reads a page only if it was counted then, and only as far as the file
goes; everything else in it is `Junk`. `~Table` is one step per `flush_page` (`FlushFull`,
`FlushLast`), and the last page is written only as far as it has rows. The file is its pages and
its length in bytes, so that a page that is not full, and the bytes at the end of a page that no row uses, are what they are in the code.

### Abstract specifications

`OrderedMap` has a set of rows and a request. An insert is asked for, takes
effect at one moment (the leaf is written; the row counts as stored while the
split is still climbing), and is answered. A duplicate is refused exactly when the key is stored. A
query's answer names the range that was asked for and holds exactly the rows of that range, in order (without
the range in the answer, rows missing at one end would pass as the right answer to a smaller query). `BPlusTree!ImplementsOrderedMap` maps the
cells of all leaf pages to the map, so a row that is stored but no longer
reachable, or reachable twice, shows as a wrong answer.

`PageStore` is a store of pages with a root that is open, closed or lost.
It states what the code's lack of a log leaves: until a session changes
the file, a crash costs that session's writes only (`saved` survives); from
the first change to the end of the session the file is good for nothing, and a crash
makes it `lost` until it is created anew. What is promised after a
proper close is everything.

`PersistentMap` says the same of rows: a session sees the map the last `.exit`
left (`saved`), or the last failed write of `allocate_page`, if that was before the insert had stored its row; a crash before anything was replaced in the file costs that session's inserts only, a crash later
loses the map. "Replaced" means that the file's old content changed: appending to the counts is not enough,
since the pages of a dead session are never reached. So after any allocation without a moved root, and that is most
of them, the old map is still promised.

`AppendLog` is stronger, because the flat table only appends: what is saved is at
all times a prefix of what was appended and never less than what the session found, at every moment of the destructor too.

## 3. Runs

| run | expects | question |
|---|---|---|
| `tree_structure` | pass | every order of inserting the keys 0..7: is the tree linked, balanced, ordered and loaded as it should be between any two steps? |
| `tree_map` | pass | do inserts (duplicates too) and every range query behave as those of an ordered map, and does every insert return? |
| `pager_close` | pass | in sessions that end properly or with a failed write of `allocate_page`: is every page that is not in memory in the file, and does closing end? |
| `pager_crash` | pass | do pages and root survive every proper close, does the file then hold what it counts and no hole, and what survives a death between any two writes? |
| `node_arrays` | pass | do the loops compute what `BtreeNode` says, within their pages, without a failing assertion, and do they end? |
| `flat_table` | pass | are rows read back as appended, with deaths between any two writes? |
| `database` | pass | does the whole program behave as a map that survives `.exit`, and which crashes does it survive? |
| `root_byte` | violation | is the root byte set on the root alone, whatever `malloc` returns? |
| `inner_load` | violation | does `check_valid` accept every tree that `insert` builds? |
| `short_read` | violation | does `get_page`'s assertion hold after a crash? |
| `flat_table_empty` | violation | does the destructor of the flat table flush its own pages only? |
| `smaller_load` | violation | does a leaf that `insert` takes for not full have room, when the tree was built with a larger load? |

Bounds, and why they are enough.

* `tree_structure`: leaves of 4 in pages of capacity 2 (so the capacity is what counts, as with the shipping default of 10000)
  and inner nodes of 2 in pages of capacity 4 (so the load counts, as in the tests). Loads are even, 2 is the
  smallest. With 8 keys and nodes of 2 the tree grows to three levels, and inner nodes split with the new key left of, at
  and right of the pivot. A fourth level repeats the step from two to three:
  `ParentSplit` looks at one node, its children and nothing else. All 8! orders
  are covered, but many lead to the same tree.
* `tree_map`: six keys, two rows per key (so that a lost update or an overwritten row would show),
  every pair of bounds with min <= max, and one pair the wrong way round.
* `TABLE_MAX_PAGES` is 14 and 10, more than the keys can fill; the
  guards of `LeafSplit`, `ParentSplit` and `NewRoot` on it never block in the runs of the tree
  (a blocked insert would be a deadlock, since a client cannot call while one is in progress). In the pager it is 3, which
  has pages before, at and after any other; there it is a bound that is reached.
* `Content` has `Zero` and two others, so that two versions of a page differ from each other
  and from a hole.
* `node_arrays`: loads 2, 4 and 6 and seven keys. At 6, halves, pivot and both sides of
  it are different slots with something between them, and the binary search takes three turns. Every subset of the
  keys and every place for the new one is an initial state.
* `flat_table`: three pages of two rows, with one spare byte per page (4096 is not a multiple of the 68 bytes of a row either), and two rows, so that
  a row taken from the wrong place shows. Every number of rows from none to a full table occurs at every opening.
* `database`: five keys, one row, nodes of two: the root splits twice and the tree reaches
  three levels, over any number of sessions. Five ascending keys take four leaves, two inner nodes and a root, which
  are the seven pages there are. A page that a dead session or a failed allocation left behind takes one
  of the seven; where a path would then need more, the insert waits and the process can only die. So three levels and a lost page
  are not met together in this run (with eight pages they are, but it takes several times as long); the theorems of section 4 hold for any number of pages.
* `smaller_load`: leaves of 4 opened with a load of 2, the smallest instance.
* The keys of the code are `uint32_t`; the model compares them only, so 0 and `UINT32_MAX` (the largest
  key) are the only special ones.

No symmetry is declared: keys are ordered, and page numbers are.

Deadlock is checked in every run but `node_arrays`, where a behaviour is one
call and ends when it returns. In the tree a duplicate insert is always
possible, in the pager, the database and the flat table a process can always start, be refused, or die, so none of them stops.

Fairness. `insert` runs in the only thread of the process and waits for nothing; `FairSpec` of the tree
therefore has weak fairness on `Step` (the next step of the insert in progress), and none on the
client's calls. The destructor is a loop over `write` calls; `FairSpec` of the
pager has weak fairness on its steps, and none on the operations of a client. A call in
`NodeArrays` is a loop on memory in the only thread: weak fairness on `Next`.

### Findings

* `root_byte`: node constructors leave the root byte of a page as `malloc`
  returned it (`btree.h:149`, `set_root(false)` is commented out), so a node
  split off may claim to be a root; `check_valid` (`btree.cpp:359`) then throws.
* `inner_load`: `check_valid` (`btree.cpp:381`) measures with the load as
  configured, `insert` (`btree.cpp:126`) with the capped one. With the defaults
  of `global_variables.h:8`, every tree whose inner nodes have split is rejected.
  The tests set loads below the capacity, so they do not meet it.
* `short_read`: `allocate_page` counts a page in the file before the page is
  there. Die in between, open again, and `get_page` fails `assert(nbytes ==
  PAGE_SIZE)` (`dbfile.cpp:258`). By `KeptFileOpens` this does not happen to
  the pages of a tree that was closed properly: they are never the missing ones.
* `flat_table_empty`: for a table without rows `~Table` calls `flush_page(-1)`
  (`table.cpp:37`). What lies before the page array is taken for a page, the seek to a
  negative offset fails, and the process exits with an error.
* `smaller_load`: `isFull` is an equality, so a leaf with more cells than the load of
  the session (`btree.cpp:103`) is not full, and `LeafNode::insert` fails its assertion (`btree.h:290`). The program itself
  always uses the same loads.

## 4. Proofs

What is proved holds for any number of pages, any loads and capacities, any keys and rows.

| module | theorem | establishes |
|---|---|---|
| `BPlusTreeProofs` | `TypeInvariant`, `Loads` | `TypeOK`, `LoadsWithinBounds` |
| `BPlusTreeOrderProofs` | `Ordered` | `IndInv` and `ShapeInv`, from which the next ones follow |
| `BPlusTreeTheorems` | `ParentsLinked`, `LinkedOnce`, `Assertions`, `Separators`, `IsBalanced` | `ParentLinks`, `EveryPageLinkedOnce`, `AssertionsHold`, `SeparatorsBound`, `Balanced` |
| | `RootBytes`, `CheckValidHolds` | `RootByteOnlyOnRoot`, `CheckValidAccepts`, under the hypotheses below |
| | `MapRefinement` | `ImplementsOrderedMap` |
| `PagerProofs` | `TypeInvariant`, `ClosedFile`, `FullReads`, `Refinement` | `PagerTypeOK`, `ClosedFileIsWhole`, `ReadsFullPages`, `ImplementsPageStore` |
| `FlatTableProofs` | `TypeInvariant`, `FileOfWholeRows`, `ReadableRows`, `Refinement` | `FlatTableTypeOK`, `WholeRows`, `EveryRowReadable`, `ImplementsAppendLog` |
| `NodeArraysProofs` | `TypeInvariant`, `Reference`, `SearchResult` | `NodeArraysTypeOK`, `ComputesReference`, `SearchFinds` |
| `DatabaseProofs` | `DatabaseTypes`, `StartsFindRoot`, `KeptFilesOpen`, `PersistentMapRefinement` | `DatabaseTypeOK`, `StartFindsRoot`, `KeptFileOpens`, `ImplementsPersistentMap` |

Assumptions on the constants, all of which hold in the instances TLC checks:

* `LoadAssumption`, `LoadsAssumption`: loads and capacities are positive and even (both
  node constructors round down, `set_node_load` asserts it).
* `PageAssumption`: there is a page, and the two parent pointers that are no pages differ. `NoPageAssumption`: a page
  without a node is told from a node. `InputAssumption`:
  keys are numbers, ranges are of keys, the root byte is a byte read as a bool.
* `PagerAssumption`, and `NullAssumption` of the flat table: `nullptr` is not a page, and a hole is not what somebody wrote.
* `SizeAssumption`: a page holds at least one row. `ContentAssumption`: what nobody wrote is told from a row.
* `KeyAssumption`: `NodeArrays` draws the content of a page from a finite set of numbers, so that "the keys in
  order" exists.
* `SelectAssumption`: in `Database`, a client asks for all rows, as the command `select` does.

Two theorems have hypotheses of their own, and they are the ones the runs that expect a violation drop.
`RootBytes` has `FreshRootByte = {FALSE}` (run `root_byte`); `CheckValidHolds` has it too, and
`inner_node_load <= num_max_keys` (run `inner_load`).

### The tree: types and loads

Neither `TypeOK` nor `LoadsWithinBounds` is inductive. `TypeOK` says nothing of the parent pointer the climb
follows: if it were a leaf, or not yet written, `ParentInsert` would not yield a
node. The inductive invariant `IndInv` adds (a) `PageInv` for each page: well
formed, within its load, its parent pointer naming an allocated *inner* page, or invalid, or unwritten;
(b) `OnlyPendingUnwritten`: the only page whose parent is unwritten is the one
an insert is carrying up; (c) `ClimbInv`: the climb goes on at an inner page or has just split the root, and
the left half is half full, which `Loads` needs at the moment `NewRoot` makes the old
root an ordinary page. Pages are
replaced one at a time, and each step lemma uses the few lemmas about that
(`Rewrite`, `Extend`, `Relink` and the pointer lemmas).

### The tree: order, height and links

`Balanced`, `SeparatorsBound` and `EveryPageLinkedOnce` speak of all that is below a page, and a step
changes what is below many pages at once. `ShapeInv` says the same locally, page by page: there is
a *shape* that gives each page an interval `lo < key <= hi` and a height, such that

* the keys of a page are ascending and within its interval, those of an inner page below its upper bound;
* the i-th child of a page points back at it, is one less high, and has the interval between the keys on
  both sides of it; a page with a parent is one of the parent's children;
* the root has all keys, a leaf has height 0, and the intervals of two leaves do not overlap.

A page that was just split covers less than its parent still believes. So a shape has a third number per page,
`up`, the upper bound as the *parent* sees it, and `CallShape` says that `up` and `hi` agree but for the left
half of the split in progress, whose `up` is the `hi` of the right half; that the key on its way up is
the bound between the two; that both have the same height; and that `find` is at a page whose interval has the key.
Without `up`, the invariant would break at each split and come back at its end only.

A step is one of four changes to the shape: none, a page is split in two (`SplitShape`), the
pending page gets a parent (`SettledShape`), or the tree gets a level (`RaisedShape`). `ParentSplit` is the second
and the third at once: the overfull node, which the code never has in memory as one page, is a tree
node in its own right (`OverfullParent`), and its halves are (`InnerHalvesOrdered`). That the relinking loop and
`LeftHome`/`RightHome` agree with where the children went is `RelinkedSplit`. `ClimbSlot` is what
makes an insertion into the parent the right one: the key's position there is that of the left half, found by
comparing keys alone.

From the invariant to the properties:

* a child's interval starts where its left sibling's ends, so a page is in one slot of one node only
  (`ChildOnce`), which is `EveryPageLinkedOnce`;
* `AssertionsHold`: the pending key is strictly within an interval of the parent, so it is not there yet;
* `Separators` and `IsBalanced` are about functions defined by recursion over the levels below a page. Both
  proofs are by induction over the level, as a statement about the set of levels for
  which the claim holds. For `Balanced`, the recursion ends at the number of pages and a height must be less than that
  (`HeightsAreBounded`): a page of height h has pages of all heights below it, all of
  them different, and there are only so many pages;
* `CheckValidHolds` compares with each child's largest and smallest key, which are within its interval.

`RootByteOnlyOnRoot` has an invariant of its own beside `IndInv`: it is about one bit that no other step reads.

### The tree is an ordered map

`StepMap` gives the step of `OrderedMap` for each action:

| step of the tree | step of the map |
|---|---|
| `Insert` | `Ask` |
| `RejectDuplicate` | `Refuse` |
| `LeafInsert` | `Store` (which also answers) |
| `LeafSplit` | `Store` (the answer is to come) |
| `ParentInsert`, `NewRoot` | `Confirm` |
| `Descend`, `ParentSplit` | none |
| `Select` | `Query` |

*Inserts.* The rows of the map are the cells of all leaf pages. The steps that climb leave the cells of every leaf as they are
(`KeepsLeaves`), a leaf's halves share its cells (`CellsOfHalves`), and `LeafInsert` and `LeafSplit` add one
cell (`StoresCell`). Whether the key is new is decided by `find` at one leaf: as the
intervals of leaves do not overlap, a key is in one leaf at most, and `CallShape` says that `find` ended at the one whose
interval has the key (`KeyIsStored`).

*Queries.* `Answers(cells, lo, hi, set)` says that a list holds the cells of the set whose
keys are above `lo` and at most `hi`, each once and in order. Two answers for adjacent intervals join to one
(`AnswersJoin`), so the answers of a node's children join to that of the node, provided the children that
`post_order_visit` leaves out have nothing in the range (`VisitedChildren`: the two loops over the keys count those below
`min_key` and `max_key`). `CellsBelowAnswer` is the induction over the height of the page.
One thing of the code needs an invariant more: `post_order_visit` returns at once from a node without keys
(`btree.cpp:306`), which is right for an empty leaf only. `RootHasKeys` says that an inner root has a key; all other inner nodes do
because they are half loaded.

### The pager

`TypeInvariant` and `ClosedFile` hold with
crashes (`CrashSpec`), `FullReads` without (`Spec`), and `Refinement` shows
`CrashSpec => ImplementsPageStore`: each step maps to a step of the store or to none. The
inductive invariant `IInv` behind them: a page that is not in memory is in the file and no hole (`Homes`);
the file is no longer than what memory counts (`NoLonger`);
a file that was closed and not changed since holds exactly what it counts, without holes (`WholeFile`); the flush loop has
left nothing behind it (`FlushedPrefix`) and has found the metadata of the memory in the file
(`MetaWritten`); and which file states go with which tasks (`FileStates`). `Homes` alone is not
inductive: at the end of the loop, memory is emptied, and only the other parts say that nothing was in it
and that the next session will count the same pages. That the count is neither less nor more than the length needs both
`Homes` and `NoLonger`. `FailWrite` needs no reason of its own: the destructor writes again
what the failed writes were to write.

### The flat table

The invariant of `FlatTableProofs` counts in rows where the code counts in bytes: the file is as long as some
number of rows takes, `SavedCount`, the unused end of each full page included (`EndsBehindRow`); its rows are the first
`SavedCount` rows of the session (`FileIsPrefix`), where a page in memory counts before the file; and a row that is
not in memory is one of them (`RowsKept`). `WholeRows` alone is not inductive: it does not say that the flush loop
writes pages in order, without which the file would have a hole that counts as rows. `FlushedInOrder` says so. The arithmetic
(`RowsOfLength`, `LengthGrows`: the number of rows and the length determine each other, for any sizes of row and page) is
proved once, from the quotient and the remainder. With `FileIsPrefix`, `FlushFull` and `FlushLast` are "more rows are saved" in
`AppendLog` and a crash is the end of a session that keeps what is saved, so that `Refinement` has one lemma per action.

### The loops of a node

`IndInv` of `NodeArraysProofs` says for each place in the code which cell each slot holds. In the shift loop (`Shifting`) the
cells from the loop variable on are one slot further right, those before it where they were, and all from
there on are larger than the key. The scan and the binary search have touched
nothing and have the place between their bounds (`Scanning`, `Searching`). In the move loop of a split
(`Moving`) the cells above the loop variable are in the half, at the slot or in the pivot's place, where the overfull node would have
them, and those up to it are untouched: this is why the loop may run within one page. At its end (`Moved`) all slots of
the overfull node are in place but for the counts. `InsertDone` and `SplitDone` turn this
slot by slot description into the sequences of `BtreeNode`. `NodeArraysTypeOK` is part of the invariant: no loop variable and no slot leaves the page.

### The database

`DatabaseProofs` extends the proofs of the tree: a step of an insert in a session is a step of `BPlusTree`, so its `IndInv`, `ShapeInv`
and `StepMap` are used as they are. They can be, because they speak of the pages that hold a node (`Allocated`), not of those
below `num_pages`: after a death, some numbers are counted for ever that no tree has.

The three invariants and the refinement follow from one inductive invariant, `DatabaseInv`. Its parts beside the types:

* `TreeOn(ps, root)`: the pages `ps` are a tree that no insert is at work on. It says of any pages what the invariants of the tree
  say of those in memory, so that it can be said of the file. A session whose tree is idle has it in memory (`TreeToFile`),
  and a session that loads it satisfies the invariants of the tree (`FileToTree`).
* `FileInv`: a file that is `complete` has `TreeOn` for its own pages and the root of its own metadata. `KeptFileOpens`
  alone is not inductive: it says that every page below the root is a node, but not that the nodes are ordered and linked, so that nothing
  would follow for the session that opens them.
* `StartsAt(root)`: if page `root` is in the file at all, it is a node with its root byte set. It is said of the root in the file, in
  memory, and in the metadata that an allocation is about to write. This is what makes `StartFindsRoot` true between any two
  writes: `allocate_page` writes the root as it was before, the destructor writes a new root that may not be in the file yet,
  and then `StartsAt` has nothing to say until the flush loop has come to the page, which has its byte by then.
* `NoLoss`: a page that is not in memory is a hole in the file. So the flush loop, which passes over it, leaves nothing of an older tree.
* `Flushed(i)`: the flush loop has the pages below `i` in the file as in memory; `TaskInv` adds that the root and the count are there before it begins.
  At its end the pages in the file are those in memory (`FlushedIsComplete`), and `TreeToFile` makes the file `complete`.

Two steps need a reason why a `complete` file stays one. `WriteCount` after an allocation raises the count in the file, but not
the length, and what is counted and not there is no page (`PagesInFile` is as before). `WriteRoot` and `FlushNext` either write what was there or make the file `changing`.

A destructor that a failed allocation starts finds an insert in progress. Before the leaf is split (`call.pc = "find"`), the pages in memory are
those of a tree all the same, since `find` writes nothing, and the page that was not filled is a hole that the tree does not have:
`TreeToFile` applies, as after `.exit`. In a climb it does not, and nothing has to be shown: `Finish` leaves a damaged file (`FinishInClimb`).

`KeptFileOpens` is about `SubtreeOnDisk`, which collects the pages below the root level by level. What it collects are nodes of the file, by induction over
the level (`FoundAreNodes`), and all of them (`NodesAreFound`): a node is a child of a node one higher, so after as many levels as the
tree is high it is found, and heights are less than the number of pages (`HeightsBelow`). So the rows a start will find
are those of all nodes in the file (`SavedIs`), and `StepPM` gives the step of `PersistentMap` for each action:

| step of the program | step of the map |
|---|---|
| `Create`, `Open` | `Create`, `Open` |
| `InsertCommand`, `InsertStep`, `SelectCommand` | `Command`, with the step of `OrderedMap` that `StepMap` gives, or none |
| `WriteRoot`, `FlushNext` | `ReplaceFile` if they make the file `changing`, none otherwise |
| `Finish` | `Exit`; `Crash` if the insert was cut off in its climb |
| `FailAllocatePage` | `ReplaceFile` if it makes the file `changing`, none otherwise |
| `Crash`, `InsertLongField` | `Crash` |
| `Exit`, `WriteCount`, `ReadNothing`, `FailStart`, `StartOnDamagedFile` | none |

`.exit` takes effect in the map when the destructor is done (`Finish`), not when the command is read: until then a
death costs what a death costs.

### Model-checked only

* Liveness: `InsertReturns`, `CloseFinishes`, `Returns`. It is out of the prover's reach. Every other property of a passing run is stated by a theorem.
* That the recursive definitions of the properties (`Balanced`, `SeparatorsBound`, `SubtreeOnDisk`) mean what their
  names say is for the reader; what is proved about them is proved level by level.
* Nothing is proved about `ReopenedTree`; its run expects a violation.

## 5. Not modelled

* The byte layout of nodes: fields and cells are slots that do not overlap.
* Sessions on a damaged file, beyond their start: the tree is then a mixture of two. What a start on one does is modelled. A process that
  dies while it creates the file leaves no pages, or page 0 counted and not written; `initalize` opens the file because it
  exists (`main.cpp:27`), nothing checks the root number as the comment at `btree.cpp:68` announces, and `get_page(0)` exits or fails
  its assertion, at this and every later start (`FailStart`). No property is about it, because nothing is
  promised of such a file.
* More than `TABLE_MAX_PAGES` pages: `allocate_page` stores beyond its array, which is
  undefined. For the same reason a flat-table file longer than that is left out.
* A `write` that is cut short by a full disk: each write is whole or did not happen. A `write` that fails is modelled: in
  `allocate_page` it starts the destructors (`FailWrite`, `FailAllocatePage`), and in the
  constructor or in a destructor it ends the process, which is `Crash`. An `open`, a `read` or an `lseek` that fails is left out. The flat table writes in its
  destructor only, where a failed write is a `Crash`.
* Losing power: a write reaches the file when `write` returns.
* Pointers. `root_page` and the pointers of an insert to cached pages stay valid because
  only the destructor calls `flush_page`.
* Rows: opaque values. Serialization, `print_keys`, printing, and parsing except for a field that is too long
  change no state that matters here. Fields that are missing or an id out of range leave the values the stream
  gives; the key is some `uint32_t` in any case.
* The tests, which were read for what they expect.

## 6. Plan

Every component of the inventory that keeps state has its module, and the invariants and refinements of the tree, the pager, the flat
table, the loops of a node and the whole program are proved. What is left is below that level:

* Byte layout: the offsets of keys and children of an inner node and of cells of a leaf, for every page and row size, do not
  overlap and stay in the page.
* `Database` has the file as the pager keeps it, with the same writes in the same order, but it does not instantiate `Pager`. That its steps
  are those of `Pager` for one particular client is visible, not proved.
