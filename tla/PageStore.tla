------------------------------ MODULE PageStore ------------------------------
(***************************************************************************)
(* What the pager promises the tree above it: numbered pages and a root    *)
(* number that read back as they were last written, and that are the same  *)
(* after the store is closed and opened again.                             *)
(*                                                                         *)
(* `saved' is what the file is good for while no process has it open.  The *)
(* program keeps its pages in memory until it closes, and the file follows *)
(* piece by piece, so between the first change of the file and the end of  *)
(* the session it is good for nothing.  A crash before that costs the      *)
(* writes of the session and no more; a crash after it leaves a file about *)
(* which nothing is promised until it is created anew.                     *)
(***************************************************************************)
EXTENDS Integers

CONSTANTS Content, PageId

VARIABLES
  status,   \* "closed", "open" or "lost"
  view,     \* the root number and the pages a client sees, if open
  saved     \* what opening the file will show, if that is known

psvars == <<status, view, saved>>

NoStore == [known |-> FALSE]
Store(root, size, contents) ==
  [known |-> TRUE, root |-> root, size |-> size, contents |-> contents]
Empty == Store(0, 0, [p \in {} |-> p])

Init ==
  /\ status = "closed"
  /\ view = NoStore
  /\ saved = NoStore

Create ==
  /\ status \in {"closed", "lost"}
  /\ status' = "open"
  /\ view' = Empty
  /\ saved' = Empty

Open ==
  /\ status = "closed"
  /\ saved.known
  /\ status' = "open"
  /\ view' = saved
  /\ UNCHANGED saved

Allocate(content) ==
  /\ status = "open"
  /\ view' = Store(view.root, view.size + 1,
                   [p \in 0 .. view.size |->
                      IF p = view.size THEN content ELSE view.contents[p]])
  /\ UNCHANGED <<status, saved>>

Write(p, content) ==
  /\ status = "open"
  /\ p < view.size
  /\ view' = Store(view.root, view.size, [view.contents EXCEPT ![p] = content])
  /\ UNCHANGED <<status, saved>>

SetRoot(p) ==
  /\ status = "open"
  /\ view' = Store(p, view.size, view.contents)
  /\ UNCHANGED <<status, saved>>

(***************************************************************************)
(* The file starts to change under the session.                            *)
(***************************************************************************)
Change ==
  /\ status = "open"
  /\ saved' = NoStore
  /\ UNCHANGED <<status, view>>

Close ==
  /\ status = "open"
  /\ status' = "closed"
  /\ view' = NoStore
  /\ saved' = view

Crash ==
  /\ status = "open"
  /\ status' = IF saved.known THEN "closed" ELSE "lost"
  /\ view' = NoStore
  /\ UNCHANGED saved

Next ==
  \/ Create \/ Open \/ Change \/ Close \/ Crash
  \/ \E content \in Content : Allocate(content)
  \/ \E p \in PageId, content \in Content : Write(p, content)
  \/ \E p \in PageId : SetRoot(p)

Spec == Init /\ [][Next]_psvars
==============================================================================
