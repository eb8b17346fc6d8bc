---------------------------- MODULE PersistentMap -----------------------------
(***************************************************************************)
(* What the program promises its user (src/README.md): an ordered map that *)
(* is there again after .exit and a new start.                             *)
(*                                                                         *)
(* There is no log.  A session works in memory, and until it begins to     *)
(* replace what the file holds, `saved' is what the last session left, and *)
(* a crash costs this session's inserts only.  From then to the end of     *)
(* .exit the file is good for nothing, and after a crash nothing is        *)
(* promised any more.  The session that creates the file is of that kind   *)
(* from its beginning.                                                     *)
(***************************************************************************)
EXTENDS OrderedMap

VARIABLES
  status,  \* "absent", "open", "closed" or "lost"
  saved    \* the cells a start will find, if that is known

pmvars == <<omvars, status, saved>>

NothingSaved == [known |-> FALSE]
CellsSaved(cells) == [known |-> TRUE, cells |-> cells]

NoSession == rows' = {} /\ request' = Nothing /\ reply' = Pending

PMInit ==
  /\ Init
  /\ status = "absent"
  /\ saved = NothingSaved

Create ==
  /\ status = "absent"
  /\ status' = "open"
  /\ NoSession
  /\ UNCHANGED saved

Open ==
  /\ status = "closed"
  /\ status' = "open"
  /\ rows' = saved.cells
  /\ request' = Nothing
  /\ reply' = Pending
  /\ UNCHANGED saved

Command ==
  /\ status = "open"
  /\ Next
  /\ UNCHANGED <<status, saved>>

ReplaceFile ==
  /\ status = "open"
  /\ saved' = NothingSaved
  /\ UNCHANGED <<omvars, status>>

(***************************************************************************)
(* The session ends and leaves its rows.  An insert that is asked for and  *)
(* has stored nothing yet is forgotten.                                    *)
(***************************************************************************)
Exit ==
  /\ status = "open"
  /\ request.state # "stored"
  /\ status' = "closed"
  /\ saved' = CellsSaved(rows)
  /\ NoSession

Crash ==
  /\ status = "open"
  /\ status' = IF saved.known THEN "closed" ELSE "lost"
  /\ NoSession
  /\ UNCHANGED saved

PMNext == Create \/ Open \/ Command \/ ReplaceFile \/ Exit \/ Crash

PMSpec == PMInit /\ [][PMNext]_pmvars
==============================================================================
