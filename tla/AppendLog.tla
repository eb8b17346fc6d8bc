------------------------------ MODULE AppendLog ------------------------------
(***************************************************************************)
(* What the flat table promises its client: a list of rows that only grows *)
(* and is read back as it was appended, from any session.                  *)
(*                                                                         *)
(* Rows are kept in memory and follow into the file when the session ends. *)
(* They follow in order, so that a crash on the way costs the last rows of *)
(* the session: what is saved is at all times a prefix of what was         *)
(* appended, and never less than what the session found.                   *)
(***************************************************************************)
EXTENDS Integers, Sequences, SequencesExt

CONSTANTS LogRow, Capacity

VARIABLES
  open,    \* is there a session?
  rows,    \* the rows its client sees
  saved,   \* the rows the next session will find
  reply    \* what the last finished command returned

logvars == <<open, rows, saved, reply>>

Answer(status) == [status |-> status]
AllRows(list) == [status |-> "SELECTED", rows |-> list]
OneRow(i, row) == [status |-> "READ", rowid |-> i, row |-> row]

Init ==
  /\ open = FALSE
  /\ rows = <<>>
  /\ saved = <<>>
  /\ reply = Answer("NONE")

Open ==
  /\ ~open
  /\ open' = TRUE
  /\ rows' = saved
  /\ reply' = Answer("NONE")
  /\ UNCHANGED saved

AppendRow(row) ==
  /\ open
  /\ Len(rows) < Capacity
  /\ rows' = Append(rows, row)
  /\ reply' = Answer("EXECUTE_SUCCESS")
  /\ UNCHANGED <<open, saved>>

Refuse ==
  /\ open
  /\ Len(rows) = Capacity
  /\ reply' = Answer("TABLE_FULL")
  /\ UNCHANGED <<open, rows, saved>>

Query ==
  /\ open
  /\ reply' = AllRows(rows)
  /\ UNCHANGED <<open, rows, saved>>

Get(i) ==
  /\ open
  /\ i < Len(rows)
  /\ reply' = OneRow(i, rows[i + 1])
  /\ UNCHANGED <<open, rows, saved>>

(***************************************************************************)
(* More rows reach the file, the first ones first.                         *)
(***************************************************************************)
Persist ==
  /\ open
  /\ IsPrefix(saved, saved')
  /\ IsPrefix(saved', rows)
  /\ UNCHANGED <<open, rows, reply>>

Close ==
  /\ open
  /\ open' = FALSE
  /\ rows' = <<>>
  /\ saved' = rows
  /\ reply' = Answer("NONE")

Crash ==
  /\ open
  /\ open' = FALSE
  /\ rows' = <<>>
  /\ reply' = Answer("NONE")
  /\ UNCHANGED saved

Next ==
  \/ Open \/ Refuse \/ Query \/ Persist \/ Close \/ Crash
  \/ \E row \in LogRow : AppendRow(row)
  \/ \E i \in 0 .. Capacity - 1 : Get(i)

Spec == Init /\ [][Next]_logvars
==============================================================================
