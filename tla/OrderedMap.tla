----------------------------- MODULE OrderedMap ------------------------------
(***************************************************************************)
(* What a table promises its client (src/README.md, table.h): rows are     *)
(* stored under distinct keys, a row once stored stays, and a range query  *)
(* returns exactly the stored rows of the range, in key order.  One call   *)
(* is in progress at a time.                                               *)
(***************************************************************************)
EXTENDS Integers, Sequences, FiniteSets, SequencesExt

CONSTANTS Key, Row, SelectRange

VARIABLES
  rows,     \* the stored cells, a set of [key, row]
  request,  \* the insert in progress
  reply     \* what the last finished call returned

omvars == <<rows, request, reply>>

Cell == [key : Key, row : Row]
Nothing == [state |-> "none"]
Asked(cell) == [state |-> "asked", cell |-> cell]
Stored == [state |-> "stored"]

Answer(status) == [status |-> status]
Pending == Answer("NONE")
Found(min_val, max_val, cells) ==
  [status |-> "SELECTED", range |-> <<min_val, max_val>>, cells |-> cells]

Init ==
  /\ rows = {}
  /\ request = Nothing
  /\ reply = Pending

Keys == {cell.key : cell \in rows}

Ask(cell) ==
  /\ request = Nothing
  /\ request' = Asked(cell)
  /\ reply' = Pending
  /\ UNCHANGED rows

(***************************************************************************)
(* The row becomes visible at once, the answer comes with it or later.     *)
(***************************************************************************)
Store ==
  /\ request.state = "asked"
  /\ request.cell.key \notin Keys
  /\ rows' = rows \cup {request.cell}
  /\ \/ request' = Stored /\ UNCHANGED reply
     \/ request' = Nothing /\ reply' = Answer("SUCCESS")

Confirm ==
  /\ request = Stored
  /\ request' = Nothing
  /\ reply' = Answer("SUCCESS")
  /\ UNCHANGED rows

Refuse ==
  /\ request.state = "asked"
  /\ request.cell.key \in Keys
  /\ request' = Nothing
  /\ reply' = Answer("FAIL_DUPLICATE_KEY")
  /\ UNCHANGED rows

InOrder(cells) == \A i, j \in 1 .. Len(cells) : i < j => cells[i].key < cells[j].key

Query(min_val, max_val) ==
  /\ request = Nothing
  /\ reply'.status = "SELECTED"
  /\ reply' = Found(min_val, max_val, reply'.cells)
  /\ InOrder(reply'.cells)
  /\ ToSet(reply'.cells) =
       {cell \in rows : cell.key >= min_val /\ cell.key <= max_val}
  /\ UNCHANGED <<rows, request>>

Next ==
  \/ \E cell \in Cell : Ask(cell)
  \/ Store \/ Confirm \/ Refuse
  \/ \E range \in SelectRange : Query(range[1], range[2])

Spec == Init /\ [][Next]_omvars
==============================================================================
