---------------------------- MODULE MCNodeArrays -----------------------------
(***************************************************************************)
(* Small instances of NodeArrays for TLC.                                  *)
(***************************************************************************)
EXTENDS NodeArrays

EvenLoads == {2, 4, 6}
SevenKeys == 0 .. 6
==============================================================================
