----------------------------- MODULE MCFlatTable -----------------------------
(***************************************************************************)
(* Small instances of FlatTable for TLC: a page has room for two rows and  *)
(* one byte to spare.                                                      *)
(***************************************************************************)
EXTENDS FlatTable
==============================================================================
