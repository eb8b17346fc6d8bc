--------------------------- MODULE MCReopenedTree ----------------------------
(***************************************************************************)
(* Small instances of ReopenedTree for TLC.                                *)
(***************************************************************************)
EXTENDS ReopenedTree

NoSelect == {}
==============================================================================
