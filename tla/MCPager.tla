------------------------------- MODULE MCPager -------------------------------
(***************************************************************************)
(* Small instances of Pager for TLC.                                       *)
(***************************************************************************)
EXTENDS Pager
==============================================================================
