------------------------------ MODULE MCDatabase ------------------------------
(***************************************************************************)
(* Small instances of Database for TLC.                                    *)
(***************************************************************************)
EXTENDS Database

WholeRange == {<<0, UINT32_MAX>>}
==============================================================================
