----------------------------- MODULE MCBPlusTree -----------------------------
(***************************************************************************)
(* Small instances of BPlusTree for TLC.  Loads of 2 make nodes split at   *)
(* the third key, so that a handful of keys builds trees of three levels.  *)
(***************************************************************************)
EXTENDS BPlusTree

NoSelect == {}
EverySelect ==
  {range \in (0 .. UINT32_MAX) \X (0 .. UINT32_MAX) : range[1] <= range[2]}
    \cup {<<1, 0>>}
==============================================================================
