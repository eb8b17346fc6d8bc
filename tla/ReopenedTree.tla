---------------------------- MODULE ReopenedTree -----------------------------
(***************************************************************************)
(* A tree that is built with one pair of loads and, in a later session,    *)
(* used with another.  The loads are arguments of BPlusTree's constructor, *)
(* and of set_btree_paramters, and are not stored in the file: insert      *)
(* takes each node for one with the loads of its own session.              *)
(***************************************************************************)
EXTENDS BtreeNode

CONSTANTS
  UINT32_MAX, Row, SelectRange, TABLE_MAX_PAGES, num_max_cell, num_max_keys,
  FreshRootByte, NODE_PARENT_INVALID, Unwritten, NoPage,
  first_leaf_load, first_inner_load,  \* the loads of the first session
  later_leaf_load, later_inner_load   \* and of the second

VARIABLES
  pages, root_pid, num_pages, call, reply,  \* the tree
  session                                   \* "first" or "later"

First == INSTANCE BPlusTree
  WITH leaf_load <- first_leaf_load, inner_node_load <- first_inner_load
Later == INSTANCE BPlusTree
  WITH leaf_load <- later_leaf_load, inner_node_load <- later_inner_load

tree == <<pages, root_pid, num_pages, call, reply>>
vars == <<tree, session>>

Init == First!Init /\ session = "first"

(***************************************************************************)
(* .exit and a new start, which bring back the tree as it was.             *)
(***************************************************************************)
Reopen ==
  /\ session = "first"
  /\ call = First!Idle
  /\ session' = "later"
  /\ reply' = First!NoReply
  /\ UNCHANGED <<pages, root_pid, num_pages, call>>

Next ==
  \/ session = "first" /\ First!Next /\ UNCHANGED session
  \/ session = "later" /\ Later!Next /\ UNCHANGED session
  \/ Reopen

Spec == Init /\ [][Next]_vars
------------------------------------------------------------------------------
(***************************************************************************)
(* Where insert takes the leaf for one that is not full, it has room:      *)
(* "assert(num_cells() < num_max_cell)" (btree.h:290), with num_max_cell   *)
(* set to the load of the session (btree.cpp:103).                         *)
(***************************************************************************)
NotFullHasRoom ==
  session = "later" =>
    \A pos \in Later!LeafPositions :
      Later!AtLeaf(pos) /\ ~Later!IsDuplicate(pos) /\ ~Later!LeafIsFull
        => Len(pages[call.page_id].keys) < Later!LeafLoad
==============================================================================
