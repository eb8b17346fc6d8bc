\* Every order of inserting the keys 0 .. 7 into a tree with nodes of load 2.
SPECIFICATION Spec
CONSTANTS
  UINT32_MAX = 7
  Row = {r}
  SelectRange <- NoSelect
  TABLE_MAX_PAGES = 14
  num_max_cell = 2
  num_max_keys = 4
  leaf_load = 4
  inner_node_load = 2
  FreshRootByte = {FALSE}
  NODE_PARENT_INVALID = NODE_PARENT_INVALID
  Unwritten = Unwritten
  NoPage = NoPage
INVARIANTS
  TypeOK
  EveryPageLinkedOnce
  ParentLinks
  RootByteOnlyOnRoot
  Balanced
  LoadsWithinBounds
  SeparatorsBound
  AssertionsHold
  CheckValidAccepts
