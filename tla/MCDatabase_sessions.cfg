\* Sessions of a database of five keys, with a death between any two writes.
SPECIFICATION DatabaseSpec
CONSTANTS
  UINT32_MAX = 4
  Row = {r}
  SelectRange <- WholeRange
  TABLE_MAX_PAGES = 7
  num_max_cell = 2
  num_max_keys = 2
  leaf_load = 4
  inner_node_load = 4
  FreshRootByte = {FALSE}
  NODE_PARENT_INVALID = NODE_PARENT_INVALID
  Unwritten = Unwritten
  NoPage = NoPage
INVARIANTS
  DatabaseTypeOK
  KeptFileOpens
  StartFindsRoot
PROPERTY ImplementsPersistentMap
