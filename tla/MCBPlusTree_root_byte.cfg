\* malloc'ed pages start with any root byte.
SPECIFICATION Spec
CONSTANTS
  UINT32_MAX = 3
  Row = {r}
  SelectRange <- NoSelect
  TABLE_MAX_PAGES = 10
  num_max_cell = 2
  num_max_keys = 2
  leaf_load = 2
  inner_node_load = 2
  FreshRootByte = {TRUE, FALSE}
  NODE_PARENT_INVALID = NODE_PARENT_INVALID
  Unwritten = Unwritten
  NoPage = NoPage
INVARIANT RootByteOnlyOnRoot
