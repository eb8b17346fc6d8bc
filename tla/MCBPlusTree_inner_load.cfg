\* An inner load beyond the capacity of a page, as with the defaults of main.
SPECIFICATION Spec
CONSTANTS
  UINT32_MAX = 5
  Row = {r}
  SelectRange <- NoSelect
  TABLE_MAX_PAGES = 10
  num_max_cell = 2
  num_max_keys = 2
  leaf_load = 2
  inner_node_load = 4
  FreshRootByte = {FALSE}
  NODE_PARENT_INVALID = NODE_PARENT_INVALID
  Unwritten = Unwritten
  NoPage = NoPage
INVARIANT CheckValidAccepts
