\* A tree with leaves of four cells is opened with a leaf load of two.
SPECIFICATION Spec
CONSTANTS
  UINT32_MAX = 4
  Row = {r}
  SelectRange <- NoSelect
  TABLE_MAX_PAGES = 10
  num_max_cell = 4
  num_max_keys = 4
  first_leaf_load = 4
  first_inner_load = 4
  later_leaf_load = 2
  later_inner_load = 2
  FreshRootByte = {FALSE}
  NODE_PARENT_INVALID = NODE_PARENT_INVALID
  Unwritten = Unwritten
  NoPage = NoPage
INVARIANT NotFullHasRoom
