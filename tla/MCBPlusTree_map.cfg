\* The tree is an ordered map: every insertion order of six keys with two
\* possible rows each, duplicates included, and every range after every insert.
SPECIFICATION FairSpec
CONSTANTS
  UINT32_MAX = 5
  Row = {r1, r2}
  SelectRange <- EverySelect
  TABLE_MAX_PAGES = 10
  num_max_cell = 2
  num_max_keys = 2
  leaf_load = 2
  inner_node_load = 2
  FreshRootByte = {FALSE}
  NODE_PARENT_INVALID = NODE_PARENT_INVALID
  Unwritten = Unwritten
  NoPage = NoPage
PROPERTIES
  ImplementsOrderedMap
  InsertReturns
