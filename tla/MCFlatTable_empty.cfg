\* Closing a table, also one without rows.
SPECIFICATION Spec
CONSTANTS
  PAGE_SIZE = 5
  row_size = 2
  TABLE_MAX_PAGES = 3
  Row = {a, b}
  Junk = Junk
  Null = Null
INVARIANT FlushesOwnPages
