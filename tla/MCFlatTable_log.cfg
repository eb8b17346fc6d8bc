\* Sessions of a table of up to six rows, with a death between any two writes.
SPECIFICATION Spec
CONSTANTS
  PAGE_SIZE = 5
  row_size = 2
  TABLE_MAX_PAGES = 3
  Row = {a, b}
  Junk = Junk
  Null = Null
INVARIANTS
  FlatTableTypeOK
  WholeRows
  EveryRowReadable
PROPERTY ImplementsAppendLog
