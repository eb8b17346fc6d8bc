\* The process may die between any two writes.
SPECIFICATION CrashSpec
CONSTANTS
  TABLE_MAX_PAGES = 3
  Content = {Zero, a, b}
  Zero = Zero
  Hole = Hole
  Null = Null
INVARIANT ClosedFileIsWhole
PROPERTY ImplementsPageStore
