\* The process may die between any two writes; then get_page may read short.
SPECIFICATION CrashSpec
CONSTANTS
  TABLE_MAX_PAGES = 3
  Content = {Zero, a, b}
  Zero = Zero
  Hole = Hole
  Null = Null
INVARIANT ReadsFullPages
