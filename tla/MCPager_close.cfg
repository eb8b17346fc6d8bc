\* Sessions that end properly: create, open, every operation, close, again.
SPECIFICATION FairSpec
CONSTANTS
  TABLE_MAX_PAGES = 3
  Content = {Zero, a, b}
  Zero = Zero
  Hole = Hole
  Null = Null
INVARIANTS
  PagerTypeOK
  ReadsFullPages
PROPERTY CloseFinishes
