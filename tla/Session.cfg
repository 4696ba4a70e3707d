SPECIFICATION FairSpec
CONSTANTS
  b1 = b1
  b2 = b2
  Browsers <- BrowsersValue
  AllTabs <- AllTabsValue
  MaxExpiries = 2
  MaxEvents = 1
INVARIANTS ReuseHasACause NoOrphanSession
PROPERTY RefreshEnds
CHECK_DEADLOCK FALSE
