SPECIFICATION FairSpec
CONSTANTS
  b1 = b1
  b2 = b2
  demo = demo
  Browsers <- TwoBrowsers
  Emails = {demo}
  Demo = demo
  MaxAccounts = 2
INVARIANT AccountsAreDistinct
PROPERTIES EntryNeedsAnAccount NoRedirectLoop
CHECK_DEADLOCK FALSE
