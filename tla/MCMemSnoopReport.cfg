SPECIFICATION FairSpec
CONSTANTS
  MaxDisplay = 2
  Buckets = 2
  Interval = 2
  LeakAfter = 1
  MinSize = 2
  Calls <- MCCalls
  Settings <- MCSettings
  Start = 2
  MaxTime = 3
  Kallsyms <- MCKallsyms
  Addresses <- MCAddresses
INVARIANTS WalksAreComplete ResolvesNearest
PROPERTIES SignalEndsTracing
