\* Everything may fail, handlers are dropped.
CONSTANTS
  Handlers = {h1, h2}
  Ticker = ticker
  Admin = admin
  MaxGen = 2
  Faults = {"lost", "disk", "cancel", "crash"}
SPECIFICATION FairSpec
INVARIANTS RetriesWithNewToken
PROPERTIES ForcedRefreshIsDurable EverythingEnds
