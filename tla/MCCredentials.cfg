\* Nothing fails but a refresh refused: two requests, the ticker, the admin.
CONSTANTS
  Handlers = {h1, h2}
  Ticker = ticker
  Admin = admin
  MaxGen = 4
  Faults = {}
SPECIFICATION Spec
SYMMETRY AnyHandler
INVARIANTS TypeOK RefreshesOnlyTheStale ChainAtRest
