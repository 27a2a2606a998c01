\* The code against a sentence of the repository (see README, findings).
CONSTANTS
  Handlers = {h1, h2}
  Ticker = ticker
  Admin = admin
  MaxGen = 3
  Faults = {"cancel"}
SPECIFICATION Spec
PROPERTIES FileChangesUnderTheMutex
