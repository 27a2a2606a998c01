\* Two clients with a pod, or with a router's own routes.
SPECIFICATION FairSpec
CONSTANTS
  Clients = {c1, c2}
  Requests <- MCRequests
  Statuses = {200, 202, 401}
  Readings <- MCReadings
  Configs <- MCConfigs
  MaxInt = 1000
INVARIANTS
  TypeOK
  FormatAsAsked
PROPERTIES
  KeepsPodContract
  StopsWhenTold
\* The process ends when it is told to.
CHECK_DEADLOCK FALSE
