\* One handler's scan against cooldowns inserted and expiring at every point.
CONSTANTS
  N = 3
  Models = {m1}
  NoModel = NoModel
  Tasks = {t1}
SPECIFICATION FairSpec
INVARIANTS TypeOK PickPrefersHealthy PickAvoidsTierGate
PROPERTIES PickReturns
