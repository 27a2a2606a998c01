\* Two handlers at once on a pool of two, no store: each scans while the other
\* inserts cooldowns of both kinds.
CONSTANTS
  N = 2
  m1 = m1
  c1 = c1
  Models = {m1}
  NoModel = NoModel
  Tasks = {t1, t2}
  Conversations = {}
  NoConversation = NoConversation
  Affinity = FALSE
  Bodies <- Keyless
  Entitled <- FirstEntitled
SPECIFICATION FairSpec
INVARIANTS GivesUpOnlyIfNobodyElse
PROPERTIES EventuallyAnswered
