\* Two turns of one conversation at the same time, on a pool of two.
CONSTANTS
  N = 2
  m1 = m1
  c1 = c1
  Models = {m1}
  NoModel = NoModel
  Tasks = {t1, t2}
  Conversations = {c1}
  NoConversation = NoConversation
  Affinity = TRUE
  Bodies <- OneConversation
  Entitled <- SecondEntitled
SPECIFICATION Spec
SYMMETRY AnyTask
INVARIANTS TypeOK TierGateCooldownsAreTrue
PROPERTIES PinsFollowAnswers CoolsOnlyTheFailed KeepsContract
