\* Every conversation of up to three messages with either endpoint.
SPECIFICATION Spec
CONSTANTS
  Fragments <- MCFragments
  NamesToReplace <- MCNames
  InversePrompt <- MCInversePrompt
  InstructionsPrefix <- MCPrefix
  Rendering <- MCRendering
  Models = {"gpt-5", "gpt-5.4"}
  Messages <- MCMessages
  Instructions0 <- MCInstructions
  CacheKeys <- MCCacheKeys
  Asides <- MCAsides
  Headers <- MCHeaders
  MaxTurns = 3
INVARIANTS
  KeysTellHeadsApart
  OnlyTheDroppedIsLost
PROPERTIES
  KeyOutlivesTurns
  CacheKeyOutlivesTurns
