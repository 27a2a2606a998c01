\* Every stream of up to MaxEvents events about two function calls, MaxNoise of
\* which make no frame that a buffering reader takes.
SPECIFICATION Spec
CONSTANTS
  Items = {i1, i2}
  NoItem = NoItem
  MaxEvents = 5
  MaxNoise = 2
SYMMETRY AnyItem
INVARIANTS
  TypeOK
  CallsReassemble
  RoleOpensResponses
  FinishNamesCalls
  BufferedIsWhatWasNumbered
\* A stream stops after its end.
CHECK_DEADLOCK FALSE
