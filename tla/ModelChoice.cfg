\* Every id of up to four segments, with either, both or none of the effort fields.
SPECIFICATION ChoiceSpec
CONSTANTS
  Heads = {"gpt-5", "gpt-5.1", "gpt-5.2", "gpt-5.3", "gpt-5.4", "gpt-5.5", "gpt-5.6", "gpt-6", "gpt-6.1", "gpt-60", "gpt-4o", "other", ""}
  Tails = {"codex", "mini", "spark", "sol", "terra", "luna", "astra", "nova", "minimal", "low", "xhigh", "max", "ultra"}
  MaxSegments = 4
  Fields = {"", "none", "high", "ultra", "bogus"}
INVARIANTS
  TypeOK
  KnownModelIsServed
  SuffixedModelIsServed
  ExplicitEffortWins
\* A request is built once.
CHECK_DEADLOCK FALSE
