\* A level above the levels of a model that has no default.
SPECIFICATION ChoiceSpec
CONSTANTS
  Heads = {"gpt-5", "gpt-5.1", "gpt-5.2", "gpt-5.3", "gpt-5.4", "gpt-5.5", "gpt-5.6", "gpt-6", "gpt-6.1", "gpt-60", "gpt-4o", "other", ""}
  Tails = {"codex", "mini", "spark", "sol", "terra", "luna", "astra", "nova", "minimal", "low", "xhigh", "max", "ultra"}
  MaxSegments = 2
  Fields = {"", "none", "high", "ultra", "bogus"}
INVARIANTS
  EffortIsAccepted
\* A request is built once.
CHECK_DEADLOCK FALSE
