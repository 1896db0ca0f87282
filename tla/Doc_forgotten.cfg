SPECIFICATION Spec
CONSTANTS
  OSCS = 2
  Mode = {0, 1}
  Counts = {1, 2}
  ExtraTurns = 1
  Resets = FALSE
INVARIANT NobodyForgotten
