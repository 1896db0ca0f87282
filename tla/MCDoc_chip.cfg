SPECIFICATION FocusSpec
CONSTANTS
  OSCS = 2
  Oscillators = 6
  Mode = {0, 1, 2, 3}
  Counts = {1, 2}
  ExtraTurns = 1
  Resets = TRUE
INVARIANTS BooksAgree
PROPERTY RingQueuesUp
