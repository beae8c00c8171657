SPECIFICATION Spec
CONSTANTS
  N = 4
  MAXRETRY = 1
  SIZES <- Sizes
  ROUNDS = 2
  CAP = 2
  RAND = 7
  JUNK = 99
INVARIANTS InStep ResultsCorrect NoSpuriousFailure
PROPERTIES Completes
CHECK_DEADLOCK FALSE
