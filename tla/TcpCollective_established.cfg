SPECIFICATION Spec
CONSTANTS
  N = 3
  MAXRETRY = 1
  SIZES <- Sizes
  ROUNDS = 2
  CAP = 1
  RAND = 7
  JUNK = 99
INVARIANT Established
CHECK_DEADLOCK FALSE
