SPECIFICATION Spec
CONSTANTS
  MAXWRITES = 3
  Letters = {a}
  SPACE = SPACE
  HALF = HALF
  MAXCHANGES = 3
  MAXLEN = 2
INVARIANTS PromptFresh PairCoherent
PROPERTIES FinalAnswer
CHECK_DEADLOCK FALSE
