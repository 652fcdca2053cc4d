SPECIFICATION Spec
CONSTANTS
  Payload = {a, b}
  None = none
  Pairs <- AllPairs
INVARIANTS
  NoFalseMismatch
  NoStrayAnswer
  StoppedSingleIsAnswered
PROPERTY InOrderOnce
