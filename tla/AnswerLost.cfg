SPECIFICATION Spec
CONSTANTS
  Payload = {a, b}
  None = none
  Pairs <- DeepLockstep
INVARIANT StoppedIsAnswered
