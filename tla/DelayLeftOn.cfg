SPECIFICATION Spec
CONSTANTS
  Hart = {h0, h1, h2}
  FaultPcs = {}
  FaultCtxs = {}
  Jobs <- AllJobs
  Modes = {"DCLS", "LOCKSTEP"}
  Habits = {"keeps"}
INVARIANT DelayIsLockstep
