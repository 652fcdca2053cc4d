SPECIFICATION Spec
CONSTANTS
  Hart = {h0, h1, h2}
  FaultPcs = {}
  FaultCtxs = {}
  Jobs <- AllJobs
  Modes = {"DCLS"}
  Habits = {"outsider"}
INVARIANT RunsAsConfigured
