SPECIFICATION Spec
CONSTANTS
  Hart = {h0, h1, h2}
  FaultPcs = {"main"}
  FaultCtxs = {"act_pc"}
  Jobs <- AllJobs
  Modes = {"DCLS"}
  Habits = {}
INVARIANT RunsAsConfigured
