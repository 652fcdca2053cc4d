SPECIFICATION Spec
CONSTANTS
  Hart = {h0, h1, h2}
  FaultPcs = {"stop_wfi"}
  FaultCtxs = {}
  Jobs <- AllJobs
  Modes = {"TCLS"}
  Habits = {}
INVARIANT RunsAsConfigured
