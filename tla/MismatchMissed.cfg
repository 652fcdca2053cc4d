SPECIFICATION FairSpec
CONSTANTS
  Hart = {h0, h1, h2}
  FaultPcs = {"stop_cfg"}
  FaultCtxs = {"main"}
  Jobs <- SomeJobs
  Modes = {"DCLS"}
  Habits = {}
PROPERTY ErrorsAreRepaired
