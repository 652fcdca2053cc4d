SPECIFICATION FairSpec
CONSTANTS
  Hart = {h0, h1, h2}
  FaultPcs = {"main", "exit"}
  FaultCtxs = {"main"}
  Jobs <- SomeJobs
  Modes = {"TCLS", "DCLS"}
  Habits = {}
PROPERTIES
  StartLaunches
  ActivateReturns
  StopReturns
  EndIsSignalled
  ErrorsAreRepaired
