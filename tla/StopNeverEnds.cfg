SPECIFICATION FairSpec
CONSTANTS
  Hart = {h0, h1, h2}
  FaultPcs = {}
  FaultCtxs = {}
  Jobs <- SomeJobs
  Modes = {}
  Habits = {"stops"}
PROPERTY ExternalStopEnds
