SPECIFICATION Spec
CONSTANTS
  Hart = {h0, h1, h2}
  FaultPcs = {"main", "crit_in", "crit_out", "ckpt", "stop_crit", "stop_mst", "stop_cfg",
              "exit", "act_end"}
  FaultCtxs = {"main"}
  Jobs <- AllJobs
  Modes = {"TCLS", "DCLS", "LOCKSTEP"}
  Habits = {}
SYMMETRY HartSymmetry
INVARIANTS
  TypeOK
  RunsAsConfigured
  InStep
  OneBusOwner
  ExclusiveModes
  InterruptMeansDone
  UnrepairedIsChecked
  DelayIsLockstep
  NoneAstray
PROPERTIES
  LaunchFromRest
  QuietUntilStart
  DifferenceLeavesNoTrace
  JobIsProtected
