SPECIFICATION LiveSpec
CONSTANTS
  Top = 49
  MaxDepth = 2
  Programs <- MCPrograms
  Struck <- MCStruck
  MaxFaults = 1
INVARIANTS
  TypeOK
  RollbackIsExact
  TornRestartsOld
PROPERTIES
  CallsAreTransparent
  ActivationKeepsContext
  RecoveryIsTransparent
  RecoveryRepairs
  NothingLatent
  ShownIsRepaired
