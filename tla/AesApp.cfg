SPECIFICATION Spec
CONSTANTS
  AddrBits = 6
  HeapStart = 8
  BufSize = 4
  HeapEnds <- MCHeapEnds
  Programs <- MCPrograms
  MaxRollbacks = 2
  MaxTraps = 1
  Causes = {2, 31}
INVARIANTS
  TypeOK
  KnownAnswers
  InverseTracks
  TablesAreRijndael
  SuccessWhateverRollback
  BlocksApart
  OutputReachesWrite
PROPERTIES
  CounterCounts
  JobEnds
