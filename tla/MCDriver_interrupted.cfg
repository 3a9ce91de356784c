SPECIFICATION FairSpec
CONSTANTS
  CommandLines <- Usual
  Faults <- Fault
  MaxInterrupts = 2
INVARIANTS
  TypeOK
  AsmRemoved
  NoOrphan
  SuccessMeansOutput
  SuccessMeansRun
  DriverInv
PROPERTIES
  KeepsOutput
  RunTempRemoved
  Ends
