CONSTANTS
  Requests = {r1, r2, r3, r4}
  MaxParallelism = 3
SPECIFICATION FairSpec
INVARIANTS
  TypeOK
  CurrentInBounds
  SlotsCoverCurrent
PROPERTY AcquireServed
