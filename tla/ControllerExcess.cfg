CONSTANTS
  Requests = {r1, r2, r3, r4}
  MaxParallelism = 3
SPECIFICATION Spec
INVARIANT MaxConcurrentRequests
