SPECIFICATION Spec
CONSTANTS
  c1 = c1
  c2 = c2
  c3 = c3
  c4 = c4
  Component <- MCComponent
  kMaxConcurrentInstances = 3
  kMaxSecureConcurrentInstances = 2
  kMaxHighResConcurrentInstances = 1
  ThreadMayFail = TRUE
SYMMETRY Symmetry
INVARIANTS
  TypeOK
  CountersMatchObjects
  LimitsRespected
  Vc1AloneAmongNonSecure
CHECK_DEADLOCK FALSE
