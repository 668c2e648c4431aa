\* One request more than the limits let in, and one refusal that is lost.
CONSTANTS
  Requests = {r1, r2, r3, r4}
  NBackends = 3
  MaxQueue = 2
  MaxInflight = 2
  MaxLost = 1
CHECK_DEADLOCK FALSE
SYMMETRY RequestSymmetry
SPECIFICATION Spec
INVARIANTS TypeOK InflightMatches AdmissionBound NoReplicaPassedOver
