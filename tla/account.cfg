\* The cycle and two goroutines of the API, with failures of all kinds.
SPECIFICATION Spec
CONSTANTS
    Jobs = {j1, j2, j3}
    Keys = {k1, k2, k3, k4, k5, k6}
    NoKey = none
    MaxLost = 1
    MaxFaults = 1
    MaxCrashes = 1
SYMMETRY Symmetry
INVARIANTS StoredIsRegistered UsedIsRegistered RegistrationsBounded
