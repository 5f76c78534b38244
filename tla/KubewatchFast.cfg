CONSTANTS
    Kubewatches = {k1}
    Pods = {p1}
    MaxRollouts = 2
    MaxFaults = 0
SPECIFICATION Spec
INVARIANTS NewestIsAnnounced
CHECK_DEADLOCK FALSE
