CONSTANTS
    Kubewatches = {k1, k2}
    Pods = {p1, p2}
    MaxRollouts = 2
    MaxFaults = 1
SPECIFICATION Spec
INVARIANTS TypeOK NoRepeat LastMessageIsRight
PROPERTIES StartIsFinished
CHECK_DEADLOCK FALSE
