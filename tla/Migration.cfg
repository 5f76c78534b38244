CONSTANTS
    Graphs = {g1, g2}
    Rows = {r1, r2}
    MaxUps = 3
    MaxWrites = 1
SPECIFICATION Spec
SYMMETRY Symmetry
INVARIANTS TypeOK VerdictHonest
PROPERTIES CutoverKeepsEverything SweepsHeldOff
CHECK_DEADLOCK FALSE
