CONSTANTS
    Instances = {i1, i2}
    Addrs = {a1}
    Noticed = {i1}
    Webs = {}
    NoName = NoName
    BootOutlastsReap = TRUE
SPECIFICATION Spec
INVARIANTS TypeOK OneNamePerBox
PROPERTIES RebalanceIsActedOn
CHECK_DEADLOCK FALSE
