CONSTANTS
    Instances = {i1, i2}
    Addrs = {a1}
    Noticed = {}
    Webs = {w1, w2}
    NoName = NoName
    BootOutlastsReap = TRUE
SPECIFICATION Spec
PROPERTIES ImplementsRegistry OrphansPruned
CHECK_DEADLOCK FALSE
