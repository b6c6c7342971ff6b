SPECIFICATION Spec
CONSTANTS
    t1 = t1
    t2 = t2
    Idle = Idle
    Comms = {1, 2}
    Links = {1, 2}
    Threads = {t1, t2}
    Channels = {"Email", "SMS"}
    Bounds <- MCBounds
SYMMETRY Symmetry
CHECK_DEADLOCK FALSE
INVARIANTS
    TypeOK
    RowTellsAll
    SentOnce
    OneUsableLink
    RespectsOptOut
    WorkflowTold
PROPERTIES
    NeverBackwards
