SPECIFICATION Spec
CONSTANTS
    a1 = a1
    a2 = a2
    t1 = t1
    t2 = t2
    Attempts = {a1, a2}
    Threads = {t1, t2}
    Balance = 2
    Share = 1
    Partials = {1}
    Settings <- Clients
    Days = 1
    MaxTrouble <- Trouble
    Idle = Idle
SYMMETRY Symmetry
INVARIANTS
    TypeOK
    Balanced
    ConfirmedIsBooked
    ChargedOnce
    NothingOutstanding
PROPERTIES
    ConfirmationSurvives
    KeepsTheBooks
CHECK_DEADLOCK FALSE
