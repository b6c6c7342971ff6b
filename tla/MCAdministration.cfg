SPECIFICATION Spec
CONSTANTS
    Requests <- RequestNames
    MinSegment = 2
    MaxSegments = 2
    Limits <- LimitsOfADesign
    Stories <- AllStories
INVARIANTS
    TypeOK
    DuplicatesExplained
    NothingHalfImported
    PreviewHonest
    DraftsFit
    AccessExplained
    OldPasswordOut
PROPERTIES
    HistoryKept
    AdminKept
CHECK_DEADLOCK FALSE
