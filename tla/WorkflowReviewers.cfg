CONSTANTS
    a = a
    b = b
    c = c
    Requests = {a, b, c}
    MayIssue <- OneDriver
    Catalog <- AllShapes
    MaxRevisions = 1
    Restarts = FALSE
SPECIFICATION Spec
INVARIANTS TypeOK LowScoreBlocksGate RevisionRegenerates RevisionsMatchRejections
PROPERTY KeepsPromise
CHECK_DEADLOCK FALSE
