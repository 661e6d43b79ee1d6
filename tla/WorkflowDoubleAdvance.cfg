CONSTANTS
    a = a
    b = b
    c = c
    Requests = {a, b}
    MayIssue <- TwoOfEach
    Catalog <- AllShapes
    MaxRevisions = 1
    Restarts = FALSE
SYMMETRY Slots
SPECIFICATION Spec
INVARIANT NoGateSkipped
CHECK_DEADLOCK FALSE
