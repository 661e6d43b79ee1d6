CONSTANTS
    a = a
    b = b
    c = c
    Requests = {a, b, c}
    Page = {a, b}
    MayIssue <- OnePage
    Catalog <- AllShapes
    MaxRevisions = 2
    Restarts = FALSE
SPECIFICATION PageSpec
INVARIANT OfferIsAccepted
CHECK_DEADLOCK FALSE
