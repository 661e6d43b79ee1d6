CONSTANTS
    a = a
    b = b
    c = c
    Requests = {a}
    MayIssue <- OnePerson
    Catalog <- AllShapes
    MaxRevisions = 1
    Restarts = TRUE
SPECIFICATION Spec
INVARIANT RearmRecovers
CHECK_DEADLOCK FALSE
