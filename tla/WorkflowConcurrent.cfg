CONSTANTS
    a = a
    b = b
    c = c
    Requests = {a, b}
    MayIssue <- TwoOfEach
    Catalog <- ShortShapes
    MaxRevisions = 1
    Restarts = TRUE
SYMMETRY Slots
SPECIFICATION Spec
INVARIANTS OneExecutionPerRevision OneDecisionPerRevision RevisionsAreAudited FutureNeverPassed
PROPERTY TerminalIsFinal
CHECK_DEADLOCK FALSE
