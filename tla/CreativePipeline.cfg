CONSTANTS
    a = a
    b = b
    Requests = {a, b}
    Starts <- AllStarts
    References = 2
    MaxIdeas = 2
    MinAlternatives = 2
    MaxAlternatives = 3
    MaxRequests = 3
    MaxFailures = 1
SYMMETRY Slots
SPECIFICATION Spec
INVARIANTS TypeOK VersionsInOrder VersionsAnalysed BriefsRestOnAnApproval
    WorkRestsOnApprovedDna ReportsJudgeApprovedPlans AuditAgrees
CHECK_DEADLOCK FALSE
