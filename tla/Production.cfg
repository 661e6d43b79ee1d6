CONSTANTS
    a = a
    x = x
    y = y
    Requests = {a}
    Starts <- ClearedPlan
    References = 1
    MaxIdeas = 1
    MinAlternatives = 2
    MaxAlternatives = 2
    MaxRequests = 1
    MaxFailures = 1
    local = local
    s3 = s3
    Providers = {local, s3}
    Makers = {x, y}
    MaxImages = 1
    MaxMakes = 3
    MaxUploads = 2
    MadeBefore <- OneImageOrNone
    MaxSwitches = 1
SYMMETRY Symmetric
SPECIFICATION ProductionSpec
INVARIANTS ProductionTypeOK IndexesContinue FilesAreThere OutputsOfApprovedPlans
    AbandonedJobsBounded
PROPERTIES DecidedJobsStay
CHECK_DEADLOCK FALSE
