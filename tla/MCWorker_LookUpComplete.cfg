CONSTANTS
    WorkerIds <- MCWorkerIds
    WorkerTypes <- MCWorkerTypes
    OrgIds <- MCOrgIds
    AppTypeIds <- MCAppTypeIds
    DetailValues <- MCDetailValues
    StatusInputs <- MCStatusInputs
    PAGESIZE = 2
    Absent = Absent
    NoTag = NoTag
    NoAnswer = NoAnswer
SPECIFICATION Spec
INVARIANT
    LookUpComplete
