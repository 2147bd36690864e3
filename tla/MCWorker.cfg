CONSTANTS
    WorkerIds <- MCWorkerIds
    WorkerTypes <- MCWorkerTypes
    OrgIds <- MCOrgIds
    AppTypeIds <- MCAppTypeIds
    DetailValues <- MCDetailValues
    StatusInputs <- MCStatusInputs
    PAGESIZE = 1
    Absent = Absent
    NoTag = NoTag
    NoAnswer = NoAnswer
SPECIFICATION Spec
INVARIANTS
    TypeOK
    WorkerIndexSound
