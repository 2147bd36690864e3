CONSTANTS
    OrderIds <- MCOrderIds
    Responses <- MCResponses
    NoResponse = NoResponse
    NoOrder = NoOrder
    WorkOrderIds <- MCWorkOrderIds
    ServiceIds <- MCServiceIds
    WorkerIds <- MCWorkerIds
    RequesterIds <- MCRequesterIds
    CreateStatuses <- MCCreateStatuses
    PAGESIZE = 1
    Absent = Absent
    NoTag = NoTag
    NoAnswer = NoAnswer
SPECIFICATION SdkSpec
INVARIANTS
    OrderTypeOK
    SubmittedHasNoResponse
    LegacyTypeOK

