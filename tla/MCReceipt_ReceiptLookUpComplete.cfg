CONSTANTS
    WorkOrders <- MCWorkOrders
    ServiceIds <- MCServiceIds
    WorkerIds <- MCWorkerIds
    RequesterIds <- MCRequesterIds
    CreateStatuses <- MCCreateStatuses
    Updaters <- MCUpdaters
    UpdateTypes <- MCUpdateTypes
    QueryUpdaters <- MCQueryUpdaters
    MAXLOG = 2
    UINT64 <- MCUint64
    PAGESIZE = 1
    Absent = Absent
    NoTag = NoTag
    NoAnswer = NoAnswer
SPECIFICATION Spec
INVARIANT
    ReceiptLookUpComplete
