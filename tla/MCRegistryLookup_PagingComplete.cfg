CONSTANTS
    Orgs <- MCOrgs
    AppIds <- MCAppIds
    StatusInputs <- MCStatusInputs
    Absent = Absent
    PAGESIZE = 1
    NoTag = NoTag
SPECIFICATION LookupSpec
INVARIANT PagingComplete
