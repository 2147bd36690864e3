CONSTANTS
    Orgs <- MCOrgs
    AppIds <- MCAppIds
    StatusInputs <- MCStatusInputs
    Absent = Absent
SPECIFICATION Spec
INVARIANT IndexExact
