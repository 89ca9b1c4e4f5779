SPECIFICATION Spec
CONSTANTS
    ann = ann
    bob = bob
    ops = ops
    idA = idA
    idB = idB
    idApi = idApi
    fA = fA
    fB = fB
    fPipe = fPipe
    NoQuery = NoQuery
    NoId = NoId
    Nobody = Nobody
    Now <- MCNow
    UserGroups <- MCUserGroups
    Reserved = {idApi}
    Piped = {fPipe}
    Values <- MCValues
    MetricsPages <- MCMetricsPages
    RawConfigs <- MCRawConfigs
    Requests <- MCRequests
INVARIANTS
    Confined
    RailIsTruth
    BarsFit
    BlamesTheRightOne
    StylesAsWritten
    StatusIsFaithful
CHECK_DEADLOCK FALSE
