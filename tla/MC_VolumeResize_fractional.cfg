CONSTANTS
    Bad = Bad
    Nil = Nil
    NoValue <- Nil
    Unparsable <- Bad
    NumPVs = 2
    InitQty = 2
    Requests <- MCFractionalRequests
    BadIds = {}
    MaxCalls = 3
SPECIFICATION Spec
INVARIANT RecordBackedByFs
