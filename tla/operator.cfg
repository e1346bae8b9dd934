SPECIFICATION Spec
CONSTANTS
    m1 = m1
    m2 = m2
    transport = transport
    api = api
    Manager = {m1, m2}
    Controller = {transport, api}
    NoCopy = NoCopy
    Budget = 1
CHECK_DEADLOCK FALSE
INVARIANT TypeOK
PROPERTY OnlyOwnCondition StatusSettles DeletionCompletes
