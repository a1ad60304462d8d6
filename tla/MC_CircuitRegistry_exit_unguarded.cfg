CONSTANTS
    sv1 = sv1
    c1 = c1
    noCn = noCn
    noCaller = noCaller
    e1 = e1
    Services <- MCServices
    Callers <- MCCallers
    Endpoints <- MCEndpoints
    NoCaller = noCaller
    NoCn = noCn
    MinRequests = 1
    ErrNum = 1
    ErrDen = 2
    Probation = 2
    MaxRequests = 2
SPECIFICATION CSpec
INVARIANT ExitChannelsGuarded
