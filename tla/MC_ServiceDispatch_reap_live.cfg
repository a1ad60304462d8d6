CONSTANTS
    s1 = s1
    s2 = s2
    w1 = w1
    me = me
    r2 = r2
    Services <- MCServices
    Workers <- MCOneWorker
    Relays <- MCRelays
    Me = me
    K = 1
    ReapConfig <- MCReapConfigs
SPECIFICATION Spec
PROPERTY ReapOnlySilentPeers
