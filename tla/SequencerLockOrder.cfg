SPECIFICATION ClientsSpec
CONSTANTS
    s1 = s1
    s2 = s2
    Seqs = {s1, s2}
    Null = Null
    MaxItems = 1
    MaxLocks = 1
    MaxGrabs = 0
    MaxWaits = 0
    Killable = {}
PROPERTY LockWaitsItsTurn
