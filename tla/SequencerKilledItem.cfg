SPECIFICATION ClientsSpec
CONSTANTS
    s1 = s1
    s2 = s2
    Seqs = {s1, s2}
    Null = Null
    MaxItems = 1
    MaxLocks = 0
    MaxGrabs = 0
    MaxWaits = 1
    Killable = {s1}
INVARIANT NeverCalledTwice
