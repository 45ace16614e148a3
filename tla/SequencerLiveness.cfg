SPECIFICATION FairClientsSpec
CONSTANTS
    s1 = s1
    s2 = s2
    Seqs = {s1, s2}
    Null = Null
    MaxItems = 2
    MaxLocks = 1
    MaxGrabs = 1
    MaxWaits = 1
    Killable = {}
PROPERTIES
    EverySequenceFinishes
    ImplementsExchange
