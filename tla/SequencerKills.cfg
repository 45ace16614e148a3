SPECIFICATION ClientsSpec
CONSTANTS
    s1 = s1
    s2 = s2
    s3 = s3
    Seqs = {s1, s2, s3}
    Null = Null
    MaxItems = 2
    MaxLocks = 1
    MaxGrabs = 0
    MaxWaits = 1
    Killable = {s1}
INVARIANTS
    SequencerTypeOK
    LockIsExclusive
    ItemsDrivenOnce
    HandshakeIsClean
PROPERTIES
    HolderIsAlone
    ImplementsExchange
