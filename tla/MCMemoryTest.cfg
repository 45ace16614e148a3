SPECIFICATION TestSpec
CONSTANTS
    run_sequence = run_sequence
    Seqs <- MCSeqs
    Null = Null
    Addr <- MCAddr
    Data <- MCData
    X = X
    hAAAAAAAA = hAAAAAAAA
    hBBBBBBBB = hBBBBBBBB
    hCCCCCCCC = hCCCCCCCC
    hDDDDDDDD = hDDDDDDDD
    hDEADBEEF = hDEADBEEF
    RandomAddr = {0, 100, 255}
    RandomWords = {hAAAAAAAA, hBBBBBBBB}
    Writes = 3
INVARIANTS
    TestTypeOK
    ScoreboardNeverFails
    InflightMatchesPipeline
    ExpectedFollowsMemory
    EveryItemScored
    PipelineDrained
    NoBubbles
    AllTestsPass
    CoverageClosed
PROPERTIES
    TestEnds
    RunsTestbench
