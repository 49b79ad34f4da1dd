SPECIFICATION Spec
CONSTANTS
    s = s
    x = x
    y = y
    good = good
    odd = odd
    Node = {s, x, y}
    Piece = {1, 2}
    Data = {good, odd}
    NoData = NoData
    NoPeer = NoPeer
    NoPiece = NoPiece
    GoodData <- MCGoodData
    Verifying = {x}
    InitialStore <- OddSeeder
    Link <- Triangle
    Breakable <- OneLink
    OutboxCap = 2
    RoundsAhead = 1
    WriteOutcomes = {TRUE}
    MaxUnchokedPeers = 2
    OptimisticUnchokeInterval = 1
INVARIANTS
    TypeOK
    NoOverclaim
    VerifiedFileIntact
PROPERTIES
    Disseminates
