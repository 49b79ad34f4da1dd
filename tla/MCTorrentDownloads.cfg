SPECIFICATION FairSpec
CONSTANTS
    s = s
    x = x
    y = y
    good = good
    odd = odd
    Node = {s, x, y}
    Piece = {1}
    Data = {good, odd}
    NoData = NoData
    NoPeer = NoPeer
    NoPiece = NoPiece
    GoodData <- MCGoodData
    Verifying = {x}
    InitialStore <- OneSeeder
    Link <- Triangle
    Breakable <- NoLinks
    OutboxCap = 8
    RoundsAhead = 1
    WriteOutcomes = {TRUE}
    MaxUnchokedPeers = 3
    OptimisticUnchokeInterval = 1
PROPERTIES
    Downloads
