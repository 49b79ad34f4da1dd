SPECIFICATION Spec
CONSTANTS
    s = s
    x = x
    y = y
    good = good
    odd = odd
    Node = {s, x, y}
    Piece = {1}
    Data = {good, odd}
    NoData = NoData
    NoPeer = NoPeer
    NoPiece = NoPiece
    GoodData <- MCGoodData
    Verifying = {x}
    InitialStore <- OneSeeder
    Link <- Triangle
    Breakable <- NoLinks
    OutboxCap = 8
    RoundsAhead = 1
    WriteOutcomes = {TRUE, FALSE}
    MaxUnchokedPeers = 2
    OptimisticUnchokeInterval = 2
INVARIANTS
    NoLostAnnouncement
    ChokeAgreement
