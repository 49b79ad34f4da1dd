SPECIFICATION ServerSpec
CONSTANTS
    Peer = {p1, p2, p3}
    Slow = {p1}
    NoPeer = NoPeer
    MaxUnchokedPeers = 2
    OptimisticUnchokeInterval = 2
    MaxRate = 0
INVARIANTS
    ChokeAgreement
PROPERTIES
    NoStarvation
