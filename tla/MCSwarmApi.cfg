SPECIFICATION Spec
CONSTANTS
    Peer = {p1, p2, p3}
    Slow = {}
    NoPeer = NoPeer
    MaxUnchokedPeers = 2
    OptimisticUnchokeInterval = 2
    MaxRate = 1
SYMMETRY PeerSymmetry
INVARIANTS
    TypeOK
    UnchokeBound
PROPERTIES
    NoSlotWasted
