SPECIFICATION Spec
CONSTANTS
    Keys <- MCKeys
    TorrentFiles <- MCTorrentFiles
    CutFiles <- MCCutFiles
    HashLength = 4
    Interval = 1800
    Hashes <- MCHashes
    Peers <- MCPeers
    MaxPeers = 3
    Own <- MCOwn
    Bits = 3
    Counts = {0, 3, 4, 5}
CHECK_DEADLOCK FALSE
INVARIANTS
    HashesArrive
