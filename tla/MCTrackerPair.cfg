SPECIFICATION FairSpec
CONSTANTS
    p1 = p1
    p2 = p2
    Peer = {p1, p2}
    Hash = {"h1"}
    InfoHash <- OneTorrent
    MissingAtStart <- OneLeecher
    NumWant = 2
    Lossy = {p2}
    MaxCompleted = 2
CHECK_DEADLOCK FALSE
INVARIANTS
    TypeOK
    MapsAgree
    Discovery
PROPERTIES
    Introduces
    SeederCounted
