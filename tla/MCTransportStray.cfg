SPECIFICATION Spec
CONSTANTS
    a = a
    b = b
    other = other
    c1 = c1
    c2 = c2
    Node = {a, b, other}
    Conn = {c1, c2}
    Dialer <- StrayDialer
    Acceptor <- StrayAcceptor
    InfoHash <- TwoHashes
    NoEnd = NoEnd
    Breakable = {c1}
    Oversized = {2}
    OutboxCap = 2
    RpcCap = 1
    MaxSends = 3
CHECK_DEADLOCK FALSE
INVARIANTS
    TypeOK
    NoGaps
    SwarmOfOthers
    HandshakesProceed
