SPECIFICATION FairSpec
CONSTANTS
    a = a
    b = b
    other = other
    c1 = c1
    c2 = c2
    Node = {a, b}
    Conn = {c1, c2}
    Dialer <- CrossDialer
    Acceptor <- CrossAcceptor
    InfoHash <- OneHash
    NoEnd = NoEnd
    Breakable = {}
    Oversized = {}
    OutboxCap = 1
    RpcCap = 1
    MaxSends = 1
CHECK_DEADLOCK FALSE
PROPERTIES
    DedupKeepsOne
