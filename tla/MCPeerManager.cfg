CONSTANTS
    a = a
    b = b
    c = c
    Nodes = {a, b, c}
    Announcing = {a, b}
    MaxPeers = 3
    Links <- MCLinks
    MaxBreaks = 1
    MaxUnread = 1
SPECIFICATION MCSpec
INVARIANTS TypeOK HandshakeAgreed
PROPERTY Meshed
CHECK_DEADLOCK FALSE
