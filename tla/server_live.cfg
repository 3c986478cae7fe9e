SPECIFICATION FairSpec
CONSTANTS
    Size = 8
    First = 5
    Callers = {"udp"}
    None = None
    Addrs = {a1}
    Conns = {}
    Requests = {"ping"}
    PeerTimeout = 2
    Watched = {}
    MaxLost = 4
    Prompt = TRUE
INVARIANTS PoolTypeOK 
PROPERTIES RefusesWhenFull SilentPeerReleased HandshakeEnds
