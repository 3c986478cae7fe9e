SPECIFICATION Spec
CONSTANTS
    Size = 8
    First = 7
    Callers = {"udp", t1, t2}
    None = None
    Addrs = {}
    Conns = {t1, t2}
    Requests = {"data", "disconnect", "junk"}
    PeerTimeout = 1
    Watched = {}
    MaxLost = 1
    Prompt = TRUE
INVARIANTS PoolGuarded TcpCleanedUp
 
