SPECIFICATION FairSpec
CONSTANTS
    Size = 8
    First = 6
    Callers = {"udp", t1}
    None = None
    Addrs = {}
    Conns = {t1}
    Requests = {"data", "disconnect", "junk"}
    PeerTimeout = 1
    Watched = {}
    MaxLost = 1
    Prompt = TRUE
PROPERTIES ClosedPipeEnds 
