SPECIFICATION Spec
CONSTANTS
    Size = 8
    First = 5
    Callers = {"udp"}
    None = None
    Addrs = {a1, a2}
    Conns = {}
    Requests = {"data"}
    PeerTimeout = 1
    Watched = {6}
    MaxLost = 1
    Prompt = TRUE
SYMMETRY Symmetry
INVARIANTS TypeOK AddressesExclusive Accounting UdpInv
PROPERTIES  KeepsPromise
