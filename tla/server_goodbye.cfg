SPECIFICATION Spec
CONSTANTS
    Size = 8
    First = 5
    Callers = {"udp"}
    None = None
    Addrs = {a1, a2}
    Conns = {}
    Requests = {"disconnect"}
    PeerTimeout = 1
    Watched = {}
    MaxLost = 1
    Prompt = TRUE
CONSTRAINT NotRepeated
SYMMETRY Symmetry
INVARIANTS SoundUnlessRepeated
