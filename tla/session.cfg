SPECIFICATION FairSpec
CONSTANTS
    None = None
    Attempts = 2
    Rounds = 1
    PeerTimeout = 2
    Readers = {r1}
    MaxDials = 2
    MaxOpens = 2
    MaxCrashes = 1
    MaxInFlight = 1
INVARIANTS TypeOK   SilenceIsSeen

PROPERTIES OpenEnds OrphansForgotten
