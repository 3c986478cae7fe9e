SPECIFICATION Spec
CONSTANTS
    MaxSessions = 2
    Rounds = 1
    Patience = 2
    MaxLoops = 1
    MaxOutages = 0
    Stoppers = {"signal", "http"}
INVARIANT StopIsIdempotent
