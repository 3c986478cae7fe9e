SPECIFICATION FairSpec
CONSTANTS
    MaxSessions = 2
    Rounds = 2
    Patience = 2
    MaxLoops = 2
    MaxOutages = 2
    Stoppers = {"signal"}
INVARIANTS TypeOK 
PROPERTIES  OutageShows StopEnds
