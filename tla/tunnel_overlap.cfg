SPECIFICATION Spec
CONSTANTS
    Handlers = {h1, h2}
    Server = "server"
    Whitelist <- NoList
    Blacklist <- Bypassed
    Malformed = {}
    OnStart = TRUE
    Outages = TRUE
SYMMETRY Symmetry
INVARIANTS TypeOK NeverLoopsAlone StateSettles
PROPERTIES StartRepairs 
