SPECIFICATION Spec
CONSTANTS
    Handlers = {h1, h2}
    Server = "server"
    Whitelist <- NoList
    Blacklist <- Bypassed
    Malformed = {}
    OnStart = TRUE
    Outages = FALSE
INVARIANTS NoConnectionLoop
