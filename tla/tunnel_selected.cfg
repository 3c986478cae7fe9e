SPECIFICATION Spec
CONSTANTS
    Handlers = {h1, h2}
    Server = "server"
    Whitelist <- Selected
    Blacklist <- Bypassed
    Malformed = {"w2"}
    OnStart = FALSE
    Outages = TRUE
SYMMETRY Symmetry
PROPERTIES StartRepairs
