SPECIFICATION Spec
CONSTANTS
    Pids = {p1, p2}
    Scopes = {"default", "api"}
    DefaultScope = "default"
    Tasks = {t1, t2}
    Middlewares <- MCMiddlewares
    Routes <- MCRoutes
    ScopeOf <- MCScopeOf
    NoScope = NoScope
    Views <- MCViews
    MaxServers = 3
INVARIANTS
    HandledByOne
    ScopesCounted
    OneServerPerScope
    ClosedMeansQuiet
    
    
CHECK_DEADLOCK FALSE
