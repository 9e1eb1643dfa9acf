SPECIFICATION AnySpec
CONSTANTS
    None = None
    Refresh = Refresh
    Requests = {r1}
    Orders = {o1, o2}
    Bots = {b1}
    Limits = {l1, l2}
    MaxTrades = 1
    Prices = {1, 2, 3}
    Opening = 2
    Levels <- WatchedLevels
    Saves = {p1, p2}
    Users = {u1, u2}
    Chats = {c1}
    Groups = {}
    MaxBad = 1
    MaxQueued = 1
    MaxNow = 1
    MaxMoves = 2
    MaxFailures = 1
    MaxCodes = 2
    MaxUpdates = 2
    MaxTexts = 1
    MaxFaults = 1
CHECK_DEADLOCK FALSE

    
PROPERTIES
    
    AlertsAreTrue
    
