SPECIFICATION Spec
CONSTANTS
    None = None
    PageSize = 2
    SeenCap = 6
    Polls = {p1, p2}
    Bases = {b1, b2}
    FirstBase = b1
    t1 = t1
    t2 = t2
    Nodes = {n1}
    c1 = c1
    c2 = c2
INVARIANTS
    ToldOnce ClientsAreTruthful

    
CHECK_DEADLOCK FALSE
