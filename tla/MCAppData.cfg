SPECIFICATION Spec
CONSTANTS
    None = None
    Down = Down
    NoKey = NoKey
    k1 = k1
    k2 = k2
    t1 = t1
INVARIANTS
    ScreenFollowsSession StreamServesItsListeners ReportIsTrue
PROPERTIES
    PolledScreensCatchUp LateAnswersAreHarmless NobodyIsLeftWaiting
CHECK_DEADLOCK FALSE
