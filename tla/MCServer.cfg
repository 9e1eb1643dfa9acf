SPECIFICATION Spec
CONSTANTS
    Sources = {quotes}
    Derived = derived
    Nobody = Nobody
    Puts = {p1}
    Days = {1, 2}
    Times = {6, 7}
    Morning = 6
    MaxScheduleEdits = 1
    MaxManual = 1
    MaxRowEdits = 2
    MaxOthers = 1
    MaxFailures = 1
    MaxMoves = 3
    MaxLosses = 1
INVARIANTS
    SchedulesHold EditorsAgree
PROPERTIES
    WaitsEnd
CHECK_DEADLOCK FALSE
