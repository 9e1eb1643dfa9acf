SPECIFICATION Spec
CONSTANTS
    None = None
    NoAlert = NoAlert
    NoTicker = NoTicker
    us = us
    il = il
    a1 = a1
    home = home
    news = news
    button = button
    tip = tip
INVARIANTS
    PagesTellTheTruth  ListsAreKept
PROPERTIES
    PopupsHold NothingIsOverwritten WaitsEnd
CHECK_DEADLOCK FALSE
