SPECIFICATION Spec
CONSTANTS
    None = None
    Timeframes = {"1d", "5m"}
    IntradayTimeframes = {"5m"}
    ChartTypes = {"candles"}
    Indicators = {"vwap", "rsi"}
    Requests = {r1, r2}
    Stored <- LockedText
    Draft <- OtherText
    FirstId = 1
    HistoryLimit = 2
    Devices = {d1, d2}
    MaxCalls <- TwoAndOne
    MaxChanges = 3
    MaxFailures = 1
    MaxId = 1
    MaxEdits = 3
    MaxShapes = 2
    MaxLost = 1
INVARIANTS
    CanvasIsTrue DrawingsAreKept
PROPERTIES
    LockedShapesHold ChartsSettle
CHECK_DEADLOCK FALSE
