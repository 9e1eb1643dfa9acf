------------------------------ MODULE MCChart ------------------------------
(***************************************************************************)
(* The chart of one stock: its bars and toolbar, the drawings on it, and   *)
(* the copies of the drawings in the browsers and on the server.  The      *)
(* three share no state: one of them is chosen, and runs alone.            *)
(***************************************************************************)
EXTENDS Naturals

CONSTANTS
    None,
    Timeframes, IntradayTimeframes, ChartTypes, Indicators, Requests,   \* of ChartData
    Stored, Draft, FirstId, HistoryLimit,                               \* of DrawingBoard
    Devices, MaxCalls,                                                  \* of DrawingSync
    MaxChanges, MaxFailures, MaxId, MaxEdits, MaxShapes, MaxLost        \* bounds

Shapes == [id : Nat, kind : {"line", "text"}, v : {0, 1}, locked : BOOLEAN]

\* The shapes a chart is opened with, and those of a draft, are numbered below the ones drawn on it;
\* no indicator has the name of the price series, and
\* None is neither a drag nor a browser's copy.
ASSUME ChartAssumption ==
    /\ "main" \notin Indicators
    /\ FirstId \in Nat /\ HistoryLimit \in Nat \ {0}
    /\ Stored \cup Draft \subseteq Shapes /\ \A s \in Stored \cup Draft : s.id < FirstId
    /\ \A drawing \in {Stored, Draft} : \A s, t \in drawing : s.id = t.id => s = t
    /\ None \notin [id : Nat, moved : BOOLEAN, start : SUBSET Shapes]
    /\ None \notin [shapes : SUBSET (1..MaxShapes), at : Nat, dirty : BOOLEAN]

VARIABLES
    part,
    prefs, listing, session, bars, barsKey, wantKey, error, request, compareBars, compares,
    series, datasetKey, zoomed, fitted, changes, failures,
    shapes, saved, loaded, past, future, tool, pending, drag, editing, selected, lockAll, nextId,
    edits, interrupted,
    server, local, open, ready, screen, calls, drawn, drewSince, hasty, lost

barsVars  == <<prefs, listing, session, bars, barsKey, wantKey, error, request, compareBars, compares,
               series, datasetKey, zoomed, fitted, changes, failures>>
boardVars == <<shapes, saved, loaded, past, future, tool, pending, drag, editing, selected, lockAll, nextId,
               edits, interrupted>>
syncVars  == <<server, local, open, ready, screen, calls, drawn, drewSince, hasty, lost>>
vars      == <<part, barsVars, boardVars, syncVars>>

\* What the run loads: a locked text, and a draft of it that is neither.
LockedText == {[id |-> 0, kind |-> "text", v |-> 0, locked |-> TRUE]}
OtherText  == {[id |-> 0, kind |-> "text", v |-> 1, locked |-> FALSE]}

\* Its first browser has two calls under way at most, the others one.
TwoAndOne == [d \in Devices |-> IF d = CHOOSE first \in Devices : TRUE THEN 2 ELSE 1]

Bars == INSTANCE ChartData

Board == INSTANCE DrawingBoard

Sync == INSTANCE DrawingSync

\* The parts that do not run start in one state only.
Init ==
    /\ part \in {"bars", "board", "sync"}
    /\ Bars!Init /\ Board!Init /\ Sync!Init
    /\ part # "bars" => listing = "extended"

Chosen(name) == part = name /\ UNCHANGED part

BarsRun(step)  == Chosen("bars") /\ step /\ UNCHANGED <<boardVars, syncVars>>
\* Bound: nothing is followed past an edit made within a drag or before the load.
BoardRuns(step) == Chosen("board") /\ ~interrupted /\ step /\ UNCHANGED <<barsVars, syncVars>>
SyncRuns(step) == Chosen("sync") /\ step /\ UNCHANGED <<barsVars, boardVars>>

Next == BarsRun(Bars!Next) \/ BoardRuns(Board!Next) \/ SyncRuns(Sync!Next)

Spec ==
    /\ Init /\ [][Next]_vars
    /\ SF_vars(BarsRun(\E r \in Requests : Bars!Poll(r)))
    /\ \A r \in Requests : WF_vars(BarsRun(Bars!Answered(r)))
    /\ \A d \in Devices : WF_vars(SyncRuns(Sync!Progress(d)))

\* The canvas and the view belong to the bars of the selected timeframe, and show what the toolbar
\* says of the bars in hand.
CanvasIsTrue == Bars!BuiltUnderTheirOwnKey /\ Bars!CanvasFollowsToolbar
\* Undo and redo walk along the edits that were made, the screen between gestures is what was
\* persisted, what is drawn reaches the screen, the browser and the server, and no clean copy
\* overwrites the server's drawings.
DrawingsAreKept ==
    /\ Board!UndoRetracesEdits /\ Board!ScreenIsSaved
    /\ Sync!EditsSurvive /\ Sync!CleanCacheNeverPushes
\* A locked shape is not changed by hand.
LockedShapesHold == Board!LockedShapesHold

\* The bars of an intraday chart come to match EXT, and the browsers come to agree with the server.
ChartsSettle ==
    /\ part = "bars" => Bars!BarsComeToMatchExt
    /\ part = "sync" => Sync!DevicesConverge
=============================================================================
