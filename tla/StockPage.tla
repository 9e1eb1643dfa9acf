------------------------------ MODULE StockPage ------------------------------
(***************************************************************************)
(* StockDetailPanel: the analysis page of one ticker, the panes it is made *)
(* of, and which of them are folded.  The folds live in the settings of    *)
(* useSettings, one blob of localStorage that every tab reads once, when   *)
(* it opens, and rewrites whole at every change; the stock pages open in   *)
(* tabs of their own, so a second tab writes here too.                     *)
(***************************************************************************)
EXTENDS Naturals, FiniteSets

CONSTANTS
    Tickers,        \* what the page can show
    TaseTickers,    \* those listed in Tel Aviv, where no 13F holdings exist
    Alerts,         \* dedup keys an alert link can carry
    NoAlert,
    Extras,         \* the optional panes a payload can bring: "anchors", "xwatch"
    MaxAttempts,    \* bound: retries
    MaxSteps        \* bound: what the user does

VARIABLES
    ticker, focus,      \* what the address bar asks for
    attempt, result,    \* the load: the payload and the ticker and attempt it belongs to
    asked,              \* loads on their way whose effect has not been cleaned up
    overrideDone,       \* alertsOverrideDone
    folded,             \* settings.collapsedSections of this tab
    stored,             \* localStorage
    other,              \* the same settings in the other tab; "closed" until it opens
    watchBusy,
    steps,
    toggled             \* ghost: the alerts under which the user has folded or unfolded the pane

vars == <<ticker, focus, attempt, result, asked, overrideDone, folded, stored, other, watchBusy, steps, toggled>>

\* A payload: whether there is an analysis in it, and what else of it gets a pane.
Payloads == [analysed : BOOLEAN, extras : SUBSET Extras]
Empty    == [analysed |-> FALSE, extras |-> {}]
NoResult == [of |-> "none", attempt |-> 0, kind |-> "none", payload |-> Empty, listed |-> FALSE]

Analysis == {"plan", "structure", "patterns", "trendlines", "breakout", "candles", "why"}
Sections == {"chart", "company", "insiders", "investors", "alerts", "history"} \cup Extras \cup Analysis

TypeOK ==
    /\ ticker \in Tickers /\ focus \in Alerts \cup {NoAlert} /\ attempt \in 0..MaxAttempts
    /\ result.kind \in {"none", "data", "error"} /\ result.payload \in Payloads
    /\ asked \in BOOLEAN /\ overrideDone \in Alerts \cup {NoAlert}
    /\ folded \subseteq Sections /\ stored \subseteq Sections
    /\ other.open \in BOOLEAN /\ other.folded \subseteq Sections
    /\ watchBusy \in BOOLEAN /\ steps \in 0..MaxSteps

Init ==
    /\ ticker \in Tickers /\ focus \in {NoAlert} \cup Alerts
    /\ attempt = 0 /\ result = NoResult /\ asked = TRUE /\ overrideDone = NoAlert
    /\ stored \in {{}, {"alerts"}} /\ folded = stored
    /\ other = [open |-> FALSE, folded |-> {}]
    /\ watchBusy = FALSE /\ steps = 0 /\ toggled = {}

(***************************************************************************)
(* What is on the page.                                                    *)
(***************************************************************************)
\* Mutant: what came for another ticker stays.
loading_ofAnyTicker == result.of = "none" \/ result.attempt # attempt

loading   == result.of # ticker \/ result.attempt # attempt
loadError == ~loading /\ result.kind = "error"
payload   == result.payload
isTase    == ticker \in TaseTickers

\* The panes the JSX renders: the chart at once, what there is to say about the company, but for a
\* load that failed, and the analysis where there is one.
CompanyPanes ==
    IF loadError THEN {}
    ELSE {"company", "insiders", "alerts", "history"} \cup payload.extras
         \cup (IF isTase THEN {} ELSE {"investors"})

AnalysisPanes == IF payload.analysed THEN Analysis ELSE {}

Rendered == IF loading THEN {} ELSE {"chart"} \cup CompanyPanes \cup AnalysisPanes

\* The list "Collapse all" works on, which says it mirrors them.
sectionIds ==
    IF loading THEN {}
    ELSE {"chart", "company", "insiders", "alerts", "history"} \cup payload.extras
         \cup (IF payload.analysed THEN Analysis ELSE {})

forceAlertsOpen == focus # NoAlert /\ overrideDone # focus

isCollapsed(id) == id \in folded /\ ~(id = "alerts" /\ forceAlertsOpen)

allCollapsed == sectionIds # {} /\ \A id \in sectionIds : isCollapsed(id)

\* "Watch" is offered when the payload says the ticker is on none of the user's lists.
canWatch == ~loading /\ ~result.listed

(***************************************************************************)
(* Loading.                                                                *)
(***************************************************************************)
Step == steps < MaxSteps /\ steps' = steps + 1

Loaded ==
    /\ asked /\ asked' = FALSE
    /\ \E p \in Payloads, onList \in BOOLEAN :
          result' = [of |-> ticker, attempt |-> attempt, kind |-> "data", payload |-> p, listed |-> onList]
    /\ UNCHANGED <<ticker, focus, attempt, overrideDone, folded, stored, other, watchBusy, steps, toggled>>

LoadFails ==
    /\ asked /\ asked' = FALSE
    /\ result' = [NoResult EXCEPT !.of = ticker, !.attempt = attempt, !.kind = "error"]
    /\ UNCHANGED <<ticker, focus, attempt, overrideDone, folded, stored, other, watchBusy, steps, toggled>>

Retry ==
    /\ loadError /\ attempt < MaxAttempts /\ Step
    /\ attempt' = attempt + 1 /\ asked' = TRUE
    /\ UNCHANGED <<ticker, focus, result, overrideDone, folded, stored, other, watchBusy, toggled>>

\* The address bar changes under the page (the browser's history); the component stays.
GoTo(t, alert) ==
    /\ <<t, alert>> # <<ticker, focus>> /\ Step
    /\ ticker' = t /\ focus' = alert
    /\ asked' = IF t = ticker THEN asked ELSE TRUE
    /\ UNCHANGED <<attempt, result, overrideDone, folded, stored, other, watchBusy, toggled>>

(***************************************************************************)
(* Folding.  A change of the settings is written out whole.                *)
(***************************************************************************)
setCollapsed(ids, value) ==
    /\ folded' = IF value THEN folded \cup ids ELSE folded \ ids
    /\ stored' = folded'
    /\ overrideDone' = IF "alerts" \in ids THEN focus ELSE overrideDone
    /\ toggled' = IF "alerts" \in ids THEN toggled \cup {focus} ELSE toggled

Toggle(id) ==
    /\ id \in Rendered /\ Step
    /\ setCollapsed({id}, ~isCollapsed(id))
    /\ UNCHANGED <<ticker, focus, attempt, result, asked, other, watchBusy>>

toggleAll ==
    /\ sectionIds # {} /\ Step
    /\ setCollapsed(sectionIds, ~allCollapsed)
    /\ UNCHANGED <<ticker, focus, attempt, result, asked, other, watchBusy>>

OtherTabOpens ==
    /\ ~other.open /\ Step
    /\ other' = [open |-> TRUE, folded |-> stored]
    /\ UNCHANGED <<ticker, focus, attempt, result, asked, overrideDone, folded, stored, watchBusy, toggled>>

OtherTabFolds(id) ==
    /\ other.open /\ id \notin other.folded /\ Step
    /\ other' = [other EXCEPT !.folded = @ \cup {id}] /\ stored' = other'.folded
    /\ UNCHANGED <<ticker, focus, attempt, result, asked, overrideDone, folded, watchBusy, toggled>>

\* The page is opened anew: a new tab reads the blob.
Reopen ==
    /\ Step
    /\ folded' = stored /\ attempt' = 0 /\ result' = NoResult /\ asked' = TRUE
    /\ overrideDone' = NoAlert /\ watchBusy' = FALSE /\ toggled' = {}
    /\ UNCHANGED <<ticker, focus, stored, other>>

\* The Watch button waits for its own answer; the list it shows comes with the next payload.
addToWatchlist ==
    /\ canWatch /\ ~watchBusy /\ Step /\ watchBusy' = TRUE
    /\ UNCHANGED <<ticker, focus, attempt, result, asked, overrideDone, folded, stored, other, toggled>>

WatchAnswered ==
    /\ watchBusy /\ watchBusy' = FALSE
    /\ UNCHANGED <<ticker, focus, attempt, result, asked, overrideDone, folded, stored, other, steps, toggled>>

Next ==
    \/ Loaded \/ LoadFails \/ Retry \/ Reopen \/ toggleAll
    \/ \E t \in Tickers, alert \in Alerts \cup {NoAlert} : GoTo(t, alert)
    \/ \E id \in Sections : Toggle(id)
    \/ OtherTabOpens \/ OtherTabFolds("insiders")
    \/ addToWatchlist \/ WatchAnswered

Spec == Init /\ [][Next]_vars

\* "No filings" and "nothing has tripped" are claims about this ticker: the panes that make them
\* show only what came for it, in the attempt on the page (StockDetailPanel.jsx 338-340).
ClaimsAreBacked ==
    Rendered \ {"chart"} # {} =>
        result.of = ticker /\ result.attempt = attempt /\ result.kind = "data"

\* Arriving from an alert link the Alerts pane is open until the user has folded it here, and
\* then it is as the user left it (StockDetailPanel.jsx 152-155).
FocusedAlertIsOpen == (focus # NoAlert /\ focus \notin toggled) => ~isCollapsed("alerts")

\* "Collapse all" leaves nothing unfolded: when the button reads "Expand all", every pane on the
\* page is folded (StockDetailPanel.jsx 139-140, "Mirrors the conditions in the JSX").
CollapseAllFoldsThePage == allCollapsed => \A id \in Rendered : isCollapsed(id)

\* A fold is undone by unfolding it, and by nothing else (useSettings.js 20-22: "a collapsed
\* section stays collapsed").
FoldsAreKept == [][ stored \ stored' \subseteq folded \ folded' ]_vars
=============================================================================
