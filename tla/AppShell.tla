------------------------------- MODULE AppShell -------------------------------
(***************************************************************************)
(* App.jsx with lib/nav.js and Tour.jsx: the address bar as the one source *)
(* of what is on the screen, the ways into and out of a stock page, and    *)
(* the guided tours, which start by themselves the first time a view is    *)
(* seen.  The history is a sequence of routes and a position in it.        *)
(***************************************************************************)
EXTENDS Naturals, Sequences

CONSTANTS
    Views, DefaultView,     \* routes.js: TITLES and DEFAULT_VIEW
    TourViews,              \* the views lib/tours.js has steps for
    TourSteps,              \* steps of a tour whose target is on the page
    None,
    MaxHistory,             \* bound: entries of the browser's history
    MaxMoves                \* bound: what the user does

VARIABLES
    history, at,        \* the browser's entries and the one shown
    tab,                \* "open", or "closed" by window.close
    fallback,           \* the timer of leaveStock, waiting to find the tab still open
    tour, tourStep,     \* tourView, and the index of its coachmark
    tourTimer,          \* the view the 450 ms timer would start a tour for
    toursSeen, toursReplay,     \* settings
    onboarded, tourAllowed,     \* the account's flag, and what it was when App mounted
    dataLoading,        \* the first load of the dashboard
    palette,            \* cmdOpen
    leaving,            \* ghost: Back was pressed on the stock page still on the screen
    moves

vars == <<history, at, tab, fallback, tour, tourStep, tourTimer, toursSeen, toursReplay, onboarded,
          tourAllowed, dataLoading, palette, leaving, moves>>
tourVars == <<tour, tourStep>>

View(v)       == [kind |-> "view", view |-> v, known |-> TRUE, from |-> None]
Junk          == [kind |-> "view", view |-> DefaultView, known |-> FALSE, from |-> None]
Stock(from)   == [kind |-> "stock", view |-> DefaultView, known |-> TRUE, from |-> from]
Routes        == {View(v) : v \in Views} \cup {Stock(v) : v \in Views \cup {None}} \cup {Junk}

route  == history[at]
view   == route.view
detail == route.kind = "stock"

TypeOK ==
    /\ history \in Seq(Routes) /\ at \in 1..Len(history) /\ Len(history) \leq MaxHistory
    /\ tab \in {"open", "closed"} /\ fallback \in BOOLEAN
    /\ tour \in Views \cup {None} /\ tourStep \in 1..TourSteps /\ tourTimer \in Views \cup {None}
    /\ toursSeen \subseteq Views /\ toursReplay \in BOOLEAN
    /\ onboarded \in BOOLEAN /\ tourAllowed \in BOOLEAN
    /\ dataLoading \in BOOLEAN /\ palette \in BOOLEAN /\ leaving \in BOOLEAN /\ moves \in 0..MaxMoves

(***************************************************************************)
(* The effect that starts a tour: it runs again whenever something it      *)
(* depends on changed, clears its timer and perhaps sets a new one.        *)
(***************************************************************************)
MayTour(r, seen, replay, busy) ==
    /\ tourAllowed \/ replay
    /\ ~busy /\ r.kind # "stock" /\ r.view \in TourViews /\ r.view \notin seen

AutoTour(r, seen, replay, busy) == IF MayTour(r, seen, replay, busy) THEN r.view ELSE None

\* What the effect looks at, of a route: the view and whether a ticker is open.
SameScreen(r1, r2) == r1.view = r2.view /\ r1.kind = r2.kind

Rearm ==
    LET unchanged == SameScreen(history'[at'], route) /\ toursSeen' = toursSeen
                     /\ toursReplay' = toursReplay /\ dataLoading' = dataLoading
    IN tourTimer' = IF unchanged THEN tourTimer
                    ELSE AutoTour(history'[at'], toursSeen', toursReplay', dataLoading')

Init ==
    /\ \E r \in {View(v) : v \in Views} \cup {Stock(None), Junk} : history = <<r>>
    /\ at = 1 /\ tab = "open" /\ fallback = FALSE
    /\ tour = None /\ tourStep = 1 /\ tourTimer = None
    /\ toursSeen = {} /\ toursReplay = FALSE
    /\ onboarded \in BOOLEAN /\ tourAllowed = ~onboarded
    /\ dataLoading = TRUE /\ palette = FALSE /\ leaving = FALSE /\ moves = 0

(***************************************************************************)
(* navigateTo: nothing when the address is that already; replaceState      *)
(* rewrites the entry, pushState drops what was ahead of it.               *)
(***************************************************************************)
Path(r) == IF r.kind = "view" THEN <<r.view, r.known>> ELSE <<"stock", r.from>>

Push(r) ==
    IF Path(r) = Path(route) THEN UNCHANGED <<history, at>>
    ELSE history' = Append(SubSeq(history, 1, at), r) /\ at' = at + 1

Replace(r) == history' = [history EXCEPT ![at] = r] /\ at' = at

Open == tab = "open"

Move == Open /\ moves < MaxMoves /\ moves' = moves + 1

\* The sidebar of a view, or the command palette, which opens over a stock page, and over a tour,
\* whose backdrop takes every other click.
Navigate(v) ==
    /\ Move /\ (palette \/ (~detail /\ tour = None))
    /\ at < MaxHistory
    /\ Push(View(v)) /\ palette' = FALSE
    /\ UNCHANGED <<tab, fallback, tourVars, toursSeen, toursReplay, onboarded, tourAllowed, dataLoading>>
    /\ leaving' = (leaving /\ history'[at'].kind = "stock")
    /\ Rearm

\* openAlert: this tab, and `from` is the way back.
OpenAlert ==
    /\ Move /\ ~detail /\ tour = None /\ at < MaxHistory
    /\ Push(Stock(view))
    /\ UNCHANGED <<tab, fallback, tourVars, toursSeen, toursReplay, onboarded, tourAllowed, dataLoading, palette>>
    /\ leaving' = (leaving /\ history'[at'].kind = "stock")
    /\ Rearm

BrowserGo(i) ==
    /\ Move /\ i \in (1..Len(history)) \ {at}
    /\ at' = i /\ history' = history
    /\ UNCHANGED <<tab, fallback, tourVars, toursSeen, toursReplay, onboarded, tourAllowed, dataLoading, palette>>
    /\ leaving' = (leaving /\ history'[at'].kind = "stock")
    /\ Rearm

\* A path nobody knows is rewritten to the view that is shown for it.
RewriteJunk ==
    /\ Open /\ ~route.known
    /\ Replace(View(DefaultView))
    /\ UNCHANGED <<tab, fallback, tourVars, toursSeen, toursReplay, onboarded, tourAllowed, dataLoading, palette, moves>>
    /\ leaving' = (leaving /\ history'[at'].kind = "stock")
    /\ Rearm

\* Mutant: nobody looks whether the tab closed.
closeDetail_trustsClose ==
    /\ Move /\ detail /\ tour = None
    /\ \/ /\ route.from # None
          /\ Replace(View(route.from)) /\ UNCHANGED <<tab, fallback>>
       \/ /\ route.from = None
          /\ tab' \in {"open", "closed"} /\ UNCHANGED <<fallback, history, at>>
    /\ leaving' = (route.from = None /\ tab' = "open")
    /\ UNCHANGED <<tourVars, toursSeen, toursReplay, onboarded, tourAllowed, dataLoading, palette>>
    /\ Rearm

\* leaveStock, from the page's Back.
closeDetail ==
    /\ Move /\ detail /\ tour = None
    /\ \/ /\ route.from # None
          /\ Replace(View(route.from)) /\ UNCHANGED <<tab, fallback>>
       \/ /\ route.from = None
          /\ tab' \in {"open", "closed"}                \* the browser may refuse to close
          /\ fallback' = (tab' = "open") /\ UNCHANGED <<history, at>>
    /\ leaving' = (route.from = None /\ tab' = "open")
    /\ UNCHANGED <<tourVars, toursSeen, toursReplay, onboarded, tourAllowed, dataLoading, palette>>
    /\ Rearm

StillHere ==
    /\ Open /\ fallback /\ fallback' = FALSE
    /\ Replace(View(DefaultView))
    /\ UNCHANGED <<tab, tourVars, toursSeen, toursReplay, onboarded, tourAllowed, dataLoading, palette, moves>>
    /\ leaving' = (leaving /\ history'[at'].kind = "stock")
    /\ Rearm

DataLoaded ==
    /\ Open /\ dataLoading /\ dataLoading' = FALSE
    /\ UNCHANGED <<leaving, history, at, tab, fallback, tourVars, toursSeen, toursReplay, onboarded, tourAllowed, palette, moves>>
    /\ Rearm

TogglePalette ==
    /\ Move /\ palette' = ~palette
    /\ UNCHANGED <<leaving, history, at, tab, fallback, tour, tourStep, tourTimer, toursSeen, toursReplay, onboarded,
                   tourAllowed, dataLoading>>

(***************************************************************************)
(* Tours.                                                                  *)
(***************************************************************************)
TourTimerFires ==
    /\ Open /\ tourTimer # None
    /\ tour' = tourTimer /\ tourTimer' = None
    /\ tourStep' = IF tour = None THEN 1 ELSE tourStep   \* the open tour's component is kept
    /\ UNCHANGED <<leaving, history, at, tab, fallback, toursSeen, toursReplay, onboarded, tourAllowed, dataLoading,
                   palette, moves>>

onStartTour ==
    /\ Move /\ ~detail /\ tour = None /\ view \in TourViews
    /\ tour' = view /\ tourStep' = 1
    /\ UNCHANGED <<leaving, history, at, tab, fallback, tourTimer, toursSeen, toursReplay, onboarded, tourAllowed,
                   dataLoading, palette>>

back ==
    /\ Move /\ tour # None /\ tourStep > 1 /\ tourStep' = tourStep - 1
    /\ UNCHANGED <<leaving, history, at, tab, fallback, tour, tourTimer, toursSeen, toursReplay, onboarded,
                   tourAllowed, dataLoading, palette>>

next ==
    /\ Move /\ tour # None /\ tourStep < TourSteps /\ tourStep' = tourStep + 1
    /\ UNCHANGED <<leaving, history, at, tab, fallback, tour, tourTimer, toursSeen, toursReplay, onboarded,
                   tourAllowed, dataLoading, palette>>

\* Done, Skip, Escape or the backdrop.  The first tour closed is the account's last; saying so may fail.
closeTour ==
    /\ Move /\ tour # None
    /\ toursSeen' = toursSeen \cup {tour}
    /\ onboarded' \in {onboarded, TRUE}
    /\ tour' = None /\ tourStep' = 1
    /\ UNCHANGED <<leaving, history, at, tab, fallback, toursReplay, tourAllowed, dataLoading, palette>>
    /\ Rearm

\* Settings: "Replay all tours".
ReplayTours ==
    /\ Move /\ ~detail /\ tour = None
    /\ toursReplay' = TRUE /\ toursSeen' = {}
    /\ UNCHANGED <<leaving, history, at, tab, fallback, tourVars, onboarded, tourAllowed, dataLoading, palette>>
    /\ Rearm

Next ==
    \/ \E v \in Views : Navigate(v)
    \/ OpenAlert \/ RewriteJunk \/ closeDetail \/ StillHere \/ DataLoaded \/ TogglePalette
    \/ \E i \in 1..MaxHistory : BrowserGo(i)
    \/ TourTimerFires \/ onStartTour \/ back \/ next \/ closeTour \/ ReplayTours

Fairness ==
    /\ WF_vars(StillHere) /\ WF_vars(RewriteJunk) /\ WF_vars(DataLoaded) /\ WF_vars(TourTimerFires)

Spec == Init /\ [][Next]_vars /\ Fairness

\* A tour starts by itself only on the view on the screen, unseen there, for an account that was
\* new when the page opened or asked to see the tours again - whatever changed while its timer ran
\* (App.jsx 252-267).
AutoTourIsDue ==
    tourTimer # None =>
        /\ tourTimer = view /\ ~detail /\ tourTimer \notin toursSeen
        /\ tourAllowed \/ toursReplay

\* "Rather than stranding the user on a page whose only exit did nothing": where the browser will
\* not close the tab, Back ends on a view (nav.js 99-103).
BackLeavesTheStockPage == leaving ~> ~leaving

\* While a ticker is open, tours are suppressed (App.jsx 165-167).
NoTourOverAStock == detail => tour = None
=============================================================================
