----------------------------- MODULE ChartData -----------------------------
(***************************************************************************)
(* components/ChartPro.jsx: the bars of one stock's chart, its toolbar and *)
(* the series built of both.  A handler and the effects of the renders it  *)
(* causes are one step; requests are answered in any order.                *)
(***************************************************************************)
EXTENDS Naturals, FiniteSets

CONSTANTS None,
          Timeframes, IntradayTimeframes,
          ChartTypes, Indicators,     \* those of the toolbar; "vwap" is intraday only
          Requests,                   \* bound: requests for bars under way
          MaxChanges, MaxFailures     \* bounds: toolbar clicks, failed requests

VARIABLES
    prefs,                 \* [tf, type, inds, compare, overlays, prepost]
    listing, session,      \* has the listing extended hours; what an answer said of it
    bars,                  \* None while loading, else [tf, ext, empty]
    barsKey, wantKey,      \* whose bars were put in state; which were asked for last
    error,
    request,               \* the requests under way: None or [tf, ext]
    compareBars, compares, \* None, "failed" or a timeframe; the requests for them
    series,                \* what is on the canvas
    datasetKey, zoomed,    \* the dataset the view was fitted for; has the user moved it
    fitted,                \* history: the timeframe of the bars it was fitted to
    changes, failures

loading   == <<listing, session, bars, barsKey, wantKey, error, request>>
comparing == <<compareBars, compares>>
canvas    == <<series, datasetKey, zoomed, fitted>>
data      == <<prefs, loading, comparing, canvas, changes, failures>>

Intraday(tf) == tf \in IntradayTimeframes

PrepostOn(p, s) == Intraday(p.tf) /\ p.prepost /\ s # "regular"

(***************************************************************************)
(* The series of the rebuild effect.                                       *)
(***************************************************************************)
\* The price series, dimmed outside the regular session.
Main(p, s, b) == {<<"main", p.type, b.tf, PrepostOn(p, s) /\ b.ext>>}

InPanes == {"vol", "rsi", "macd"}

\* Averages, bands and VWAP over the price.
Overlays(p) == {<<i>> : i \in {i \in p.inds \ InPanes : i = "vwap" => Intraday(p.tf)}}

\* Indicators with a pane of their own.
Panes(p) == {<<i>> : i \in p.inds \cap InPanes}

Comparison(p, cmp) == IF p.compare /\ cmp \notin {None, "failed"} THEN {<<"SPY", cmp>>} ELSE {}

\* Levels, trendlines, entry, stop, target and markers of the analysis.
Plan(p) == IF p.overlays /\ p.tf = "1d" /\ ~p.compare THEN {<<"plan">>} ELSE {}

Series(p, s, b, cmp) == Main(p, s, b) \cup Overlays(p) \cup Panes(p) \cup Comparison(p, cmp) \cup Plan(p)

\* What the effect runs again for.
Dependencies == {"bars", "compareBars", "type", "overlays", "compare", "tf", "prepost", "inds"}

\* Mutant: bars are built under whatever timeframe is selected.
Buildable_anyKey(p, b, key) == b # None /\ ~b.empty

Buildable(p, b, key) == b # None /\ ~b.empty /\ key = p.tf

Refits(p) == datasetKey # p.tf

\* Only a new timeframe moves the view.
Rebuild(causes, p, s, b, key, cmp) ==
    IF Buildable(p, b, key) /\ causes \cap Dependencies # {}
    THEN /\ series' = Series(p, s, b, cmp)
         /\ datasetKey' = p.tf
         /\ zoomed' = (zoomed /\ ~Refits(p))
         /\ fitted' = IF Refits(p) THEN b.tf ELSE fitted
    ELSE UNCHANGED canvas

(***************************************************************************)
(* The requests.                                                           *)
(***************************************************************************)
Free(r) == request[r] = None

LoadBars(r, p, s) ==
    /\ Free(r)
    /\ wantKey' = p.tf
    /\ request' = [request EXCEPT ![r] = [tf |-> p.tf, ext |-> PrepostOn(p, s)]]

\* The bars effect: back to loading, and ask.
Reload(r, p, s) == bars' = None /\ error' = FALSE /\ LoadBars(r, p, s)

\* The clean-up of the comparison effect: what was asked before is not taken.
Outdated == {[c EXCEPT !.alive = FALSE] : c \in compares}

\* The comparison effect runs when it is switched, and for another timeframe.
Compare(p) ==
    IF p.compare = prefs.compare /\ p.tf = prefs.tf THEN UNCHANGED comparing
    ELSE IF p.compare
         THEN compares' = Outdated \cup {[tf |-> p.tf, alive |-> TRUE]} /\ UNCHANGED compareBars
         ELSE compares' = Outdated /\ compareBars' = None

Changed(p) == {f \in DOMAIN p : p[f] # prefs[f]}

\* The toolbar: one field at a time, none that its button does not offer.
Clicks ==
    {p \in [tf : Timeframes, type : ChartTypes, inds : SUBSET Indicators,
            compare : BOOLEAN, overlays : BOOLEAN, prepost : BOOLEAN] :
        /\ Cardinality(Changed(p)) = 1
        /\ p.prepost # prefs.prepost => Intraday(p.tf) /\ session # "regular"
        /\ ("vwap" \in p.inds) # ("vwap" \in prefs.inds) => Intraday(p.tf)}

SetPref(p, r) ==
    /\ changes < MaxChanges /\ changes' = changes + 1
    /\ prefs' = p
    /\ IF p.tf = prefs.tf /\ PrepostOn(p, session) = PrepostOn(prefs, session)
       THEN UNCHANGED <<bars, wantKey, error, request>>
       ELSE Reload(r, p, session)
    /\ Compare(p)
    /\ Rebuild(Changed(p), p, session, bars, barsKey, compareBars)
    /\ UNCHANGED <<listing, session, barsKey, failures>>

\* Mutant: an open intraday chart is not loaded again.
Polled_never == FALSE

\* The interval of the bars effect.
Polled == Intraday(prefs.tf)

Poll(r) ==
    /\ Polled
    /\ LoadBars(r, prefs, session)
    /\ UNCHANGED <<prefs, listing, session, bars, barsKey, error, comparing, canvas, changes, failures>>

Retry(r) ==
    /\ error
    /\ LoadBars(r, prefs, session)
    /\ UNCHANGED <<prefs, listing, session, bars, barsKey, error, comparing, canvas, changes, failures>>

Wanted(r) == wantKey = request[r].tf

\* Bars arrive.  When they tell that there are no extended hours, EXT goes off
\* and the bars are asked for once more.
BarsArrive(r, empty) ==
    LET b == [tf |-> request[r].tf, ext |-> request[r].ext /\ listing = "extended", empty |-> empty] IN
    /\ ~Free(r)
    /\ IF ~Wanted(r)
       THEN /\ request' = [request EXCEPT ![r] = None]
            /\ UNCHANGED <<session, bars, barsKey, wantKey, error, canvas>>
       ELSE /\ barsKey' = b.tf
            /\ session' = listing
            /\ Rebuild({"bars"}, prefs, listing, b, b.tf, compareBars)
            /\ error' = FALSE
            /\ IF PrepostOn(prefs, listing) = PrepostOn(prefs, session)
               THEN bars' = b /\ request' = [request EXCEPT ![r] = None] /\ UNCHANGED wantKey
               ELSE /\ bars' = None /\ wantKey' = prefs.tf
                    /\ request' = [request EXCEPT ![r] = [tf |-> prefs.tf, ext |-> FALSE]]
    /\ UNCHANGED <<prefs, listing, comparing, changes, failures>>

BarsFail(r) ==
    /\ ~Free(r)
    /\ failures < MaxFailures /\ failures' = failures + 1
    /\ request' = [request EXCEPT ![r] = None]
    /\ error' = (error \/ Wanted(r))
    /\ UNCHANGED <<prefs, listing, session, bars, barsKey, wantKey, comparing, canvas, changes>>

CompareAnswers(c, found) ==
    /\ c \in compares
    /\ compares' = compares \ {c}
    /\ IF c.alive
       THEN /\ compareBars' = IF found THEN c.tf ELSE "failed"
            /\ Rebuild({"compareBars"}, prefs, session, bars, barsKey, compareBars')
       ELSE UNCHANGED <<compareBars, canvas>>
    /\ UNCHANGED <<prefs, loading, changes, failures>>

\* The user zooms or pans.
Zoom ==
    /\ series # {} /\ ~zoomed
    /\ zoomed' = TRUE
    /\ UNCHANGED <<prefs, loading, comparing, series, datasetKey, fitted, changes, failures>>

Init ==
    /\ prefs = [tf |-> "1d", type |-> "candles", inds |-> {}, compare |-> FALSE, overlays |-> TRUE, prepost |-> TRUE]
    /\ listing \in {"extended", "regular"} /\ session = "unknown"
    /\ bars = None /\ barsKey = None /\ wantKey = "1d" /\ error = FALSE
    /\ request = [r \in Requests |-> IF r = CHOOSE q \in Requests : TRUE THEN [tf |-> "1d", ext |-> FALSE] ELSE None]
    /\ compareBars = None /\ compares = {}
    /\ series = {} /\ datasetKey = None /\ zoomed = FALSE /\ fitted = None
    /\ changes = 0 /\ failures = 0

Answered(r) == BarsArrive(r, FALSE) \/ BarsArrive(r, TRUE) \/ BarsFail(r)

Next ==
    \/ \E r \in Requests : Poll(r) \/ Retry(r) \/ Answered(r) \/ \E p \in Clicks : SetPref(p, r)
    \/ \E c \in compares, found \in BOOLEAN : CompareAnswers(c, found)
    \/ Zoom

\* The interval of an open chart runs on, and every request ends.
Spec ==
    /\ Init /\ [][Next]_data
    /\ SF_data(\E r \in Requests : Poll(r))
    /\ \A r \in Requests : WF_data(Answered(r))

(***************************************************************************)
(* Properties.                                                             *)
(***************************************************************************)
\* ChartPro.jsx: bars are never built under another timeframe's key, and the
\* view of a timeframe was fitted to its own bars.
BuiltUnderTheirOwnKey ==
    /\ fitted = datasetKey
    /\ bars # None => bars.tf = prefs.tf
    /\ \A s \in series : s[1] = "main" => s[3] = datasetKey

\* Whatever order the answers and the clicks came in, the canvas shows what the
\* toolbar says of the bars and the comparison in hand.
CanvasFollowsToolbar ==
    bars # None /\ ~bars.empty => series = Series(prefs, session, bars, compareBars)

\* An intraday chart left alone comes to show the bars EXT asks for, though an
\* answer for the other setting may arrive last.
BarsComeToMatchExt ==
    <>[](Intraday(prefs.tf) /\ bars # None => bars.ext = (PrepostOn(prefs, session) /\ listing = "extended"))
=============================================================================
