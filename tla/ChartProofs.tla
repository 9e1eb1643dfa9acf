---------------------------- MODULE ChartProofs ----------------------------
(***************************************************************************)
(* Proofs about the chart: the canvas belongs to the bars and the toolbar, *)
(* the history of the drawings is a walk along the edits and a locked      *)
(* shape is not changed by hand, and what one browser draws is not lost.   *)
(***************************************************************************)
EXTENDS MCChart, Sequences, TLAPS

(***************************************************************************)
(* The bars.  The bars in hand were asked for under the timeframe that is  *)
(* selected, so that whatever rebuilds the series builds it of them.       *)
(***************************************************************************)
BarsInv ==
    /\ prefs.inds \subseteq Indicators
    /\ wantKey = prefs.tf
    /\ bars # None => barsKey = prefs.tf
    /\ Bars!BuiltUnderTheirOwnKey /\ Bars!CanvasFollowsToolbar

\* The price series of a canvas is of its bars.
LEMMA MainOfASeries ==
    ASSUME NEW p, NEW s, NEW b, NEW cmp, p.inds \subseteq Indicators
    PROVE  \A x \in Bars!Series(p, s, b, cmp) : x[1] = "main" => x[3] = b.tf
<1>1. \A x \in Bars!Main(p, s, b) : x[3] = b.tf
  BY DEF Bars!Main
<1>2. \A x \in Bars!Overlays(p) \cup Bars!Panes(p) : x[1] \in Indicators
  BY DEF Bars!Overlays, Bars!Panes
<1>3. \A x \in Bars!Comparison(p, cmp) \cup Bars!Plan(p) : x[1] \in {"SPY", "plan"}
  BY DEF Bars!Comparison, Bars!Plan
<1> QED BY <1>1, <1>2, <1>3, ChartAssumption DEF Bars!Series

\* Whatever rebuilds the series, or leaves it, keeps the view and the canvas of one timeframe.
LEMMA RebuildKeepsKeys ==
    ASSUME Bars!BuiltUnderTheirOwnKey, NEW causes, NEW p, NEW s, NEW b, NEW key, NEW cmp,
           p.inds \subseteq Indicators, key = p.tf /\ b # None => b.tf = p.tf,
           Bars!Rebuild(causes, p, s, b, key, cmp)
    PROVE  fitted' = datasetKey' /\ \A x \in series' : x[1] = "main" => x[3] = datasetKey'
<1>1. CASE Bars!Buildable(p, b, key) /\ causes \cap Bars!Dependencies # {}
  <2>1. /\ series' = Bars!Series(p, s, b, cmp) /\ datasetKey' = p.tf /\ b.tf = p.tf
        /\ fitted' = IF Bars!Refits(p) THEN b.tf ELSE fitted
    BY <1>1 DEF Bars!Rebuild, Bars!Buildable
  <2>2. fitted' = datasetKey'
    BY <2>1 DEF Bars!Refits, Bars!BuiltUnderTheirOwnKey
  <2> QED BY <2>1, <2>2, MainOfASeries
<1>2. CASE ~(Bars!Buildable(p, b, key) /\ causes \cap Bars!Dependencies # {})
  BY <1>2 DEF Bars!Rebuild, Bars!canvas, Bars!BuiltUnderTheirOwnKey
<1> QED BY <1>1, <1>2

\* A click on the toolbar; under another timeframe, or for the other hours, the bars go.
LEMMA ClickKeepsBars ==
    ASSUME BarsInv, NEW r \in Requests, NEW p \in Bars!Clicks, Bars!SetPref(p, r)
    PROVE  BarsInv'
<1>1. /\ prefs' = p /\ p.inds \subseteq Indicators /\ UNCHANGED <<session, barsKey>>
      /\ Bars!Rebuild(Bars!Changed(p), p, session, bars, barsKey, compareBars)
      /\ Bars!Compare(p)
      /\ DOMAIN p = {"tf", "type", "inds", "compare", "overlays", "prepost"}
  BY DEF Bars!SetPref, Bars!Clicks
<1>2. fitted' = datasetKey' /\ \A x \in series' : x[1] = "main" => x[3] = datasetKey'
  BY <1>1, RebuildKeepsKeys DEF BarsInv, Bars!BuiltUnderTheirOwnKey
<1>3. \/ bars' = None /\ wantKey' = p.tf
      \/ UNCHANGED <<bars, wantKey>> /\ p.tf = prefs.tf
  BY DEF Bars!SetPref, Bars!Reload, Bars!LoadBars
<1>4. CASE bars' = None
  BY <1>1, <1>2, <1>3, <1>4 DEF BarsInv, Bars!BuiltUnderTheirOwnKey, Bars!CanvasFollowsToolbar
<1>5. CASE bars' = bars /\ bars # None /\ p.tf = prefs.tf /\ wantKey' = wantKey
  <2>1. compareBars' = compareBars \/ ~p.compare
    BY <1>1, <1>5 DEF Bars!Compare, Bars!comparing
  <2>2. \A x, y : ~p.compare => Bars!Series(p, session, bars, x) = Bars!Series(p, session, bars, y)
    BY DEF Bars!Series, Bars!Comparison
  <2>3. ~bars.empty => series' = Bars!Series(p, session, bars, compareBars)
    <3>1. CASE Bars!Changed(p) \cap Bars!Dependencies # {}
      BY <1>1, <1>5, <3>1 DEF Bars!Rebuild, Bars!Buildable, BarsInv
    <3>2. CASE Bars!Changed(p) \cap Bars!Dependencies = {}
      <4>1. \A f \in DOMAIN p : p[f] = prefs[f]
        BY <1>1, <3>2 DEF Bars!Changed, Bars!Dependencies
      <4>2. /\ p.type = prefs.type /\ p.inds = prefs.inds /\ p.compare = prefs.compare
            /\ p.overlays = prefs.overlays /\ p.prepost = prefs.prepost
        BY <1>1, <4>1
      <4>3. Bars!Series(p, session, bars, compareBars) = Bars!Series(prefs, session, bars, compareBars)
        BY <1>5, <4>2 DEF Bars!Series, Bars!Main, Bars!PrepostOn, Bars!Overlays, Bars!Panes,
                          Bars!Comparison, Bars!Plan
      <4>4. series' = series
        BY <1>1, <3>2 DEF Bars!Rebuild, Bars!canvas
      <4> QED BY <1>5, <4>3, <4>4 DEF BarsInv, Bars!CanvasFollowsToolbar
    <3> QED BY <3>1, <3>2
  <2>4. Bars!CanvasFollowsToolbar'
    BY <1>1, <1>5, <2>1, <2>2, <2>3 DEF Bars!CanvasFollowsToolbar
  <2> QED BY <1>1, <1>2, <1>5, <2>4 DEF BarsInv, Bars!BuiltUnderTheirOwnKey
<1> QED BY <1>3, <1>4, <1>5

\* Bars that were asked for last arrive.
LEMMA ArrivalKeepsBars ==
    ASSUME BarsInv, NEW r \in Requests, NEW empty, Bars!BarsArrive(r, empty)
    PROVE  BarsInv'
<1> DEFINE b == [tf |-> request[r].tf, ext |-> request[r].ext /\ listing = "extended", empty |-> empty]
<1>1. UNCHANGED <<prefs, compareBars>>
  BY DEF Bars!BarsArrive, Bars!comparing
<1>2. CASE ~Bars!Wanted(r)
  <2>1. UNCHANGED <<session, bars, barsKey, wantKey, series, datasetKey, fitted>>
    BY <1>2 DEF Bars!BarsArrive, Bars!canvas
  <2> QED BY <1>1, <2>1 DEF BarsInv, Bars!BuiltUnderTheirOwnKey, Bars!CanvasFollowsToolbar
<1>3. CASE Bars!Wanted(r)
  <2>1. b.tf = prefs.tf
    BY <1>3 DEF Bars!Wanted, BarsInv
  <2>2. /\ barsKey' = b.tf /\ session' = listing
        /\ Bars!Rebuild({"bars"}, prefs, listing, b, b.tf, compareBars)
        /\ bars' \in {b, None} /\ wantKey' \in {wantKey, prefs.tf}
    BY <1>3 DEF Bars!BarsArrive
  <2> HIDE DEF b
  <2>3. fitted' = datasetKey' /\ \A x \in series' : x[1] = "main" => x[3] = datasetKey'
    BY <2>1, <2>2, RebuildKeepsKeys DEF BarsInv
  <2>4. b # None /\ ~b.empty => series' = Bars!Series(prefs, listing, b, compareBars)
    BY <2>1, <2>2 DEF Bars!Rebuild, Bars!Buildable, Bars!Dependencies
  <2>5. Bars!CanvasFollowsToolbar'
    BY <1>1, <2>2, <2>4 DEF Bars!CanvasFollowsToolbar
  <2> QED BY <1>1, <2>1, <2>2, <2>3, <2>5 DEF BarsInv, Bars!BuiltUnderTheirOwnKey
<1> QED BY <1>2, <1>3

\* Every step of the chart: requests, answers, clicks and the wheel.
LEMMA BarsStepKeepsInv ==
    ASSUME BarsInv, Bars!Next
    PROVE  BarsInv'
<1>1. ASSUME NEW r \in Requests, Bars!Poll(r) \/ Bars!Retry(r)
      PROVE  BarsInv'
  <2>1. wantKey' = prefs.tf /\ UNCHANGED <<prefs, session, bars, barsKey, compareBars, series, datasetKey, fitted>>
    BY <1>1 DEF Bars!Poll, Bars!Retry, Bars!LoadBars, Bars!comparing, Bars!canvas
  <2> QED BY <2>1 DEF BarsInv, Bars!BuiltUnderTheirOwnKey, Bars!CanvasFollowsToolbar
<1>2. ASSUME NEW r \in Requests, Bars!BarsFail(r)
      PROVE  BarsInv'
  <2>1. UNCHANGED <<prefs, session, bars, barsKey, wantKey, compareBars, series, datasetKey, fitted>>
    BY <1>2 DEF Bars!BarsFail, Bars!comparing, Bars!canvas
  <2> QED BY <2>1 DEF BarsInv, Bars!BuiltUnderTheirOwnKey, Bars!CanvasFollowsToolbar
<1>3. ASSUME NEW c \in compares, NEW found \in BOOLEAN, Bars!CompareAnswers(c, found)
      PROVE  BarsInv'
  <2>1. UNCHANGED <<prefs, session, bars, barsKey, wantKey>>
    BY <1>3 DEF Bars!CompareAnswers, Bars!loading
  <2>2. CASE c.alive
    <3>1. Bars!Rebuild({"compareBars"}, prefs, session, bars, barsKey, compareBars')
      BY <1>3, <2>2 DEF Bars!CompareAnswers
    <3>2. fitted' = datasetKey' /\ \A x \in series' : x[1] = "main" => x[3] = datasetKey'
      BY <3>1, RebuildKeepsKeys DEF BarsInv, Bars!BuiltUnderTheirOwnKey
    <3>3. bars # None /\ ~bars.empty => series' = Bars!Series(prefs, session, bars, compareBars')
      BY <3>1 DEF Bars!Rebuild, Bars!Buildable, Bars!Dependencies, BarsInv
    <3>4. Bars!CanvasFollowsToolbar'
      BY <2>1, <3>3 DEF Bars!CanvasFollowsToolbar
    <3> QED BY <2>1, <3>2, <3>4 DEF BarsInv, Bars!BuiltUnderTheirOwnKey
  <2>3. CASE ~c.alive
    <3>1. UNCHANGED <<compareBars, series, datasetKey, fitted>>
      BY <1>3, <2>3 DEF Bars!CompareAnswers, Bars!canvas
    <3> QED BY <2>1, <3>1 DEF BarsInv, Bars!BuiltUnderTheirOwnKey, Bars!CanvasFollowsToolbar
  <2> QED BY <2>2, <2>3
<1>4. CASE Bars!Zoom
  <2>1. UNCHANGED <<prefs, session, bars, barsKey, wantKey, compareBars, series, datasetKey, fitted>>
    BY <1>4 DEF Bars!Zoom, Bars!loading, Bars!comparing
  <2> QED BY <2>1 DEF BarsInv, Bars!BuiltUnderTheirOwnKey, Bars!CanvasFollowsToolbar
<1> QED BY <1>1, <1>2, <1>3, <1>4, ClickKeepsBars, ArrivalKeepsBars DEF Bars!Next, Bars!Answered

\* The canvas and the view belong to the bars of the selected timeframe and show what the toolbar says
\* of the bars in hand, for any timeframes and indicators, whatever order the answers of any number of
\* requests came in.
THEOREM CanvasStaysTrue == Spec => []CanvasIsTrue
<1>1. Init => BarsInv
  BY DEF Init, Bars!Init, BarsInv, Bars!BuiltUnderTheirOwnKey, Bars!CanvasFollowsToolbar
<1>2. BarsInv /\ UNCHANGED barsVars => BarsInv'
  BY DEF barsVars, BarsInv, Bars!BuiltUnderTheirOwnKey, Bars!CanvasFollowsToolbar
<1>3. [Next]_vars => Bars!Next \/ UNCHANGED barsVars
  BY DEF Next, BarsRun, BoardRuns, SyncRuns, vars
<1>4. BarsInv /\ [Next]_vars => BarsInv'
  BY <1>2, <1>3, BarsStepKeepsInv
<1>5. BarsInv => CanvasIsTrue
  BY DEF BarsInv, CanvasIsTrue
<1> QED BY <1>1, <1>4, <1>5, PTL DEF Spec

(***************************************************************************)
(* The drawings.  Outside the states an edit within a drag, or before the  *)
(* load, leads to: the history is a walk along the edits through what is   *)
(* shown, or was before the drag; and what is dragged or edited is not     *)
(* locked.                                                                 *)
(***************************************************************************)
\* Shapes numbered below next, each differently.
Sound(drawing, next) ==
    /\ drawing \subseteq Shapes
    /\ \A s \in drawing : s.id < next
    /\ \A s, t \in drawing : s.id = t.id => s = t

WalksAlong(p, now, f, pairs) ==
    /\ \A i \in 1..(Len(p) - 1) : <<p[i], p[i + 1]>> \in pairs
    /\ p # <<>> => <<p[Len(p)], now>> \in pairs
    /\ f # <<>> => <<now, f[Len(f)]>> \in pairs
    /\ \A i \in 1..(Len(f) - 1) : <<f[i + 1], f[i]>> \in pairs

BeforeGesture == IF drag # None /\ drag.moved THEN drag.start ELSE shapes

HistoryInv ==
    /\ past \in Seq(SUBSET Shapes) /\ future \in Seq(SUBSET Shapes)
    /\ Len(past) + Len(future) <= HistoryLimit

AllSound(next) ==
    /\ Sound(shapes, next)
    /\ \A i \in 1..Len(past) : Sound(past[i], next)
    /\ \A i \in 1..Len(future) : Sound(future[i], next)

Untouchable(drawing, id, all) == \E s \in drawing : s.id = id /\ (s.locked \/ all)

DragInv ==
    drag # None =>
        /\ drag \in [id : Nat, moved : BOOLEAN, start : SUBSET Shapes] /\ Sound(drag.start, nextId) /\ loaded
        /\ ~drag.moved => drag.start = shapes
        /\ ~Untouchable(shapes, drag.id, lockAll)

EditingInv ==
    editing # None =>
        /\ editing \in [shape : Shapes, new : BOOLEAN] /\ editing.shape.id < nextId
        /\ editing.new => FirstId <= editing.shape.id /\ editing.shape.id \notin Board!Ids(shapes)
        /\ ~editing.new => loaded /\ ~Untouchable(shapes, editing.shape.id, lockAll)

DrawingInv ==
    /\ nextId \in Nat /\ FirstId <= nextId /\ AllSound(nextId) /\ DragInv /\ EditingInv
    /\ ~loaded => shapes = {} /\ past = <<>> /\ future = <<>> /\ drag = None /\ saved = Stored
    /\ loaded /\ (drag = None \/ ~drag.moved) => saved = shapes
    /\ WalksAlong(past, BeforeGesture, future, edits)

BoardInv == HistoryInv /\ (~interrupted => DrawingInv)

\* Shapes numbered below a number are numbered below a later one.
LEMMA SoundForLater ==
    ASSUME NEW drawing, NEW n \in Nat, NEW m \in Nat, n <= m, Sound(drawing, n)
    PROVE  Sound(drawing, m)
  BY DEF Sound, Shapes

\* A shape that is numbered next joins.
LEMMA SoundWithOneMore ==
    ASSUME NEW drawing, NEW n \in Nat, Sound(drawing, n), NEW s \in Shapes,
           s.id \notin Board!Ids(drawing), NEW m \in Nat, n <= m, s.id < m
    PROVE  Sound(drawing \cup {s}, m)
  BY DEF Sound, Board!Ids, Shapes

\* Moving, restyling or locking a shape leaves its number.
LEMMA SoundWithOneChanged ==
    ASSUME NEW drawing, NEW n \in Nat, Sound(drawing, n), NEW s \in drawing, NEW t \in Shapes, t.id = s.id
    PROVE  Sound((drawing \ {s}) \cup {t}, n)
  BY DEF Sound, Shapes

\* A shape that is moved keeps its number and its lock.
LEMMA MovedIsSound ==
    ASSUME NEW drawing, NEW n \in Nat, Sound(drawing, n), NEW id
    PROVE  /\ Sound(Board!Move(drawing, id), n)
           /\ \A s \in Board!Move(drawing, id) : \E t \in drawing : t.id = s.id /\ t.locked = s.locked
           /\ \A s \in drawing : s.id # id => s \in Board!Move(drawing, id)
<1> DEFINE moved(s) == IF s.id = id THEN [s EXCEPT !.v = 1 - s.v] ELSE s
<1>1. Board!Move(drawing, id) = {moved(s) : s \in drawing}
  BY DEF Board!Move
<1>2. ASSUME NEW s \in drawing
      PROVE  moved(s) \in Shapes /\ moved(s).id = s.id /\ moved(s).locked = s.locked
  BY DEF Sound, Shapes
<1>3. \A s \in drawing : s.id # id => moved(s) = s
  OBVIOUS
<1> HIDE DEF moved
<1>4. Board!Move(drawing, id) \subseteq Shapes
  BY <1>1, <1>2
<1>5. \A s \in Board!Move(drawing, id) : \E t \in drawing : s = moved(t)
  BY <1>1
<1>6. Sound(Board!Move(drawing, id), n)
  BY <1>2, <1>4, <1>5 DEF Sound
<1> QED BY <1>1, <1>2, <1>3, <1>5, <1>6

\* What commit does to the history: at most HistoryLimit states, all of them along the edits.
LEMMA TrailIsAWalk ==
    ASSUME HistoryInv, NEW prev \in SUBSET Shapes, NEW next, Board!Trail(prev),
           WalksAlong(past, prev, future, edits), edits' = edits \cup {<<prev, next>>}
    PROVE  /\ HistoryInv' /\ WalksAlong(past', next, future', edits')
           /\ future' = <<>>
           /\ \A i \in 1..Len(past') : past'[i] = prev \/ \E j \in 1..Len(past) : past'[i] = past[j]
<1> DEFINE all == Append(past, prev)
<1>1. /\ Len(past) \in Nat /\ Len(future) \in Nat /\ HistoryLimit \in Nat \ {0}
      /\ all \in Seq(SUBSET Shapes) /\ Len(all) = Len(past) + 1 /\ all[Len(past) + 1] = prev
      /\ \A i \in 1..Len(past) : all[i] = past[i]
  BY ChartAssumption DEF HistoryInv
<1>2. past' = SubSeq(all, IF Len(all) > HistoryLimit THEN 2 ELSE 1, Len(all)) /\ future' = <<>>
  BY DEF Board!Trail
<1> HIDE DEF all
<1>3. \A i \in 1..(Len(all) - 1) : <<all[i], all[i + 1]>> \in edits
  <2> SUFFICES ASSUME NEW i \in 1..Len(past) PROVE <<all[i], all[i + 1]>> \in edits
    BY <1>1
  <2>1. CASE i = Len(past)
    <3>1. past # <<>> /\ all[i] = past[Len(past)] /\ all[i + 1] = prev
      BY <1>1, <2>1
    <3> QED BY <3>1 DEF WalksAlong
  <2>2. CASE i < Len(past)
    <3>1. i \in 1..(Len(past) - 1) /\ i + 1 \in 1..Len(past)
      BY <1>1, <2>2
    <3> QED BY <1>1, <3>1 DEF WalksAlong
  <2> QED BY <1>1, <2>1, <2>2
<1>4. PICK k \in {0, 1} : /\ Len(past') = Len(all) - k /\ past' \in Seq(SUBSET Shapes)
                          /\ \A i \in 1..Len(past') : past'[i] = all[i + k]
                          /\ Len(past') >= 1 /\ Len(past') <= HistoryLimit
  <2>1. CASE Len(all) > HistoryLimit
    <3>1. past' = SubSeq(all, 2, Len(all)) /\ Len(all) = HistoryLimit + 1
      BY <1>1, <1>2, <2>1 DEF HistoryInv
    <3>2. /\ Len(past') = Len(all) - 1 /\ past' \in Seq(SUBSET Shapes)
          /\ \A i \in 1..Len(past') : past'[i] = all[i + 1]
      BY <1>1, <3>1
    <3> QED BY <1>1, <3>1, <3>2
  <2>2. CASE ~(Len(all) > HistoryLimit)
    <3>1. past' = SubSeq(all, 1, Len(all))
      BY <1>2, <2>2
    <3>2. past' = all
      BY <1>1, <3>1
    <3> QED BY <1>1, <2>2, <3>2
  <2> QED BY <2>1, <2>2
<1>5. HistoryInv'
  BY <1>1, <1>2, <1>4 DEF HistoryInv
<1>6. past'[Len(past')] = prev
  BY <1>1, <1>4
<1>7. ASSUME NEW i \in 1..(Len(past') - 1) PROVE <<past'[i], past'[i + 1]>> \in edits
  <2>1. /\ i \in 1..Len(past') /\ i + 1 \in 1..Len(past') /\ i + k \in 1..(Len(all) - 1)
        /\ i + 1 + k = i + k + 1
    BY <1>1, <1>4
  <2> QED BY <1>3, <1>4, <2>1
<1>8. WalksAlong(past', next, future', edits')
  <2>1. \A i \in 1..(Len(future') - 1) : FALSE
    BY <1>2
  <2>2. \A i \in 1..(Len(past') - 1) : <<past'[i], past'[i + 1]>> \in edits'
    BY <1>7
  <2>3. <<past'[Len(past')], next>> \in edits'
    BY <1>6
  <2> QED BY <1>2, <2>1, <2>2, <2>3 DEF WalksAlong
<1>9. ASSUME NEW i \in 1..Len(past') PROVE past'[i] = prev \/ \E j \in 1..Len(past) : past'[i] = past[j]
  <2>1. i + k \in 1..Len(past) \/ i + k = Len(past) + 1
    BY <1>1, <1>4
  <2> QED BY <1>1, <1>4, <2>1
<1> QED BY <1>2, <1>5, <1>8, <1>9

\* An edit between gestures.
LEMMA CommitKeepsInv ==
    ASSUME BoardInv, ~interrupted, NEW next, Board!Commit(next), nextId' \in Nat, nextId <= nextId',
           Sound(next, nextId'), UNCHANGED drag,
           editing' = None \/ (editing' = editing /\ \E x : next = shapes \cup {x} /\ x.id = nextId)
    PROVE  BoardInv'
<1>1. /\ HistoryInv /\ DrawingInv /\ Board!Trail(shapes) /\ edits' = edits \cup {<<shapes, next>>}
      /\ shapes' = next /\ saved' = next /\ UNCHANGED <<loaded, lockAll>>
      /\ interrupted' = (interrupted \/ drag # None \/ ~loaded)
  BY DEF BoardInv, Board!Commit, Board!CommitFrom, Board!Persist, Board!Interrupts
<1>2. shapes \in SUBSET Shapes
  BY <1>1 DEF DrawingInv, AllSound, Sound
<1>3. BeforeGesture \in SUBSET Shapes /\ (drag = None => BeforeGesture = shapes)
  BY <1>1, <1>2 DEF BeforeGesture, DrawingInv, DragInv, Sound
<1>4. CASE interrupted'
  <2>1. HistoryInv'
    <3> DEFINE all == Append(past, shapes)
    <3>1. /\ all \in Seq(SUBSET Shapes) /\ Len(all) = Len(past) + 1 /\ Len(past) \in Nat
          /\ Len(future) \in Nat /\ HistoryLimit \in Nat \ {0}
      BY <1>1, <1>2, ChartAssumption DEF HistoryInv
    <3>2. future' = <<>> /\ past' = SubSeq(all, IF Len(all) > HistoryLimit THEN 2 ELSE 1, Len(all))
      BY <1>1 DEF Board!Trail
    <3> HIDE DEF all
    <3>3. past' \in Seq(SUBSET Shapes) /\ Len(past') <= HistoryLimit
      <4>1. CASE Len(all) > HistoryLimit
        BY <1>1, <3>1, <3>2, <4>1 DEF HistoryInv
      <4>2. CASE ~(Len(all) > HistoryLimit)
        BY <3>1, <3>2, <4>2
      <4> QED BY <4>1, <4>2
    <3> QED BY <3>2, <3>3 DEF HistoryInv
  <2> QED BY <1>4, <2>1 DEF BoardInv
<1>5. CASE ~interrupted'
  <2>1. drag = None /\ loaded
    BY <1>1, <1>5
  <2>2. /\ HistoryInv' /\ WalksAlong(past', next, future', edits') /\ future' = <<>>
        /\ \A i \in 1..Len(past') : past'[i] = shapes \/ \E j \in 1..Len(past) : past'[i] = past[j]
    BY <1>1, <1>2, <1>3, <2>1, TrailIsAWalk DEF DrawingInv
  <2>3. AllSound(nextId)'
    BY <1>1, <2>2, SoundForLater DEF AllSound, DrawingInv
  <2>4. EditingInv'
    <3>1. CASE editing' = None
      BY <3>1 DEF EditingInv
    <3>2. CASE editing' = editing /\ editing # None /\ \E x : next = shapes \cup {x} /\ x.id = nextId
      <4>1. PICK x : next = shapes \cup {x} /\ x.id = nextId
        BY <3>2
      <4>2. /\ editing \in [shape : Shapes, new : BOOLEAN] /\ editing.shape.id < nextId
            /\ editing.shape.id \in Nat /\ nextId \in Nat
        BY <1>1, <3>2 DEF DrawingInv, EditingInv, Shapes
      <4>3. editing.new => editing.shape.id \notin Board!Ids(next)
        BY <1>1, <3>2, <4>1, <4>2 DEF DrawingInv, EditingInv, Board!Ids
      <4>4. ~editing.new => loaded /\ ~Untouchable(next, editing.shape.id, lockAll)
        BY <1>1, <3>2, <4>1, <4>2 DEF DrawingInv, EditingInv, Untouchable
      <4>5. editing.shape.id < nextId' /\ (editing.new => FirstId <= editing.shape.id)
        BY <1>1, <3>2, <4>2 DEF DrawingInv, EditingInv
      <4> QED BY <1>1, <3>2, <4>2, <4>3, <4>4, <4>5 DEF EditingInv, Board!Ids
    <3> QED BY <3>1, <3>2 DEF EditingInv
  <2>5. FirstId <= nextId'
    BY <1>1, ChartAssumption DEF DrawingInv
  <2> QED BY <1>1, <2>1, <2>2, <2>3, <2>4, <2>5 DEF BoardInv, DrawingInv, DragInv, BeforeGesture
<1> QED BY <1>4, <1>5

\* What the locks are for: an unlocked shape is dragged, restyled, rewritten or deleted.
Kept(before, after) ==
    \A s \in before : Board!Locked(s) => \E t \in after : t.id = s.id /\ t.v = s.v

\* What is not under the lock may be moved: the locked shapes stay.
LEMMA MoveKeepsLocked ==
    ASSUME NEW drawing, NEW n \in Nat, Sound(drawing, n), NEW id, ~Untouchable(drawing, id, lockAll)
    PROVE  Kept(drawing, Board!Move(drawing, id))
  BY MovedIsSound DEF Kept, Untouchable, Board!Locked

\* A shape is drawn, written or added.
Draws ==
    \/ Board!FinishLine \/ Board!BrushUp(TRUE) \/ Board!CommitText \/ Board!ReplaceShapes
    \/ Board!MergeShapes \/ Board!Clear
    \/ \E s \in shapes : Board!Delete(s) \/ Board!Restyle(s) \/ Board!ToggleLock(s)

\* What is drawn, deleted, restyled or merged between gestures is an edit, and spares the locked.
LEMMA DrawsKeepInv ==
    ASSUME BoardInv, ~interrupted, Draws
    PROVE  BoardInv' /\ Board!LocksHold
<1>1. /\ DrawingInv /\ nextId \in Nat /\ FirstId \in Nat /\ FirstId <= nextId /\ Sound(shapes, nextId)
      /\ nextId + 1 \in Nat /\ nextId <= nextId + 1 /\ nextId + FirstId \in Nat
      /\ nextId <= nextId + FirstId
  BY ChartAssumption DEF BoardInv, DrawingInv, AllSound
<1>2. ASSUME Board!Commit(shapes \cup {Board!Shape(nextId, "line")}), nextId' = nextId + 1,
             UNCHANGED <<drag, editing>>
      PROVE  BoardInv' /\ Board!LocksHold
  <2> DEFINE line == Board!Shape(nextId, "line")
  <2>1. line \in Shapes /\ line.id = nextId /\ line.id \notin Board!Ids(shapes)
    BY <1>1 DEF Board!Shape, Shapes, Board!Ids, Sound
  <2>2. Board!Commit(shapes \cup {line})
    BY <1>2
  <2> HIDE DEF line
  <2>3. Sound(shapes \cup {line}, nextId')
    <3>1. line.id < nextId' /\ nextId' \in Nat /\ nextId <= nextId'
      BY <1>1, <1>2, <2>1
    <3> QED BY <1>1, <2>1, <3>1, SoundWithOneMore
  <2>4. BoardInv'
    BY <1>1, <1>2, <2>1, <2>2, <2>3, CommitKeepsInv
  <2>5. shapes' = shapes \cup {line}
    BY <2>2 DEF Board!Commit, Board!CommitFrom, Board!Persist
  <2> QED BY <2>4, <2>5 DEF Board!LocksHold
<1>3. ASSUME NEW next, Sound(next, nextId), Board!Commit(next), UNCHANGED <<drag, nextId>>, editing' = None
      PROVE  BoardInv' /\ shapes' = next
  BY <1>1, <1>3, CommitKeepsInv DEF Board!Commit, Board!CommitFrom, Board!Persist
<1>4. CASE Board!FinishLine
  BY <1>2, <1>4 DEF Board!FinishLine
<1>5. CASE Board!BrushUp(TRUE)
  BY <1>2, <1>5 DEF Board!BrushUp
<1>6. CASE Board!CommitText
  <2>1. /\ editing # None /\ editing' = None /\ UNCHANGED <<drag, nextId>>
        /\ editing \in [shape : Shapes, new : BOOLEAN] /\ editing.shape.id < nextId
    BY <1>1, <1>6 DEF Board!CommitText, Board!Typing, DrawingInv, EditingInv
  <2>2. CASE editing.new
    <3>1. editing.shape.id \notin Board!Ids(shapes) /\ editing.shape \in Shapes
      BY <1>1, <2>1, <2>2 DEF DrawingInv, EditingInv
    <3>2. Sound(shapes \cup {editing.shape}, nextId) /\ Board!Commit(shapes \cup {editing.shape})
      BY <1>1, <1>6, <2>1, <2>2, <3>1, SoundWithOneMore DEF Board!CommitText
    <3>3. BoardInv' /\ shapes' = shapes \cup {editing.shape}
      BY <1>3, <2>1, <3>2
    <3> QED BY <3>3 DEF Board!LocksHold
  <2>3. CASE ~editing.new
    <3>1. ~Untouchable(shapes, editing.shape.id, lockAll)
      BY <1>1, <2>1, <2>3 DEF DrawingInv, EditingInv
    <3>2. Board!Commit(Board!Move(shapes, editing.shape.id))
      BY <1>6, <2>3 DEF Board!CommitText
    <3>3. Sound(Board!Move(shapes, editing.shape.id), nextId)
      BY <1>1, MovedIsSound
    <3>4. BoardInv' /\ shapes' = Board!Move(shapes, editing.shape.id)
      BY <1>3, <2>1, <3>2, <3>3
    <3> QED BY <1>1, <3>1, <3>4, MoveKeepsLocked DEF Board!LocksHold, Kept
  <2> QED BY <2>2, <2>3
<1>7. CASE Board!ReplaceShapes
  <2>1. Sound(Draft, FirstId)
    BY ChartAssumption DEF Sound, Shapes
  <2>2. Sound(Draft, nextId)
    BY <1>1, <2>1, SoundForLater
  <2> QED BY <1>3, <1>7, <2>2 DEF Board!ReplaceShapes, Board!gesture, Board!Typing, Board!LocksHold,
                                  Board!Wholesale
<1>8. CASE Board!Clear
  <2>1. Sound({}, nextId)
    BY DEF Sound
  <2> QED BY <1>3, <1>8, <2>1 DEF Board!Clear, Board!gesture, Board!Typing, Board!LocksHold,
                                  Board!Wholesale
<1>9. CASE Board!MergeShapes
  <2> DEFINE added == {Board!Renumbered(s) : s \in Draft}
  <2>1. /\ Board!Commit(shapes \cup added) /\ nextId' = nextId + FirstId /\ UNCHANGED drag
        /\ editing = None /\ editing' = editing
    BY <1>9 DEF Board!MergeShapes, Board!gesture, Board!Typing
  <2>2. ASSUME NEW s \in Draft
        PROVE  /\ Board!Renumbered(s) \in Shapes /\ s.id \in Nat /\ s.id < FirstId
               /\ \/ Board!Renumbered(s).id = s.id /\ s.id \notin Board!Ids(shapes)
                  \/ Board!Renumbered(s).id = nextId + s.id
    BY <1>1, ChartAssumption DEF Board!Renumbered, Shapes
  <2>3. \A s \in added : /\ s \in Shapes /\ s.id < nextId + FirstId
                         /\ s.id \notin Board!Ids(shapes)
    <3> SUFFICES ASSUME NEW s \in Draft
                 PROVE  /\ Board!Renumbered(s) \in Shapes /\ Board!Renumbered(s).id < nextId + FirstId
                        /\ Board!Renumbered(s).id \notin Board!Ids(shapes)
      OBVIOUS
    <3>1. \A i \in Nat : nextId + i \notin Board!Ids(shapes)
      BY <1>1 DEF Sound, Board!Ids, Shapes
    <3> QED BY <1>1, <2>2, <3>1
  <2>4. \A s, t \in added : s.id = t.id => s = t
    <3> SUFFICES ASSUME NEW s \in Draft, NEW t \in Draft,
                        Board!Renumbered(s).id = Board!Renumbered(t).id
                 PROVE  Board!Renumbered(s) = Board!Renumbered(t)
      OBVIOUS
    <3>1. s.id = t.id
      BY <1>1, <2>2
    <3> QED BY <3>1, ChartAssumption
  <2> HIDE DEF added
  <2>5. Sound(shapes \cup added, nextId')
    <3>1. shapes \cup added \subseteq Shapes
      BY <1>1, <2>3 DEF Sound
    <3>2. \A s \in shapes \cup added : s.id < nextId'
      BY <1>1, <2>1, <2>3 DEF Sound, Shapes
    <3>3. \A s, t \in shapes \cup added : s.id = t.id => s = t
      BY <1>1, <2>3, <2>4 DEF Sound, Board!Ids
    <3> QED BY <3>1, <3>2, <3>3 DEF Sound
  <2>6. BoardInv'
    BY <1>1, <2>1, <2>5, CommitKeepsInv
  <2>7. shapes' = shapes \cup added
    BY <2>1 DEF Board!Commit, Board!CommitFrom, Board!Persist
  <2> QED BY <2>6, <2>7 DEF Board!LocksHold
<1>10. ASSUME NEW s \in shapes, Board!Delete(s)
       PROVE  BoardInv' /\ Board!LocksHold
  <2>1. /\ Board!Commit(shapes \ {s}) /\ UNCHANGED <<drag, nextId>> /\ editing' = None
        /\ ~Board!Locked(s)
    BY <1>10 DEF Board!Delete, Board!gesture, Board!Typing
  <2>2. Sound(shapes \ {s}, nextId)
    BY <1>1 DEF Sound
  <2>3. BoardInv' /\ shapes' = shapes \ {s}
    BY <1>3, <2>1, <2>2
  <2> QED BY <2>1, <2>3 DEF Board!LocksHold
<1>11. ASSUME NEW s \in shapes, Board!Restyle(s)
       PROVE  BoardInv' /\ Board!LocksHold
  <2> DEFINE t == [s EXCEPT !.v = 1 - s.v]
  <2>1. /\ Board!Commit((shapes \ {s}) \cup {t}) /\ UNCHANGED <<drag, nextId>> /\ editing' = None
        /\ ~Board!Locked(s)
    BY <1>11 DEF Board!Restyle, Board!gesture, Board!Typing, Board!Replaced
  <2>2. t \in Shapes /\ t.id = s.id
    BY <1>1 DEF Sound, Shapes
  <2> HIDE DEF t
  <2>3. Sound((shapes \ {s}) \cup {t}, nextId)
    BY <1>1, <2>2, SoundWithOneChanged
  <2>4. BoardInv' /\ shapes' = (shapes \ {s}) \cup {t}
    BY <1>3, <2>1, <2>3
  <2> QED BY <2>1, <2>4 DEF Board!LocksHold
<1>12. ASSUME NEW s \in shapes, Board!ToggleLock(s)
       PROVE  BoardInv' /\ Board!LocksHold
  <2> DEFINE t == [s EXCEPT !.locked = ~s.locked]
  <2>1. /\ Board!Commit((shapes \ {s}) \cup {t}) /\ UNCHANGED <<drag, nextId>> /\ editing' = None
    BY <1>12 DEF Board!ToggleLock, Board!gesture, Board!Typing, Board!Replaced
  <2>2. t \in Shapes /\ t.id = s.id /\ t.v = s.v
    BY <1>1 DEF Sound, Shapes
  <2> HIDE DEF t
  <2>3. Sound((shapes \ {s}) \cup {t}, nextId)
    BY <1>1, <2>2, SoundWithOneChanged
  <2>4. BoardInv' /\ shapes' = (shapes \ {s}) \cup {t}
    BY <1>3, <2>1, <2>3
  <2> QED BY <2>2, <2>4 DEF Board!LocksHold
<1> QED BY <1>4, <1>5, <1>6, <1>7, <1>8, <1>9, <1>10, <1>11, <1>12 DEF Draws

\* A gesture begins, goes on or is given up: nothing is committed.
Gestures ==
    \/ \E t \in Board!Tools : Board!PickTool(t)
    \/ \E s \in shapes : Board!PressShape(s) \/ Board!StartEdit(s)
    \/ Board!PressEmpty \/ Board!PressPoint \/ Board!FinishText \/ Board!BrushUp(FALSE) \/ Board!Escape
    \/ Board!LockAll \/ Board!CancelEdit

\* What only picks, selects, opens or cancels changes no shape.
LEMMA GesturesKeepInv ==
    ASSUME BoardInv, ~interrupted, Gestures
    PROVE  BoardInv' /\ Board!LocksHold
<1>1. HistoryInv /\ DrawingInv /\ nextId \in Nat /\ Sound(shapes, nextId)
  BY DEF BoardInv, DrawingInv, AllSound
<1>2. UNCHANGED <<shapes, saved, loaded, past, future, edits, interrupted>>
  BY DEF Gestures, Board!PickTool, Board!PressShape, Board!StartEdit, Board!PressEmpty, Board!PressPoint,
         Board!FinishText, Board!BrushUp, Board!Escape, Board!LockAll, Board!CancelEdit, Board!gesture
<1>3. HistoryInv'
  BY <1>1, <1>2 DEF HistoryInv
<1>4. Board!LocksHold
  BY <1>2 DEF Board!LocksHold
<1>5. ASSUME nextId' \in Nat, nextId <= nextId', DragInv', EditingInv', BeforeGesture' = BeforeGesture,
             (drag' = None \/ ~drag'.moved) => (drag = None \/ ~drag.moved), ~loaded => drag' = None
      PROVE  BoardInv'
  <2>1. AllSound(nextId)'
    BY <1>1, <1>2, <1>5, SoundForLater DEF AllSound, DrawingInv
  <2>2. FirstId <= nextId'
    BY <1>1, <1>5, ChartAssumption DEF DrawingInv
  <2> QED BY <1>1, <1>2, <1>3, <1>5, <2>1, <2>2 DEF BoardInv, DrawingInv
<1>6. CASE UNCHANGED <<drag, editing, lockAll, nextId>>
  <2>1. DragInv' /\ EditingInv'
    BY <1>1, <1>2, <1>6 DEF DrawingInv, DragInv, EditingInv, Board!Ids
  <2>2. BeforeGesture' = BeforeGesture
    BY <1>2, <1>6 DEF BeforeGesture
  <2>3. ~loaded => drag = None
    BY <1>1 DEF DrawingInv
  <2> QED BY <1>1, <1>4, <1>5, <1>6, <2>1, <2>2, <2>3
<1>7. ASSUME NEW s \in shapes, Board!PressShape(s)
      PROVE  BoardInv'
  <2>1. /\ UNCHANGED <<editing, lockAll, nextId>> /\ drag = None /\ s \in Shapes
        /\ drag' \in {None, [id |-> s.id, moved |-> FALSE, start |-> shapes]}
        /\ drag' # None => ~s.locked /\ ~lockAll
    BY <1>1, <1>7 DEF Board!PressShape, Board!MouseFree, Board!Draggable, Board!Locked, Sound
  <2>2. loaded
    BY <1>1 DEF DrawingInv
  <2>3. DragInv'
    <3> SUFFICES ASSUME drag' # None PROVE DragInv'
      BY DEF DragInv
    <3>1. drag' = [id |-> s.id, moved |-> FALSE, start |-> shapes] /\ ~s.locked /\ ~lockAll
      BY <2>1
    <3>2. drag' \in [id : Nat, moved : BOOLEAN, start : SUBSET Shapes]
      BY <1>1, <2>1, <3>1 DEF Sound, Shapes
    <3>3. ~Untouchable(shapes, s.id, lockAll)
      BY <1>1, <3>1 DEF Untouchable, Sound
    <3> QED BY <1>1, <1>2, <2>1, <2>2, <3>1, <3>2, <3>3 DEF DragInv
  <2>4. EditingInv'
    BY <1>1, <1>2, <2>1 DEF DrawingInv, EditingInv, Board!Ids
  <2>5. BeforeGesture' = BeforeGesture
    BY <1>2, <2>1 DEF BeforeGesture
  <2> QED BY <1>1, <1>5, <2>1, <2>2, <2>3, <2>4, <2>5
<1>8. ASSUME NEW s \in shapes, Board!StartEdit(s)
      PROVE  BoardInv'
  <2>1. /\ UNCHANGED <<drag, lockAll, nextId>> /\ s \in Shapes /\ ~s.locked /\ ~lockAll
        /\ editing' = [shape |-> s, new |-> FALSE] /\ s.id < nextId
    BY <1>1, <1>8 DEF Board!StartEdit, Board!Locked, Sound
  <2>2. loaded
    BY <1>1 DEF DrawingInv
  <2>3. EditingInv'
    BY <1>1, <1>2, <2>1, <2>2 DEF EditingInv, Untouchable, Sound
  <2>4. DragInv' /\ BeforeGesture' = BeforeGesture
    BY <1>1, <1>2, <2>1 DEF DrawingInv, DragInv, BeforeGesture
  <2> QED BY <1>1, <1>5, <2>1, <2>2, <2>3, <2>4
<1>9. CASE Board!FinishText
  <2>1. /\ UNCHANGED <<drag, lockAll>> /\ nextId' = nextId + 1
        /\ editing' = [shape |-> Board!Shape(nextId, "text"), new |-> TRUE]
    BY <1>9 DEF Board!FinishText
  <2>2. /\ Board!Shape(nextId, "text") \in Shapes /\ Board!Shape(nextId, "text").id = nextId
        /\ nextId \notin Board!Ids(shapes) /\ FirstId <= nextId
    BY <1>1 DEF Board!Shape, Shapes, Board!Ids, Sound, DrawingInv
  <2>3. nextId' \in Nat /\ nextId <= nextId' /\ nextId < nextId'
    BY <1>1, <2>1
  <2>4. EditingInv'
    BY <1>2, <2>1, <2>2, <2>3 DEF EditingInv, Board!Ids
  <2>5. DragInv'
    BY <1>1, <1>2, <2>1, <2>3, SoundForLater DEF DrawingInv, DragInv
  <2>6. BeforeGesture' = BeforeGesture
    BY <1>2, <2>1 DEF BeforeGesture
  <2>7. ~loaded => drag = None
    BY <1>1 DEF DrawingInv
  <2> QED BY <1>4, <1>5, <2>1, <2>3, <2>4, <2>5, <2>6, <2>7
<1>10. CASE Board!LockAll \/ Board!CancelEdit
  <2>1. UNCHANGED <<drag, nextId>> /\ editing' = None /\ (UNCHANGED lockAll \/ drag = None)
    BY <1>10 DEF Board!LockAll, Board!CancelEdit, Board!gesture, Board!Typing, Board!MouseFree
  <2>2. DragInv' /\ EditingInv' /\ BeforeGesture' = BeforeGesture
    BY <1>1, <1>2, <2>1 DEF DrawingInv, DragInv, EditingInv, BeforeGesture
  <2>3. ~loaded => drag = None
    BY <1>1 DEF DrawingInv
  <2> QED BY <1>1, <1>4, <1>5, <2>1, <2>2, <2>3
<1>11. Board!BrushUp(FALSE) => UNCHANGED <<drag, editing, lockAll, nextId>>
  BY DEF Board!BrushUp
<1>12. (\E t \in Board!Tools : Board!PickTool(t)) \/ Board!PressEmpty \/ Board!PressPoint \/ Board!Escape
       => UNCHANGED <<drag, editing, lockAll, nextId>>
  BY DEF Board!PickTool, Board!PressEmpty, Board!PressPoint, Board!Escape, Board!gesture
<1>13. BoardInv'
  BY <1>6, <1>7, <1>8, <1>9, <1>10, <1>11, <1>12 DEF Gestures
<1> QED BY <1>4, <1>13

\* A drag: the screen moves, what was before it is still what the history ends with.
LEMMA DragKeepsInv ==
    ASSUME BoardInv, ~interrupted, Board!DragMove \/ Board!DragUp
    PROVE  BoardInv' /\ Board!LocksHold
<1>1. /\ HistoryInv /\ DrawingInv /\ nextId \in Nat /\ Sound(shapes, nextId) /\ drag # None /\ loaded
      /\ drag \in [id : Nat, moved : BOOLEAN, start : SUBSET Shapes] /\ Sound(drag.start, nextId)
      /\ ~Untouchable(shapes, drag.id, lockAll)
  BY DEF BoardInv, DrawingInv, AllSound, DragInv, Board!DragMove, Board!DragUp
<1>2. CASE Board!DragMove
  <2>1. /\ shapes' = Board!Move(shapes, drag.id) /\ drag' = [drag EXCEPT !.moved = TRUE]
        /\ UNCHANGED <<saved, loaded, past, future, editing, lockAll, nextId, edits, interrupted>>
    BY <1>2 DEF Board!DragMove
  <2>2. /\ drag' \in [id : Nat, moved : BOOLEAN, start : SUBSET Shapes] /\ drag' # None => drag'.moved
        /\ drag'.start = drag.start /\ drag'.id = drag.id /\ drag'.moved
    BY <1>1, <2>1
  <2>3. /\ Sound(shapes', nextId)
        /\ \A s \in shapes' : \E t \in shapes : t.id = s.id /\ t.locked = s.locked
    BY <1>1, <2>1, MovedIsSound
  <2>4. Board!LocksHold
    BY <1>1, <2>1, MoveKeepsLocked DEF Board!LocksHold, Kept
  <2>5. CASE drag' = None
    <3>1. FALSE
      BY <1>1, <2>1, <2>5, ChartAssumption
    <3> QED BY <3>1
  <2>6. CASE drag' # None
    <3>1. BeforeGesture = drag.start
      BY <1>1 DEF BeforeGesture, DrawingInv, DragInv
    <3>2. BeforeGesture' = drag.start
      BY <2>2, <2>6 DEF BeforeGesture
    <3>3. DragInv'
      BY <1>1, <2>1, <2>2, <2>3 DEF DragInv, Untouchable
    <3>4. EditingInv'
      BY <1>1, <2>1, <2>3 DEF DrawingInv, EditingInv, Untouchable, Board!Ids
    <3>5. AllSound(nextId)'
      BY <1>1, <2>1, <2>3 DEF AllSound, DrawingInv
    <3>6. HistoryInv'
      BY <1>1, <2>1 DEF HistoryInv
    <3>7. DrawingInv'
      BY <1>1, <2>1, <2>2, <2>6, <3>1, <3>2, <3>3, <3>4, <3>5 DEF DrawingInv
    <3> QED BY <2>4, <3>6, <3>7 DEF BoardInv
  <2> QED BY <2>5, <2>6
<1>3. CASE Board!DragUp
  <2>1. drag' = None /\ UNCHANGED <<editing, nextId>> /\ interrupted' = (interrupted \/ (drag.moved /\ ~loaded))
    BY <1>3 DEF Board!DragUp
  <2>2. CASE ~drag.moved
    <3>1. UNCHANGED <<shapes, saved, loaded, past, future, lockAll, edits>>
      BY <1>3, <2>2 DEF Board!DragUp
    <3>2. BeforeGesture' = BeforeGesture
      BY <2>1, <2>2, <3>1 DEF BeforeGesture
    <3>3. DrawingInv'
      BY <1>1, <2>1, <2>2, <3>1, <3>2 DEF DrawingInv, DragInv, EditingInv, AllSound, Board!Ids
    <3>4. HistoryInv'
      BY <1>1, <3>1 DEF HistoryInv
    <3> QED BY <3>1, <3>3, <3>4 DEF BoardInv, Board!LocksHold
  <2>3. CASE drag.moved
    <3>1. /\ Board!Trail(drag.start) /\ shapes' = shapes /\ saved' = shapes
          /\ edits' = edits \cup {<<drag.start, shapes>>} /\ UNCHANGED <<loaded, lockAll>>
      BY <1>3, <2>3 DEF Board!DragUp, Board!CommitFrom, Board!BeforeDrag, Board!Persist
    <3>2. BeforeGesture = drag.start /\ drag.start \in SUBSET Shapes
      BY <1>1, <2>3 DEF BeforeGesture
    <3>3. /\ HistoryInv' /\ WalksAlong(past', shapes, future', edits') /\ future' = <<>>
          /\ \A i \in 1..Len(past') : past'[i] = drag.start \/ \E j \in 1..Len(past) : past'[i] = past[j]
      BY <1>1, <3>1, <3>2, TrailIsAWalk DEF DrawingInv
    <3>4. AllSound(nextId)'
      BY <1>1, <2>1, <3>1, <3>3 DEF AllSound, DrawingInv
    <3>5. DragInv' /\ EditingInv' /\ BeforeGesture' = shapes
      BY <1>1, <2>1, <3>1 DEF DrawingInv, DragInv, EditingInv, BeforeGesture, Board!Ids
    <3>6. DrawingInv'
      BY <1>1, <2>1, <3>1, <3>3, <3>4, <3>5 DEF DrawingInv
    <3> QED BY <3>1, <3>3, <3>6 DEF BoardInv, Board!LocksHold
  <2> QED BY <2>2, <2>3
<1> QED BY <1>2, <1>3

\* The last element of a sequence is taken off.
LEMMA FrontOf ==
    ASSUME NEW S, NEW q \in Seq(S), q # <<>>
    PROVE  /\ Len(q) \in Nat \ {0} /\ q[Len(q)] \in S
           /\ SubSeq(q, 1, Len(q) - 1) \in Seq(S)
           /\ Len(SubSeq(q, 1, Len(q) - 1)) = Len(q) - 1
           /\ \A i \in 1..(Len(q) - 1) : SubSeq(q, 1, Len(q) - 1)[i] = q[i]
<1>1. Len(q) \in Nat \ {0}
  OBVIOUS
<1> DEFINE m == Len(q) - 1
<1>2. m \in Nat /\ 1..m \subseteq 1..Len(q)
  BY <1>1
<1> HIDE DEF m
<1>3. SubSeq(q, 1, m) \in Seq(S) /\ Len(SubSeq(q, 1, m)) = m
  <2>1. \A i \in 1..m : q[i] \in S
    BY <1>2
  <2> QED BY <1>2, <2>1
<1>4. \A i \in 1..m : SubSeq(q, 1, m)[i] = q[i]
  BY <1>1, <1>2
<1> QED BY <1>1, <1>3, <1>4 DEF m

\* A sequence is put behind another one.
LEMMA ConcatOf ==
    ASSUME NEW S, NEW p \in Seq(S), NEW q \in Seq(S)
    PROVE  /\ p \o q \in Seq(S) /\ Len(p \o q) = Len(p) + Len(q)
           /\ \A i \in 1..Len(p) : (p \o q)[i] = p[i]
           /\ \A i \in 1..Len(q) : (p \o q)[Len(p) + i] = q[i]
OBVIOUS

\* Back, or forth again, by one edit.
LEMMA UndoKeepsInv ==
    ASSUME BoardInv, ~interrupted, Board!Undo \/ Board!Redo
    PROVE  BoardInv'
<1>1. /\ HistoryInv /\ DrawingInv /\ shapes \in SUBSET Shapes
      /\ Len(past) \in Nat /\ Len(future) \in Nat /\ HistoryLimit \in Nat
      /\ past \in Seq(SUBSET Shapes) /\ future \in Seq(SUBSET Shapes)
  BY ChartAssumption DEF BoardInv, DrawingInv, AllSound, Sound, HistoryInv
<1>2. /\ UNCHANGED <<loaded, drag, editing, lockAll, nextId, edits>> /\ editing = None
      /\ interrupted' = (interrupted \/ drag # None \/ ~loaded) /\ saved' = shapes'
  BY DEF Board!Undo, Board!Redo, Board!Interrupts, Board!gesture, Board!Typing, Board!Shown, Board!Persist
<1>3. CASE Board!Undo
  <2> DEFINE m == Len(past)
  <2>1. /\ past # <<>> /\ past' = SubSeq(past, 1, m - 1) /\ future' = Append(future, shapes)
        /\ shapes' = past[m]
    BY <1>3 DEF Board!Undo, Board!Front, Board!Last, Board!Shown, Board!Persist
  <2>2. /\ m \in Nat \ {0} /\ Len(past') = m - 1 /\ past' \in Seq(SUBSET Shapes)
        /\ \A i \in 1..(m - 1) : past'[i] = past[i]
    BY <1>1, <2>1, FrontOf
  <2>3. /\ future' \in Seq(SUBSET Shapes) /\ Len(future') = Len(future) + 1
        /\ future'[Len(future) + 1] = shapes /\ \A i \in 1..Len(future) : future'[i] = future[i]
    BY <1>1, <2>1
  <2> HIDE DEF m
  <2>4. HistoryInv'
    BY <1>1, <2>2, <2>3 DEF HistoryInv, m
  <2>5. ASSUME drag = None, loaded
        PROVE  DrawingInv'
    <3>1. WalksAlong(past, shapes, future, edits) /\ AllSound(nextId)
      BY <1>1, <2>5 DEF DrawingInv, BeforeGesture
    <3>2. AllSound(nextId)'
      <4>1. m \in 1..Len(past)
        BY <2>2 DEF m
      <4>2. \A i \in 1..Len(past') : Sound(past'[i], nextId)
        BY <2>2, <3>1 DEF AllSound, m
      <4>3. \A i \in 1..Len(future') : Sound(future'[i], nextId)
        <5> SUFFICES ASSUME NEW i \in 1..Len(future') PROVE Sound(future'[i], nextId)
          OBVIOUS
        <5>1. i = Len(future) + 1 \/ i \in 1..Len(future)
          BY <1>1, <2>3
        <5> QED BY <2>3, <3>1, <5>1 DEF AllSound
      <4> QED BY <1>2, <2>1, <3>1, <4>1, <4>2, <4>3 DEF AllSound
    <3>3. /\ <<past[m], shapes>> \in edits
          /\ past' # <<>> => <<past'[m - 1], past[m]>> \in edits
      <4>1. <<past[m], shapes>> \in edits
        BY <2>1, <3>1 DEF WalksAlong, m
      <4>2. CASE past' # <<>>
        <5>1. m - 1 \in 1..(m - 1) /\ m - 1 + 1 = m
          BY <2>2, <4>2
        <5>2. <<past[m - 1], past[m - 1 + 1]>> \in edits
          BY <3>1, <5>1 DEF WalksAlong, m
        <5> QED BY <2>2, <4>1, <5>1, <5>2
      <4> QED BY <4>1, <4>2
    <3>4. \A i \in 1..(m - 1 - 1) : <<past'[i], past'[i + 1]>> \in edits
      <4> SUFFICES ASSUME NEW i \in 1..(m - 1 - 1) PROVE <<past'[i], past'[i + 1]>> \in edits
        OBVIOUS
      <4>1. i \in 1..(m - 1) /\ i + 1 \in 1..(m - 1)
        BY <2>2
      <4> QED BY <2>2, <3>1, <4>1 DEF WalksAlong, m
    <3>5. \A i \in 1..Len(future) : <<future'[i + 1], future'[i]>> \in edits
      <4> SUFFICES ASSUME NEW i \in 1..Len(future) PROVE <<future'[i + 1], future'[i]>> \in edits
        OBVIOUS
      <4>1. CASE i = Len(future)
        <5>1. i + 1 = Len(future) + 1 /\ future # <<>> /\ future'[i + 1] = shapes /\ future'[i] = future[Len(future)]
          BY <1>1, <2>3, <4>1
        <5> QED BY <3>1, <5>1 DEF WalksAlong
      <4>2. CASE i < Len(future)
        <5>1. i \in 1..(Len(future) - 1) /\ i + 1 \in 1..Len(future)
          BY <1>1, <4>2
        <5> QED BY <2>3, <3>1, <5>1 DEF WalksAlong
      <4> QED BY <1>1, <4>1, <4>2
    <3>6. WalksAlong(past', past[m], future', edits)
      <4>1. Len(future') - 1 = Len(future) /\ Len(past') = m - 1
        BY <1>1, <2>2, <2>3
      <4>2. \A i \in 1..(Len(past') - 1) : <<past'[i], past'[i + 1]>> \in edits
        BY <3>4, <4>1
      <4>3. past' # <<>> => <<past'[m - 1], past[m]>> \in edits
        BY <3>3
      <4>4. \A i \in 1..(Len(future') - 1) : <<future'[i + 1], future'[i]>> \in edits
        BY <3>5, <4>1
      <4>5. <<past[m], future'[Len(future')]>> \in edits
        <5>1. future'[Len(future')] = shapes
          BY <2>3
        <5>2. <<past[m], shapes>> \in edits
          BY <3>3
        <5> QED BY <5>1, <5>2
      <4> QED BY <4>1, <4>2, <4>3, <4>4, <4>5 DEF WalksAlong
    <3>7. BeforeGesture' = past[m]
      BY <1>2, <2>1, <2>5 DEF BeforeGesture, m
    <3> QED BY <1>1, <1>2, <2>5, <3>2, <3>6, <3>7 DEF DrawingInv, DragInv, EditingInv
  <2> QED BY <1>2, <2>4, <2>5 DEF BoardInv
<1>4. CASE Board!Redo
  <2> DEFINE n == Len(future)
  <2>1. /\ future # <<>> /\ future' = SubSeq(future, 1, n - 1) /\ past' = Append(past, shapes)
        /\ shapes' = future[n]
    BY <1>4 DEF Board!Redo, Board!Front, Board!Last, Board!Shown, Board!Persist
  <2>2. /\ n \in Nat \ {0} /\ Len(future') = n - 1 /\ future' \in Seq(SUBSET Shapes)
        /\ \A i \in 1..(n - 1) : future'[i] = future[i]
    BY <1>1, <2>1, FrontOf
  <2>3. /\ past' \in Seq(SUBSET Shapes) /\ Len(past') = Len(past) + 1
        /\ past'[Len(past) + 1] = shapes /\ \A i \in 1..Len(past) : past'[i] = past[i]
    BY <1>1, <2>1
  <2> HIDE DEF n
  <2>4. HistoryInv'
    BY <1>1, <2>2, <2>3 DEF HistoryInv, n
  <2>5. ASSUME drag = None, loaded
        PROVE  DrawingInv'
    <3>1. WalksAlong(past, shapes, future, edits) /\ AllSound(nextId)
      BY <1>1, <2>5 DEF DrawingInv, BeforeGesture
    <3>2. AllSound(nextId)'
      BY <1>1, <1>2, <2>1, <2>2, <2>3, <3>1 DEF AllSound, n
    <3>3. /\ <<shapes, future[n]>> \in edits
          /\ future' # <<>> => <<future[n], future'[n - 1]>> \in edits
      <4>1. <<shapes, future[n]>> \in edits
        BY <2>1, <3>1 DEF WalksAlong, n
      <4>2. CASE future' # <<>>
        <5>1. n - 1 \in 1..(n - 1) /\ n - 1 + 1 = n
          BY <2>2, <4>2
        <5>2. <<future[n - 1 + 1], future[n - 1]>> \in edits
          BY <3>1, <5>1 DEF WalksAlong, n
        <5> QED BY <2>2, <4>1, <5>1, <5>2
      <4> QED BY <4>1, <4>2
    <3>4. \A i \in 1..(n - 1 - 1) : <<future'[i + 1], future'[i]>> \in edits
      <4> SUFFICES ASSUME NEW i \in 1..(n - 1 - 1) PROVE <<future'[i + 1], future'[i]>> \in edits
        OBVIOUS
      <4>1. i \in 1..(n - 1) /\ i + 1 \in 1..(n - 1)
        BY <2>2
      <4> QED BY <2>2, <3>1, <4>1 DEF WalksAlong, n
    <3>5. \A i \in 1..Len(past) : <<past'[i], past'[i + 1]>> \in edits
      <4> SUFFICES ASSUME NEW i \in 1..Len(past) PROVE <<past'[i], past'[i + 1]>> \in edits
        OBVIOUS
      <4>1. CASE i = Len(past)
        <5>1. i + 1 = Len(past) + 1 /\ past # <<>> /\ past'[i + 1] = shapes /\ past'[i] = past[Len(past)]
          BY <1>1, <2>3, <4>1
        <5> QED BY <3>1, <5>1 DEF WalksAlong
      <4>2. CASE i < Len(past)
        <5>1. i \in 1..(Len(past) - 1) /\ i + 1 \in 1..Len(past)
          BY <1>1, <4>2
        <5> QED BY <2>3, <3>1, <5>1 DEF WalksAlong
      <4> QED BY <1>1, <4>1, <4>2
    <3>6. WalksAlong(past', future[n], future', edits)
      <4>1. Len(past') - 1 = Len(past) /\ Len(future') = n - 1
        BY <1>1, <2>2, <2>3
      <4>2. \A i \in 1..(Len(future') - 1) : <<future'[i + 1], future'[i]>> \in edits
        BY <3>4, <4>1
      <4>3. future' # <<>> => <<future[n], future'[n - 1]>> \in edits
        BY <3>3
      <4>4. \A i \in 1..(Len(past') - 1) : <<past'[i], past'[i + 1]>> \in edits
        BY <3>5, <4>1
      <4>5. <<past'[Len(past')], future[n]>> \in edits
        <5>1. past'[Len(past')] = shapes
          BY <2>3
        <5>2. <<shapes, future[n]>> \in edits
          BY <3>3
        <5> QED BY <5>1, <5>2
      <4> QED BY <4>1, <4>2, <4>3, <4>4, <4>5 DEF WalksAlong
    <3>7. BeforeGesture' = future[n]
      BY <1>2, <2>1, <2>5 DEF BeforeGesture, n
    <3> QED BY <1>1, <1>2, <2>5, <3>2, <3>6, <3>7 DEF DrawingInv, DragInv, EditingInv
  <2> QED BY <1>2, <2>4, <2>5 DEF BoardInv
<1> QED BY <1>3, <1>4

\* The load, before anything was drawn.
LEMMA LoadKeepsInv ==
    ASSUME BoardInv, ~interrupted, Board!LoadResolves
    PROVE  BoardInv'
<1>1. /\ HistoryInv /\ DrawingInv /\ ~loaded /\ loaded' /\ shapes' = Stored
      /\ UNCHANGED <<saved, past, future, drag, editing, lockAll, nextId, edits>>
      /\ shapes = {} /\ past = <<>> /\ future = <<>> /\ drag = None /\ saved = Stored /\ nextId \in Nat
      /\ FirstId <= nextId /\ FirstId \in Nat
  BY ChartAssumption DEF BoardInv, DrawingInv, Board!LoadResolves, Board!gesture
<1>2. Sound(Stored, FirstId)
  BY ChartAssumption DEF Sound
<1>3. Sound(Stored, nextId)
  BY <1>1, <1>2, SoundForLater
<1>4. AllSound(nextId)'
  BY <1>1, <1>3 DEF AllSound
<1>5. EditingInv'
  <2> SUFFICES ASSUME editing # None PROVE EditingInv'
    BY <1>1 DEF EditingInv
  <2>1. /\ editing \in [shape : Shapes, new : BOOLEAN] /\ editing.shape.id < nextId /\ editing.new
        /\ FirstId <= editing.shape.id /\ editing.shape.id \in Nat
    BY <1>1 DEF DrawingInv, EditingInv, Shapes
  <2>2. editing.shape.id \notin Board!Ids(Stored)
    BY <1>1, <1>2, <2>1 DEF Sound, Board!Ids, Shapes
  <2> QED BY <1>1, <2>1, <2>2 DEF EditingInv, Board!Ids
<1>6. WalksAlong(past', BeforeGesture', future', edits')
  <2>1. \A i \in 1..(Len(<<>>) - 1) : FALSE
    OBVIOUS
  <2> QED BY <1>1, <2>1 DEF WalksAlong
<1>7. HistoryInv'
  BY <1>1 DEF HistoryInv
<1> QED BY <1>1, <1>4, <1>5, <1>6, <1>7 DEF BoardInv, DrawingInv, DragInv

\* Every step of the drawing board before an edit that interrupts.
LEMMA BoardStepKeepsInv ==
    ASSUME BoardInv, ~interrupted, Board!Next
    PROVE  BoardInv' /\ Board!LocksHold
<1>1. Board!Wholesale => Board!LocksHold
  BY DEF Board!LocksHold
<1>2. CASE Draws
  BY <1>2, DrawsKeepInv
<1>3. CASE Gestures
  BY <1>3, GesturesKeepInv
<1>4. CASE Board!DragMove \/ Board!DragUp
  BY <1>4, DragKeepsInv
<1>5. CASE Board!Undo \/ Board!Redo \/ Board!LoadResolves
  BY <1>1, <1>5, UndoKeepsInv, LoadKeepsInv DEF Board!Wholesale
<1> QED BY <1>2, <1>3, <1>4, <1>5 DEF Board!Next, Board!Wholesale, Draws, Gestures

\* The walk of the whole history, through what is shown.
LEMMA WalkIsWhole ==
    ASSUME HistoryInv, NEW now \in SUBSET Shapes, WalksAlong(past, now, future, edits)
    PROVE  LET walk == past \o <<now>> \o Board!Reverse(future) IN
           \A i \in 1..(Len(walk) - 1) : <<walk[i], walk[i + 1]>> \in edits
<1> DEFINE m    == Len(past)
           n    == Len(future)
           back == Board!Reverse(future)
           walk == past \o <<now>> \o back
<1>1. m \in Nat /\ n \in Nat /\ past \in Seq(SUBSET Shapes) /\ future \in Seq(SUBSET Shapes)
  BY DEF HistoryInv
<1>2. back = [i \in 1..n |-> future[n - i + 1]]
  BY DEF Board!Reverse
<1>3. back \in Seq(SUBSET Shapes) /\ Len(back) = n
  <2>1. \A i \in 1..n : n - i + 1 \in 1..n
    BY <1>1
  <2>2. \A i \in 1..n : future[n - i + 1] \in SUBSET Shapes
    BY <1>1, <2>1
  <2>3. back \in [1..n -> SUBSET Shapes]
    BY <1>2, <2>2
  <2> QED BY <1>1, <2>3
<1> HIDE DEF back
<1>4. /\ Len(walk) = m + 1 + n /\ walk[m + 1] = now
      /\ \A i \in 1..m : walk[i] = past[i]
      /\ \A i \in 1..n : walk[m + 1 + i] = back[i]
  <2> DEFINE one == past \o <<now>>
  <2>1. <<now>> \in Seq(SUBSET Shapes) /\ Len(<<now>>) = 1 /\ <<now>>[1] = now
    OBVIOUS
  <2>2. /\ one \in Seq(SUBSET Shapes) /\ Len(one) = m + 1 /\ one[m + 1] = now
        /\ \A i \in 1..m : one[i] = past[i]
    BY <1>1, <2>1, ConcatOf
  <2> HIDE DEF one
  <2>3. /\ Len(one \o back) = Len(one) + n
        /\ \A i \in 1..Len(one) : (one \o back)[i] = one[i]
        /\ \A i \in 1..n : (one \o back)[Len(one) + i] = back[i]
    <3>1. back \in Seq(SUBSET Shapes) /\ one \in Seq(SUBSET Shapes)
      BY <1>3, <2>2
    <3>2. /\ Len(one \o back) = Len(one) + Len(back)
          /\ \A i \in 1..Len(one) : (one \o back)[i] = one[i]
          /\ \A i \in 1..Len(back) : (one \o back)[Len(one) + i] = back[i]
      BY <3>1, ConcatOf
    <3> QED BY <1>3, <3>2
  <2>4. walk = one \o back
    BY DEF one
  <2>5. m + 1 \in 1..Len(one) /\ 1..m \subseteq 1..Len(one)
    BY <1>1, <2>2
  <2> QED BY <2>2, <2>3, <2>4, <2>5
<1> HIDE DEF walk, m, n
<1> SUFFICES ASSUME NEW i \in 1..(m + n) PROVE <<walk[i], walk[i + 1]>> \in edits
  BY <1>1, <1>4 DEF walk, back
<1>5. CASE i < m
  <2>1. i \in 1..(m - 1) /\ i \in 1..m /\ i + 1 \in 1..m
    BY <1>1, <1>5
  <2> QED BY <1>4, <2>1 DEF WalksAlong, m
<1>6. CASE i = m
  <2>1. i \in 1..m /\ past # <<>> /\ walk[i + 1] = now
    BY <1>1, <1>4, <1>6 DEF m
  <2> QED BY <1>4, <1>6, <2>1 DEF WalksAlong, m
<1>7. CASE i = m + 1
  <2>1. 1 \in 1..n /\ i + 1 = m + 1 + 1 /\ future # <<>>
    BY <1>1, <1>7 DEF n
  <2>2. back[1] = future[n]
    BY <1>1, <1>2, <2>1
  <2> QED BY <1>4, <1>7, <2>1, <2>2 DEF WalksAlong, n
<1>8. CASE i > m + 1
  <2> DEFINE j == i - (m + 1)
  <2>1. /\ j \in 1..n /\ j + 1 \in 1..n /\ i = m + 1 + j /\ i + 1 = m + 1 + (j + 1)
        /\ n - (j + 1) + 1 = n - j /\ n - j + 1 = (n - j) + 1 /\ n - j \in 1..(n - 1)
    BY <1>1, <1>8
  <2> HIDE DEF j
  <2>2. back[j] = future[(n - j) + 1] /\ back[j + 1] = future[n - j]
    BY <1>2, <2>1
  <2>3. <<future[(n - j) + 1], future[n - j]>> \in edits
    BY <2>1 DEF WalksAlong, n
  <2> QED BY <1>4, <2>1, <2>2, <2>3
<1> QED BY <1>1, <1>5, <1>6, <1>7, <1>8

\* So the history is a walk, the screen is saved, and the locks hold.
LEMMA BoardInvHolds ==
    Spec => [](Board!UndoRetracesEdits /\ Board!ScreenIsSaved) /\ LockedShapesHold
<1>1. Init => BoardInv
  <2> SUFFICES ASSUME Init PROVE BoardInv
    OBVIOUS
  <2>1. /\ shapes = {} /\ saved = Stored /\ ~loaded /\ past = <<>> /\ future = <<>> /\ drag = None
        /\ editing = None /\ nextId = FirstId /\ edits = {}
    BY DEF Init, Board!Init
  <2>2. HistoryInv
    BY <2>1, ChartAssumption DEF HistoryInv
  <2>3. AllSound(nextId)
    BY <2>1 DEF AllSound, Sound
  <2>4. WalksAlong(past, BeforeGesture, future, edits)
    <3>1. \A i \in 1..(Len(<<>>) - 1) : FALSE
      OBVIOUS
    <3> QED BY <2>1, <3>1 DEF WalksAlong
  <2> QED BY <2>1, <2>2, <2>3, <2>4, ChartAssumption DEF BoardInv, DrawingInv, DragInv, EditingInv
<1>2. BoardInv /\ UNCHANGED boardVars => BoardInv'
  BY DEF boardVars, BoardInv, HistoryInv, DrawingInv, AllSound, DragInv, EditingInv, BeforeGesture,
         WalksAlong, Sound, Untouchable, Board!Ids
<1>3. [Next]_vars => (~interrupted /\ Board!Next) \/ UNCHANGED boardVars
  BY DEF Next, BarsRun, BoardRuns, SyncRuns, vars
<1>4. BoardInv /\ [Next]_vars => BoardInv'
  BY <1>2, <1>3, BoardStepKeepsInv
<1>5. BoardInv /\ [Next]_vars => [Board!LocksHold]_Board!vars
  BY <1>3, BoardStepKeepsInv DEF boardVars, Board!vars, Board!gesture
<1>6. BoardInv => Board!UndoRetracesEdits /\ Board!ScreenIsSaved
  <2> SUFFICES ASSUME BoardInv PROVE Board!UndoRetracesEdits /\ Board!ScreenIsSaved
    OBVIOUS
  <2>1. Len(past) + Len(future) <= HistoryLimit
    BY DEF BoardInv, HistoryInv
  <2>2. ~interrupted => LET walk == past \o <<BeforeGesture>> \o Board!Reverse(future) IN
                        \A i \in 1..(Len(walk) - 1) : <<walk[i], walk[i + 1]>> \in edits
    <3>1. ~interrupted => BeforeGesture \in SUBSET Shapes /\ WalksAlong(past, BeforeGesture, future, edits)
      BY DEF BoardInv, DrawingInv, AllSound, Sound, BeforeGesture, DragInv
    <3> QED BY <3>1, WalkIsWhole DEF BoardInv
  <2>3. Board!UndoRetracesEdits
    BY <2>1, <2>2 DEF Board!UndoRetracesEdits, BeforeGesture
  <2>4. Board!ScreenIsSaved
    BY DEF Board!ScreenIsSaved, BoardInv, DrawingInv
  <2> QED BY <2>3, <2>4
<1> QED BY <1>1, <1>4, <1>5, <1>6, PTL DEF Spec, LockedShapesHold, Board!LockedShapesHold

(***************************************************************************)
(* The copies in the browsers and on the server.  A browser pushes a copy  *)
(* that is dirty, and one that is not was the server's; so a browser that  *)
(* has drawn nothing only looks.  While nobody is hasty a browser has one  *)
(* load under way, or pushes that end in turn, and what it drew is in the  *)
(* last of its calls or, when they have ended, in its copy.                *)
(***************************************************************************)
Drawings == SUBSET (1..MaxShapes)
Copies   == [shapes : Drawings, at : Nat, dirty : BOOLEAN]
Answers  == [shapes : Drawings, at : Nat]
Steps    == {"get", "got", "push", "pushed"}
Calls    == [step : Steps, copy : Copies \cup {None}, remote : Answers \cup {None}, load : BOOLEAN]

SyncTyped ==
    /\ server \in Answers
    /\ local \in [Devices -> Copies \cup {None}]
    /\ calls \in [Devices -> Seq(Calls)]
    /\ open \in [Devices -> BOOLEAN] /\ ready \in [Devices -> BOOLEAN]
    /\ screen \in [Devices -> Drawings] /\ drawn \in [Devices -> Drawings]
    /\ drewSince \in [Devices -> BOOLEAN] /\ hasty \in BOOLEAN

IsClean(copy) == copy # None /\ ~copy.dirty

\* When the server is at its at-th save.
CallInv(c, at) ==
    /\ IsClean(c.copy) => c.copy.at <= at
    /\ c.step \in {"get", "got"} => c.load
    /\ c.step \in {"push", "pushed"} => c.copy # None /\ c.copy.dirty
    /\ c.step \in {"got", "pushed"} => c.remote \in Answers /\ c.remote.at <= at
    /\ c.step = "got" /\ IsClean(c.copy) => c.copy.at <= c.remote.at

OnlyLooks(c) == c.step \in {"get", "got"} /\ (c.copy = None \/ IsClean(c.copy))

CallsInv(d) ==
    /\ \A i \in 1..Len(calls[d]) : CallInv(calls[d][i], server.at)
    /\ IsClean(local[d]) => local[d].at <= server.at
    /\ ~drewSince[d] \/ drawn[d] = {} => \A i \in 1..Len(calls[d]) : OnlyLooks(calls[d][i])
    /\ drawn[d] = {} => local[d] = None \/ IsClean(local[d])
    /\ ready[d] => open[d]

Orderly(d) ==
    \A i \in 1..Len(calls[d]) :
        /\ i > 1 => calls[d][i].step = "push" /\ ~calls[d][i].load
        /\ calls[d][i].load => Len(calls[d]) = 1 /\ ~ready[d] /\ calls[d][i].copy = local[d]

\* The only browser that draws.
Sole(d) == drawn[d] # {} /\ \A e \in Devices \ {d} : drawn[e] = {}

LastCall(d) == calls[d][Len(calls[d])]

\* When the server holds kept.
LastKeeps(c, strokes, kept) ==
    /\ c.copy # None /\ strokes \subseteq c.copy.shapes
    /\ c.step = "pushed" \/ ~c.copy.dirty => strokes \subseteq kept
    /\ c.step = "got" /\ ~c.copy.dirty => strokes \subseteq c.remote.shapes

EditsInv(d) ==
    /\ local[d] # None
    /\ ready[d] => drawn[d] \subseteq screen[d]
    /\ calls[d] = <<>> => drawn[d] \subseteq local[d].shapes /\ (local[d].dirty \/ drawn[d] \subseteq server.shapes)
    /\ calls[d] # <<>> => LastKeeps(LastCall(d), drawn[d], server.shapes)

DeviceInv(d) == CallsInv(d) /\ (~hasty => Orderly(d) /\ (Sole(d) => EditsInv(d)))

Disjoint == \A d, e \in Devices : d # e => drawn[d] \cap drawn[e] = {}

SyncInv == SyncTyped /\ Disjoint /\ \A d \in Devices : DeviceInv(d)

\* A call goes on to another step.
LEMMA GoesIs ==
    ASSUME SyncTyped, NEW d \in Devices, NEW i \in 1..Len(calls[d]), NEW step \in Steps,
           NEW remote \in Answers \cup {None}, Sync!Goes(d, i, step, remote)
    PROVE  /\ calls' \in [Devices -> Seq(Calls)]
           /\ \A e \in Devices \ {d} : calls'[e] = calls[e]
           /\ Len(calls'[d]) = Len(calls[d])
           /\ \A j \in 1..Len(calls[d]) : j # i => calls'[d][j] = calls[d][j]
           /\ calls'[d][i].step = step /\ calls'[d][i].remote = remote
           /\ calls'[d][i].copy = calls[d][i].copy /\ calls'[d][i].load = calls[d][i].load
<1> DEFINE c == [calls[d][i] EXCEPT !.step = step, !.remote = remote]
           q == [calls[d] EXCEPT ![i] = c]
<1>1. calls[d] \in Seq(Calls) /\ calls[d][i] \in Calls
  BY DEF SyncTyped
<1>2. c \in [step : {step}, copy : {calls[d][i].copy}, remote : {remote}, load : {calls[d][i].load}]
  BY <1>1 DEF Calls
<1>3. c \in Calls
  BY <1>1 DEF Calls
<1>4. c.step = step /\ c.remote = remote /\ c.copy = calls[d][i].copy /\ c.load = calls[d][i].load
  BY <1>2
<1>5. calls' = [calls EXCEPT ![d] = q]
  BY DEF Sync!Goes
<1> HIDE DEF c
<1>6. /\ q \in Seq(Calls) /\ Len(q) = Len(calls[d]) /\ q[i] = c
      /\ \A j \in 1..Len(calls[d]) : j # i => q[j] = calls[d][j]
  BY <1>1, <1>3
<1> HIDE DEF q
<1>7. calls'[d] = q /\ calls' \in [Devices -> Seq(Calls)] /\ \A e \in Devices \ {d} : calls'[e] = calls[e]
  BY <1>5, <1>6 DEF SyncTyped
<1> QED BY <1>4, <1>6, <1>7

\* A call ends, and leaves the others.
LEMMA EndsIs ==
    ASSUME SyncTyped, NEW d \in Devices, NEW i \in 1..Len(calls[d]), Sync!Ends(d, i)
    PROVE  /\ calls' \in [Devices -> Seq(Calls)]
           /\ \A e \in Devices \ {d} : calls'[e] = calls[e]
           /\ Len(calls'[d]) = Len(calls[d]) - 1
           /\ \A j \in 1..(Len(calls[d]) - 1) : calls'[d][j] = IF j < i THEN calls[d][j] ELSE calls[d][j + 1]
<1> DEFINE q == calls[d]
           n == Len(q)
           front == SubSeq(q, 1, i - 1)
           back  == SubSeq(q, i + 1, n)
<1>1. q \in Seq(Calls) /\ n \in Nat /\ i \in 1..n
  BY DEF SyncTyped
<1>2. front \in Seq(Calls) /\ Len(front) = i - 1 /\ \A j \in 1..(i - 1) : front[j] = q[j]
  <2> HIDE DEF q
  <2>1. i - 1 \in 0..n /\ 1..(i - 1) \subseteq 1..n
    BY <1>1
  <2> QED BY <1>1, <2>1
<1>3. back \in Seq(Calls) /\ Len(back) = n - i /\ \A j \in 1..(n - i) : back[j] = q[i + j]
  <2> HIDE DEF q
  <2>1. /\ n - i \in Nat /\ \A j \in 1..(n - i) : i + j \in 1..n
        /\ n - (i + 1) + 1 = n - i
    BY <1>1
  <2>2. back \in Seq(Calls)
    BY <1>1
  <2>3. Len(back) = n - i
    <3>1. i \in Nat /\ i <= n
      BY <1>1
    <3> HIDE DEF n
    <3>2. CASE i = n
      BY <1>1, <3>1, <3>2
    <3>3. CASE i < n
      BY <1>1, <3>1, <3>3
    <3> QED BY <1>1, <3>1, <3>2, <3>3
  <2>4. \A j \in 1..(n - i) : back[j] = q[i + j]
    BY <1>1, <2>1
  <2> QED BY <2>2, <2>3, <2>4
<1>4. calls' = [calls EXCEPT ![d] = front \o back]
  BY DEF Sync!Ends, Sync!RemoveAt
<1> HIDE DEF front, back
<1>5. /\ front \o back \in Seq(Calls) /\ Len(front \o back) = n - 1
      /\ \A j \in 1..(i - 1) : (front \o back)[j] = q[j]
      /\ \A j \in 1..(n - i) : (front \o back)[i - 1 + j] = q[i + j]
  <2>1. /\ front \o back \in Seq(Calls) /\ Len(front \o back) = Len(front) + Len(back)
        /\ \A j \in 1..Len(front) : (front \o back)[j] = front[j]
        /\ \A j \in 1..Len(back) : (front \o back)[Len(front) + j] = back[j]
    <3>1. front \in Seq(Calls) /\ back \in Seq(Calls)
      BY <1>2, <1>3
    <3> QED BY <3>1, ConcatOf
  <2>2. front \o back \in Seq(Calls) /\ Len(front) = i - 1 /\ Len(back) = n - i
    BY <1>2, <1>3, <2>1
  <2>3. Len(front \o back) = n - 1
    <3>1. Len(front \o back) = (i - 1) + (n - i)
      BY <2>1, <2>2
    <3>2. i \in Nat /\ n \in Nat
      BY <1>1
    <3> HIDE DEF n
    <3>3. (i - 1) + (n - i) = n - 1
      BY <3>2
    <3> QED BY <3>1, <3>3
  <2>4. \A j \in 1..(i - 1) : (front \o back)[j] = q[j]
    <3>1. \A j \in 1..(i - 1) : (front \o back)[j] = front[j]
      BY <2>1, <2>2
    <3>2. \A j \in 1..(i - 1) : front[j] = q[j]
      BY <1>2
    <3> QED BY <3>1, <3>2
  <2>5. \A j \in 1..(n - i) : (front \o back)[i - 1 + j] = q[i + j]
    <3>1. \A j \in 1..(n - i) : (front \o back)[i - 1 + j] = back[j]
      BY <2>1, <2>2
    <3>2. \A j \in 1..(n - i) : back[j] = q[i + j]
      BY <1>3
    <3> QED BY <3>1, <3>2
  <2> QED BY <2>2, <2>3, <2>4, <2>5
<1>6. calls'[d] = front \o back /\ calls' \in [Devices -> Seq(Calls)] /\ \A e \in Devices \ {d} : calls'[e] = calls[e]
  BY <1>4, <1>5 DEF SyncTyped
<1>7. ASSUME NEW j \in 1..(n - 1)
      PROVE  calls'[d][j] = IF j < i THEN q[j] ELSE q[j + 1]
  <2>1. CASE j < i
    BY <1>1, <1>5, <1>6, <2>1
  <2>2. CASE ~(j < i)
    <3>1. j - i + 1 \in 1..(n - i) /\ i - 1 + (j - i + 1) = j /\ i + (j - i + 1) = j + 1
      BY <1>1, <2>2
    <3> QED BY <1>5, <1>6, <2>2, <3>1
  <2> QED BY <2>1, <2>2
<1> QED BY <1>5, <1>6, <1>7

\* A step of one browser leaves what is known of the others.
LEMMA OthersStay ==
    ASSUME SyncInv, NEW d \in Devices, server' \in Answers, server.at <= server'.at,
           server'.shapes = server.shapes \/ drawn'[d] # {},
           hasty \in BOOLEAN, hasty => hasty', drawn[d] \subseteq drawn'[d],
           \A e \in Devices \ {d} :
               /\ local'[e] = local[e] /\ calls'[e] = calls[e] /\ open'[e] = open[e] /\ ready'[e] = ready[e]
               /\ screen'[e] = screen[e] /\ drawn'[e] = drawn[e] /\ drewSince'[e] = drewSince[e]
    PROVE  \A e \in Devices \ {d} : DeviceInv(e)'
<1> SUFFICES ASSUME NEW e \in Devices \ {d} PROVE DeviceInv(e)'
  OBVIOUS
<1>1. /\ local'[e] = local[e] /\ calls'[e] = calls[e] /\ open'[e] = open[e] /\ ready'[e] = ready[e]
      /\ screen'[e] = screen[e] /\ drawn'[e] = drawn[e] /\ drewSince'[e] = drewSince[e]
  OBVIOUS
<1>2. /\ CallsInv(e) /\ server \in Answers /\ server.at \in Nat /\ server'.at \in Nat
      /\ local[e] \in Copies \cup {None} /\ calls[e] \in Seq(Calls)
  BY DEF SyncInv, SyncTyped, DeviceInv, Answers
<1>3. ASSUME NEW c \in Calls, CallInv(c, server.at) PROVE CallInv(c, server'.at)
  <2>1. IsClean(c.copy) => c.copy.at \in Nat
    BY DEF Calls, IsClean, Copies
  <2>2. c.remote \in Answers => c.remote.at \in Nat
    BY DEF Calls, Answers
  <2> QED BY <1>2, <1>3, <2>1, <2>2 DEF CallInv, IsClean
<1>4. CallsInv(e)'
  <2>1. \A i \in 1..Len(calls[e]) : calls[e][i] \in Calls
    BY <1>2
  <2>2. IsClean(local[e]) => local[e].at \in Nat
    BY <1>2 DEF IsClean, Copies
  <2> QED BY <1>1, <1>2, <1>3, <2>1, <2>2 DEF CallsInv, IsClean, OnlyLooks
<1>5. ~hasty' => Orderly(e)'
  BY <1>1 DEF SyncInv, DeviceInv, Orderly
<1>6. ASSUME ~hasty', Sole(e)' PROVE EditsInv(e)'
  <2>1. drawn'[d] = {} /\ drawn[d] = {} /\ server'.shapes = server.shapes
    BY <1>6 DEF Sole
  <2>2. Sole(e)
    BY <1>1, <1>6, <2>1 DEF Sole
  <2>3. EditsInv(e)
    BY <1>6, <2>2 DEF SyncInv, DeviceInv
  <2> QED BY <1>1, <2>1, <2>3 DEF EditsInv, LastCall, LastKeeps
<1> QED BY <1>4, <1>5, <1>6 DEF DeviceInv

\* A call that goes on keeps what it carries.
LEMMA GoingKeepsInv ==
    ASSUME SyncInv, NEW d \in Devices, NEW i \in 1..Len(calls[d]), NEW step \in Steps, NEW remote \in Answers \cup {None},
           Sync!Goes(d, i, step, remote), UNCHANGED <<local, open, ready, screen, drawn, drewSince>>,
           hasty' = (hasty \/ i # 1), server' \in Answers, server.at <= server'.at,
           server' = server \/ step = "pushed",
           server'.shapes = server.shapes \/ drawn[d] # {},
           CallInv(calls'[d][i], server'.at), OnlyLooks(calls[d][i]) => OnlyLooks(calls'[d][i]),
           ~hasty /\ Sole(d) /\ LastKeeps(calls[d][i], drawn[d], server.shapes)
               => LastKeeps(calls'[d][i], drawn[d], server'.shapes)
    PROVE  SyncInv'
<1>1. /\ calls' \in [Devices -> Seq(Calls)]
      /\ \A e \in Devices \ {d} : calls'[e] = calls[e]
      /\ Len(calls'[d]) = Len(calls[d])
      /\ \A j \in 1..Len(calls[d]) : j # i => calls'[d][j] = calls[d][j]
      /\ calls'[d][i].copy = calls[d][i].copy /\ calls'[d][i].load = calls[d][i].load
  BY GoesIs DEF SyncInv
<1>2. SyncTyped /\ Disjoint /\ CallsInv(d) /\ hasty \in BOOLEAN
  BY DEF SyncInv, SyncTyped, DeviceInv
<1>3. SyncTyped' /\ Disjoint'
  BY <1>1, <1>2 DEF SyncTyped, Disjoint
<1>4. \A e \in Devices \ {d} : DeviceInv(e)'
  BY <1>1, <1>2, OthersStay DEF SyncTyped
<1>5. CallsInv(d)'
  <2>1. ASSUME NEW j \in 1..Len(calls[d]), j # i PROVE CallInv(calls'[d][j], server'.at)
    <3>1. calls'[d][j] = calls[d][j] /\ CallInv(calls[d][j], server.at) /\ calls[d][j] \in Calls
      BY <1>1, <1>2, <2>1 DEF CallsInv, SyncTyped
    <3>2. /\ IsClean(calls[d][j].copy) => calls[d][j].copy.at \in Nat
          /\ calls[d][j].remote \in Answers => calls[d][j].remote.at \in Nat
          /\ server.at \in Nat /\ server'.at \in Nat
      BY <1>2, <3>1 DEF Calls, IsClean, Copies, Answers, SyncTyped
    <3> QED BY <3>1, <3>2 DEF CallInv, IsClean
  <2>2. \A j \in 1..Len(calls'[d]) : CallInv(calls'[d][j], server'.at)
    BY <1>1, <2>1
  <2>3. IsClean(local'[d]) => local'[d].at <= server'.at
    <3>1. /\ IsClean(local[d]) => local[d].at \in Nat
          /\ server.at \in Nat /\ server'.at \in Nat
      BY <1>2 DEF IsClean, Copies, Answers, SyncTyped
    <3> QED BY <1>2, <3>1 DEF CallsInv, IsClean
  <2> QED BY <1>1, <1>2, <2>2, <2>3 DEF CallsInv, IsClean, OnlyLooks
<1>6. ASSUME ~hasty' PROVE Orderly(d)' /\ (Sole(d)' => EditsInv(d)')
  <2>1. Orderly(d) /\ (Sole(d) => EditsInv(d)) /\ i = 1 /\ ~hasty
    BY <1>6 DEF SyncInv, DeviceInv
  <2>2. Orderly(d)'
    BY <1>1, <2>1 DEF Orderly
  <2>3. ASSUME Sole(d)' PROVE EditsInv(d)'
    <3>1. Sole(d) /\ EditsInv(d) /\ calls[d] # <<>> /\ calls'[d] # <<>>
      BY <1>1, <1>2, <2>1, <2>3 DEF Sole, SyncTyped
    <3>2. LastKeeps(LastCall(d), drawn[d], server.shapes)
      BY <3>1 DEF EditsInv
    <3>3. CASE Len(calls[d]) = 1
      BY <1>1, <2>1, <3>1, <3>2, <3>3 DEF EditsInv, LastCall
    <3>4. CASE Len(calls[d]) # 1
      <4> DEFINE n == Len(calls[d])
      <4>1. n \in 1..n /\ n # i /\ n > 1 /\ calls'[d][n] = calls[d][n]
        BY <1>1, <1>2, <2>1, <3>1, <3>4 DEF SyncTyped
      <4>2. calls[d][n].step = "push" /\ calls[d][n].copy.dirty /\ CallInv(calls[d][n], server.at)
        BY <1>2, <2>1, <4>1 DEF Orderly, CallsInv, CallInv
      <4>3. calls[d][n].copy.dirty = TRUE
        BY <1>2, <4>1, <4>2 DEF SyncTyped, Calls, Copies, CallInv
      <4> QED BY <1>1, <3>1, <3>2, <4>1, <4>2, <4>3 DEF EditsInv, LastCall, LastKeeps
    <3> QED BY <3>3, <3>4
  <2> QED BY <2>2, <2>3
<1>7. DeviceInv(d)'
  BY <1>5, <1>6 DEF DeviceInv
<1> QED BY <1>3, <1>4, <1>7 DEF SyncInv

\* A call that ends leaves the browser a copy, and maybe a screen.
LEMMA EndingKeepsInv ==
    ASSUME SyncInv, NEW d \in Devices, NEW i \in 1..Len(calls[d]), Sync!Ends(d, i),
           UNCHANGED <<server, open, drawn, drewSince>>, hasty' = (hasty \/ i # 1),
           NEW copy \in Copies \cup {None}, local' = [local EXCEPT ![d] = copy],
           IsClean(copy) => copy.at <= server.at, drawn[d] = {} => copy = None \/ IsClean(copy),
           local[d] # None => copy # None,
           NEW drawing \in Drawings, screen' = [screen EXCEPT ![d] = drawing],
           NEW flag \in BOOLEAN, ready' = [ready EXCEPT ![d] = flag], flag => open[d],
           ~hasty /\ Orderly(d) /\ Sole(d) /\ EditsInv(d) /\ i = 1 =>
               /\ flag => drawn[d] \subseteq drawing
               /\ Len(calls[d]) = 1 =>
                    drawn[d] \subseteq copy.shapes /\ (copy.dirty \/ drawn[d] \subseteq server.shapes)
    PROVE  SyncInv'
<1> DEFINE n == Len(calls[d])
<1>1. /\ calls' \in [Devices -> Seq(Calls)]
      /\ \A e \in Devices \ {d} : calls'[e] = calls[e]
      /\ Len(calls'[d]) = n - 1
      /\ \A j \in 1..(n - 1) : calls'[d][j] = IF j < i THEN calls[d][j] ELSE calls[d][j + 1]
  BY EndsIs DEF SyncInv
<1>2. SyncTyped /\ Disjoint /\ CallsInv(d) /\ hasty \in BOOLEAN /\ n \in Nat /\ i \in 1..n
  BY DEF SyncInv, SyncTyped, DeviceInv
<1>3. \A j \in 1..(n - 1) : j \in 1..n /\ j + 1 \in 1..n
  BY <1>2
<1>4. SyncTyped' /\ Disjoint'
  BY <1>1, <1>2 DEF SyncTyped, Disjoint
<1>5. /\ local'[d] = copy /\ screen'[d] = drawing /\ ready'[d] = flag
      /\ \A e \in Devices \ {d} : local'[e] = local[e] /\ screen'[e] = screen[e] /\ ready'[e] = ready[e]
  BY <1>2 DEF SyncTyped
<1>6. \A e \in Devices \ {d} : DeviceInv(e)'
  <2>1. server' \in Answers /\ server.at <= server'.at
    BY <1>2 DEF SyncTyped, Answers
  <2> QED BY <1>1, <1>2, <1>5, <2>1, OthersStay
<1> HIDE DEF n
<1>7. \A j \in 1..Len(calls'[d]) : \E k \in 1..n : calls'[d][j] = calls[d][k]
  BY <1>1, <1>3
<1>8. CallsInv(d)'
  <2>1. /\ \A k \in 1..n : CallInv(calls[d][k], server.at)
        /\ ~drewSince[d] \/ drawn[d] = {} => \A k \in 1..n : OnlyLooks(calls[d][k])
    BY <1>2 DEF CallsInv, n
  <2>2. \A j \in 1..Len(calls'[d]) : CallInv(calls'[d][j], server.at)
    BY <1>7, <2>1
  <2>3. ~drewSince[d] \/ drawn[d] = {} => \A j \in 1..Len(calls'[d]) : OnlyLooks(calls'[d][j])
    BY <1>7, <2>1
  <2> QED BY <1>5, <2>2, <2>3 DEF CallsInv, OnlyLooks, IsClean
<1>9. ASSUME ~hasty' PROVE Orderly(d)' /\ (Sole(d)' => EditsInv(d)')
  <2>1. Orderly(d) /\ (Sole(d) => EditsInv(d)) /\ i = 1 /\ ~hasty
    BY <1>9 DEF SyncInv, DeviceInv
  <2>2. \A j \in 1..(n - 1) : calls'[d][j] = calls[d][j + 1] /\ calls'[d][j].step = "push" /\ ~calls'[d][j].load
    <3> SUFFICES ASSUME NEW j \in 1..(n - 1)
                 PROVE  calls'[d][j] = calls[d][j + 1] /\ calls'[d][j].step = "push" /\ ~calls'[d][j].load
      OBVIOUS
    <3>1. ~(j < i) /\ j + 1 > 1 /\ j + 1 \in 1..Len(calls[d])
      BY <1>2, <1>3, <2>1 DEF n
    <3>2. calls[d][j + 1].step = "push" /\ ~calls[d][j + 1].load
      BY <2>1, <3>1 DEF Orderly
    <3> QED BY <1>1, <3>1, <3>2
  <2>3. Orderly(d)'
    BY <1>1, <2>2 DEF Orderly
  <2>4. ASSUME Sole(d)' PROVE EditsInv(d)'
    <3>1. Sole(d) /\ EditsInv(d) /\ calls[d] # <<>>
      BY <1>2, <2>1, <2>4 DEF Sole, SyncTyped, n
    <3>2. /\ flag => drawn[d] \subseteq drawing
          /\ n = 1 => drawn[d] \subseteq copy.shapes /\ (copy.dirty \/ drawn[d] \subseteq server.shapes)
      BY <2>1, <3>1 DEF n
    <3>3. calls'[d] = <<>> => n = 1
      BY <1>1, <1>2, <2>1
    <3>4. ASSUME calls'[d] # <<>> PROVE LastKeeps(calls'[d][n - 1], drawn[d], server.shapes)
      <4>1. n - 1 \in 1..(n - 1) /\ n - 1 + 1 = n /\ n \in 1..n /\ n > 1
        BY <1>1, <1>2, <3>4 DEF SyncTyped
      <4>2. calls'[d][n - 1] = calls[d][n]
        BY <2>2, <4>1
      <4>3. calls[d][n].step = "push" /\ LastKeeps(calls[d][n], drawn[d], server.shapes) /\ CallInv(calls[d][n], server.at)
        BY <1>2, <2>1, <3>1, <4>1 DEF Orderly, EditsInv, LastCall, CallsInv, n
      <4>4. calls[d][n].copy.dirty
        BY <4>3 DEF CallInv
      <4> QED BY <4>2, <4>3, <4>4 DEF LastKeeps
    <3> QED BY <1>1, <1>5, <3>1, <3>2, <3>3, <3>4 DEF EditsInv, LastCall
  <2> QED BY <2>3, <2>4
<1>10. DeviceInv(d)'
  BY <1>8, <1>9 DEF DeviceInv
<1> QED BY <1>4, <1>6, <1>10 DEF SyncInv

\* A call that is under way.
LEMMA AboutACall ==
    ASSUME SyncInv, NEW d \in Devices, NEW i \in 1..Len(calls[d])
    PROVE  LET c == calls[d][i] IN
           /\ c \in Calls /\ CallInv(c, server.at) /\ server \in Answers /\ server.at \in Nat /\ server.shapes \in Drawings
           /\ drawn[d] = {} => OnlyLooks(c)
           /\ c.copy # None => c.copy \in Copies /\ c.copy.shapes \in Drawings /\ c.copy.at \in Nat /\ c.copy.dirty \in BOOLEAN
           /\ c.remote \in Answers => c.remote.shapes \in Drawings /\ c.remote.at \in Nat
           /\ local[d] \in Copies \cup {None} /\ screen[d] \in Drawings /\ ready[d] \in BOOLEAN /\ open[d] \in BOOLEAN
           /\ IsClean(local[d]) => local[d].at <= server.at
           /\ drawn[d] = {} => local[d] = None \/ IsClean(local[d])
           /\ ready[d] => open[d]
           /\ ~hasty /\ Orderly(d) /\ Sole(d) /\ EditsInv(d) /\ i = 1 =>
                /\ local[d] # None
                /\ c.load => c.copy = local[d] /\ Len(calls[d]) = 1
                /\ ready[d] => drawn[d] \subseteq screen[d]
                /\ Len(calls[d]) = 1 => LastKeeps(c, drawn[d], server.shapes)
<1> DEFINE c == calls[d][i]
<1>1. c \in Calls /\ calls[d] # <<>> /\ Len(calls[d]) \in Nat
  BY DEF SyncInv, SyncTyped
<1>2. /\ IsClean(local[d]) => local[d].at <= server.at
      /\ drawn[d] = {} => local[d] = None \/ IsClean(local[d])
      /\ ready[d] => open[d]
  BY DEF SyncInv, DeviceInv, CallsInv
<1>3. /\ server \in Answers /\ server.at \in Nat /\ server.shapes \in Drawings
      /\ local[d] \in Copies \cup {None} /\ screen[d] \in Drawings /\ ready[d] \in BOOLEAN /\ open[d] \in BOOLEAN
  BY DEF SyncInv, SyncTyped, Answers
<1>4. /\ c.copy # None => c.copy \in Copies /\ c.copy.shapes \in Drawings /\ c.copy.at \in Nat /\ c.copy.dirty \in BOOLEAN
      /\ c.remote \in Answers => c.remote.shapes \in Drawings /\ c.remote.at \in Nat
  BY <1>1 DEF Calls, Copies, Answers
<1>5. ~hasty /\ Orderly(d) /\ Sole(d) /\ EditsInv(d) /\ i = 1 =>
          /\ local[d] # None
          /\ c.load => c.copy = local[d] /\ Len(calls[d]) = 1
          /\ ready[d] => drawn[d] \subseteq screen[d]
          /\ Len(calls[d]) = 1 => LastKeeps(c, drawn[d], server.shapes)
  BY <1>1 DEF Orderly, EditsInv, LastCall
<1>6. CallInv(c, server.at) /\ (drawn[d] = {} => OnlyLooks(c))
  BY DEF SyncInv, DeviceInv, CallsInv
<1> QED BY <1>1, <1>2, <1>3, <1>4, <1>5, <1>6

\* The server is asked: what a clean copy is compared with is no older than it.
LEMMA FetchKeepsInv ==
    ASSUME SyncInv, NEW d \in Devices, NEW i \in 1..Len(calls[d]), Sync!Fetch(d, i)
    PROVE  SyncInv'
<1> DEFINE c == calls[d][i]
<1>1. /\ c.step = "get" /\ Sync!Goes(d, i, "got", server) /\ hasty' = (hasty \/ i # 1)
      /\ UNCHANGED <<server, local, open, ready, screen, drawn, drewSince>>
  BY DEF Sync!Fetch, Sync!InOrder
<1>2. /\ c \in Calls /\ CallInv(c, server.at) /\ server \in Answers /\ server.at \in Nat
      /\ c.copy # None => c.copy.dirty \in BOOLEAN
  BY AboutACall
<1>3. /\ calls'[d][i].step = "got" /\ calls'[d][i].remote = server
      /\ calls'[d][i].copy = c.copy /\ calls'[d][i].load = c.load
  BY <1>1, <1>2, GoesIs DEF SyncInv, Steps
<1>4. OnlyLooks(c) => OnlyLooks(calls'[d][i])
  BY <1>1, <1>2, <1>3 DEF CallInv, OnlyLooks, IsClean
<1>5. CallInv(calls'[d][i], server'.at)
  BY <1>1, <1>2, <1>3 DEF CallInv, OnlyLooks, IsClean
<1>6. LastKeeps(c, drawn[d], server.shapes) => LastKeeps(calls'[d][i], drawn[d], server'.shapes)
  BY <1>1, <1>3 DEF LastKeeps
<1> HIDE DEF c
<1> QED BY <1>1, <1>2, <1>4, <1>5, <1>6, GoingKeepsInv DEF Steps, c

\* A push reaches the server: only a browser that has drawn has one.
LEMMA ApplyKeepsInv ==
    ASSUME SyncInv, NEW d \in Devices, NEW i \in 1..Len(calls[d]), Sync!Apply(d, i)
    PROVE  SyncInv'
<1> DEFINE c == calls[d][i]
<1>1. /\ c.step = "push" /\ server' = [shapes |-> c.copy.shapes, at |-> server.at + 1]
      /\ Sync!Goes(d, i, "pushed", server') /\ hasty' = (hasty \/ i # 1)
      /\ UNCHANGED <<local, open, ready, screen, drawn, drewSince>>
  BY DEF Sync!Apply, Sync!InOrder
<1>2. /\ c \in Calls /\ CallInv(c, server.at) /\ server \in Answers /\ server.at \in Nat
      /\ c.copy # None => c.copy.shapes \in Drawings /\ c.copy.dirty \in BOOLEAN
      /\ drawn[d] = {} => OnlyLooks(c)
  BY AboutACall
<1>3. c.copy # None /\ c.copy.dirty /\ ~OnlyLooks(c) /\ drawn[d] # {}
  BY <1>1, <1>2 DEF CallInv, OnlyLooks
<1>4. server' \in Answers /\ server'.at = server.at + 1 /\ server'.shapes = c.copy.shapes /\ server.at <= server'.at
  BY <1>1, <1>2, <1>3 DEF Answers
<1>5. /\ calls'[d][i].step = "pushed" /\ calls'[d][i].remote = server'
      /\ calls'[d][i].copy = c.copy /\ calls'[d][i].load = c.load
  BY <1>1, <1>4, GoesIs DEF SyncInv, Steps
<1>6. CallInv(calls'[d][i], server'.at)
  BY <1>2, <1>3, <1>4, <1>5 DEF CallInv, IsClean
<1>7. LastKeeps(c, drawn[d], server.shapes) => LastKeeps(calls'[d][i], drawn[d], server'.shapes)
  BY <1>3, <1>4, <1>5 DEF LastKeeps
<1> HIDE DEF c
<1> QED BY <1>1, <1>3, <1>4, <1>6, <1>7, GoingKeepsInv DEF Steps, c

\* The answer: a copy that is not dirty is the server's of some earlier save.
LEMMA DecideKeepsInv ==
    ASSUME SyncInv, NEW d \in Devices, NEW i \in 1..Len(calls[d]), Sync!Decide(d, i)
    PROVE  SyncInv'
<1> DEFINE c == calls[d][i]
<1>1. /\ c.step = "got" /\ hasty' = (hasty \/ i # 1) /\ UNCHANGED <<server, open, drawn, drewSince>>
      /\ IF Sync!Pushes(c.copy, c.remote)
         THEN Sync!Goes(d, i, "push", None) /\ UNCHANGED <<local, screen, ready>>
         ELSE /\ local' = [local EXCEPT ![d] = Sync!Taken(d, c.copy, c.remote)]
              /\ Sync!Resolve(d, c.remote.shapes) /\ Sync!Ends(d, i)
  BY DEF Sync!Decide, Sync!InOrder
<1>2. /\ c \in Calls /\ CallInv(c, server.at) /\ server \in Answers /\ server.at \in Nat
      /\ c.copy # None => c.copy \in Copies /\ c.copy.at \in Nat /\ c.copy.dirty \in BOOLEAN
      /\ c.remote \in Answers => c.remote.shapes \in Drawings /\ c.remote.at \in Nat
      /\ local[d] \in Copies \cup {None} /\ screen[d] \in Drawings /\ open[d] \in BOOLEAN
      /\ IsClean(local[d]) => local[d].at <= server.at
      /\ drawn[d] = {} => local[d] = None \/ IsClean(local[d])
      /\ ~hasty /\ Orderly(d) /\ Sole(d) /\ EditsInv(d) /\ i = 1 =>
                /\ local[d] # None
                /\ c.load => c.copy = local[d] /\ Len(calls[d]) = 1
                /\ Len(calls[d]) = 1 => LastKeeps(c, drawn[d], server.shapes)
  BY AboutACall
<1>3. c.load /\ c.remote \in Answers /\ c.remote.at <= server.at /\ (IsClean(c.copy) => c.copy.at <= c.remote.at)
  BY <1>1, <1>2 DEF CallInv
<1>4. Sync!Pushes(c.copy, c.remote) <=> c.copy # None /\ c.copy.dirty
  BY <1>2, <1>3 DEF Sync!Pushes, IsClean
<1> HIDE DEF c
<1>5. CASE Sync!Pushes(c.copy, c.remote)
  <2>1. Sync!Goes(d, i, "push", None) /\ UNCHANGED <<local, screen, ready>>
    BY <1>1, <1>5
  <2>2. /\ calls'[d][i].step = "push" /\ calls'[d][i].remote = None
        /\ calls'[d][i].copy = c.copy /\ calls'[d][i].load = c.load
    BY <2>1, GoesIs DEF SyncInv, Steps, c
  <2>3. CallInv(calls'[d][i], server'.at) /\ ~OnlyLooks(c)
    BY <1>1, <1>2, <1>4, <1>5, <2>2 DEF CallInv, OnlyLooks, IsClean
  <2>4. LastKeeps(c, drawn[d], server.shapes) => LastKeeps(calls'[d][i], drawn[d], server'.shapes)
    BY <1>1, <1>4, <1>5, <2>2 DEF LastKeeps
  <2> QED BY <1>1, <1>2, <2>1, <2>3, <2>4, GoingKeepsInv DEF Steps, c
<1>6. CASE ~Sync!Pushes(c.copy, c.remote)
  <2> DEFINE copy    == Sync!Taken(d, c.copy, c.remote)
             drawing == IF open[d] THEN c.remote.shapes ELSE screen[d]
  <2>1. /\ local' = [local EXCEPT ![d] = copy] /\ Sync!Ends(d, i)
        /\ screen' = [screen EXCEPT ![d] = drawing] /\ ready' = [ready EXCEPT ![d] = open[d]]
    BY <1>1, <1>6 DEF Sync!Resolve
  <2>2. c.copy # None => /\ copy \in Copies /\ copy.at = c.remote.at /\ copy.shapes = c.remote.shapes
                         /\ copy.dirty = FALSE
    BY <1>2, <1>3 DEF Sync!Taken, Sync!Clean, Copies
  <2>3. c.copy = None => copy = local[d]
    BY DEF Sync!Taken
  <2> HIDE DEF copy
  <2>4. copy \in Copies \cup {None} /\ drawing \in Drawings
    BY <1>2, <1>3, <2>2, <2>3
  <2>5. (IsClean(copy) => copy.at <= server.at) /\ (drawn[d] = {} => copy = None \/ IsClean(copy))
    BY <1>2, <1>3, <2>2, <2>3 DEF IsClean
  <2>6. local[d] # None => copy # None
    BY <2>2, <2>3, ChartAssumption DEF Copies, Drawings
  <2>7. ~hasty /\ Orderly(d) /\ Sole(d) /\ EditsInv(d) /\ i = 1 =>
            /\ open[d] => drawn[d] \subseteq drawing
            /\ drawn[d] \subseteq copy.shapes /\ drawn[d] \subseteq server.shapes
    <3> SUFFICES ASSUME ~hasty, Orderly(d), Sole(d), EditsInv(d), i = 1
                 PROVE  drawn[d] \subseteq c.remote.shapes /\ drawn[d] \subseteq server.shapes /\ c.copy # None
      BY <2>2
    <3> QED BY <1>1, <1>2, <1>3, <1>4, <1>6 DEF LastKeeps
  <2> HIDE DEF drawing
  <2> QED BY <1>1, <1>2, <2>1, <2>4, <2>5, <2>6, <2>7, EndingKeepsInv
<1> QED BY <1>5, <1>6

\* A push ends, or is lost: what was pushed is the copy again.
LEMMA PushEndKeepsInv ==
    ASSUME SyncInv, NEW d \in Devices, NEW i \in 1..Len(calls[d]), Sync!Saved(d, i) \/ Sync!SaveFails(d, i)
    PROVE  SyncInv'
<1> DEFINE c == calls[d][i]
           copy == IF Sync!Saved(d, i) THEN Sync!Clean(c.copy.shapes, c.remote.at) ELSE Sync!Failed(c.copy.shapes)
           drawing == IF c.load /\ open[d] THEN c.copy.shapes ELSE screen[d]
           flag    == IF c.load THEN open[d] ELSE ready[d]
<1>1. c.step \in {"push", "pushed"} /\ (Sync!Saved(d, i) => c.step = "pushed") /\ Sync!PushEnds(d, i, copy)
  BY DEF Sync!Saved, Sync!SaveFails
<1>2. /\ c \in Calls /\ CallInv(c, server.at) /\ server \in Answers /\ server.at \in Nat
      /\ drawn[d] = {} => OnlyLooks(c)
      /\ c.copy # None => c.copy \in Copies /\ c.copy.shapes \in Drawings
      /\ c.remote \in Answers => c.remote.at \in Nat
      /\ screen[d] \in Drawings /\ open[d] \in BOOLEAN /\ ready[d] \in BOOLEAN
      /\ ready[d] => open[d]
      /\ ~hasty /\ Orderly(d) /\ Sole(d) /\ EditsInv(d) /\ i = 1 =>
                /\ c.load => c.copy = local[d] /\ Len(calls[d]) = 1
                /\ ready[d] => drawn[d] \subseteq screen[d]
                /\ Len(calls[d]) = 1 => LastKeeps(c, drawn[d], server.shapes)
  BY AboutACall
<1>3. /\ c.copy # None /\ c.copy.dirty /\ c.copy.shapes \in Drawings /\ c.load \in BOOLEAN
      /\ c.step = "pushed" => c.remote \in Answers /\ c.remote.at \in Nat /\ c.remote.at <= server.at
  BY <1>1, <1>2 DEF CallInv, Calls
<1>4. drawn[d] # {}
  BY <1>1, <1>2 DEF OnlyLooks
<1>5. /\ copy \in Copies /\ copy.shapes = c.copy.shapes
      /\ Sync!Saved(d, i) => copy.at = c.remote.at /\ copy.dirty = FALSE
      /\ ~Sync!Saved(d, i) => copy.dirty = TRUE
  BY <1>1, <1>3 DEF Sync!Clean, Sync!Failed, Sync!Dirty, Copies
<1>6. /\ local' = [local EXCEPT ![d] = copy] /\ Sync!Ends(d, i)
      /\ hasty' = (hasty \/ i # 1) /\ UNCHANGED <<server, open, drawn, drewSince>>
      /\ IF c.load THEN Sync!Resolve(d, copy.shapes) ELSE UNCHANGED <<screen, ready>>
  BY <1>1 DEF Sync!PushEnds, Sync!InOrder
<1> HIDE DEF copy, c
<1>7. screen' = [screen EXCEPT ![d] = drawing] /\ ready' = [ready EXCEPT ![d] = flag]
  <2>1. CASE c.load
    BY <1>5, <1>6, <2>1 DEF Sync!Resolve
  <2>2. CASE ~c.load
    BY <1>6, <2>2 DEF SyncInv, SyncTyped
  <2> QED BY <2>1, <2>2
<1>8. drawing \in Drawings /\ flag \in BOOLEAN /\ (flag => open[d])
  BY <1>2, <1>3 DEF c
<1>9. ~hasty /\ Orderly(d) /\ Sole(d) /\ EditsInv(d) /\ i = 1 =>
          /\ flag => drawn[d] \subseteq drawing
          /\ Len(calls[d]) = 1 => drawn[d] \subseteq copy.shapes /\ (copy.dirty \/ drawn[d] \subseteq server.shapes)
  BY <1>1, <1>2, <1>3, <1>5 DEF LastKeeps
<1>10. (IsClean(copy) => copy.at <= server.at) /\ copy # None
  BY <1>1, <1>3, <1>5, ChartAssumption DEF IsClean, Copies, Drawings
<1> HIDE DEF drawing, flag
<1> QED BY <1>4, <1>5, <1>6, <1>7, <1>8, <1>9, <1>10, EndingKeepsInv

\* The server is not reached: the screen shows the copy, which stays.
LEMMA FetchFailKeepsInv ==
    ASSUME SyncInv, NEW d \in Devices, NEW i \in 1..Len(calls[d]), Sync!FetchFails(d, i)
    PROVE  SyncInv'
<1> DEFINE c == calls[d][i]
           found == IF c.copy = None THEN {} ELSE c.copy.shapes
           drawing == IF open[d] THEN found ELSE screen[d]
<1>1. /\ c.step \in {"get", "got"} /\ Sync!Resolve(d, found) /\ Sync!Ends(d, i) /\ hasty' = (hasty \/ i # 1)
      /\ UNCHANGED <<server, local, open, drawn, drewSince>>
  BY DEF Sync!FetchFails, Sync!InOrder
<1>2. /\ c \in Calls /\ CallInv(c, server.at)
      /\ c.copy # None => c.copy \in Copies /\ c.copy.shapes \in Drawings
      /\ local[d] \in Copies \cup {None} /\ screen[d] \in Drawings /\ open[d] \in BOOLEAN
      /\ IsClean(local[d]) => local[d].at <= server.at
      /\ drawn[d] = {} => local[d] = None \/ IsClean(local[d])
      /\ ~hasty /\ Orderly(d) /\ Sole(d) /\ EditsInv(d) /\ i = 1 =>
                /\ local[d] # None
                /\ c.load => c.copy = local[d] /\ Len(calls[d]) = 1
                /\ Len(calls[d]) = 1 => LastKeeps(c, drawn[d], server.shapes)
  BY AboutACall
<1>3. c.load
  BY <1>1, <1>2 DEF CallInv
<1>4. /\ screen' = [screen EXCEPT ![d] = drawing] /\ ready' = [ready EXCEPT ![d] = open[d]]
      /\ local' = [local EXCEPT ![d] = local[d]]
  BY <1>1 DEF Sync!Resolve, SyncInv, SyncTyped
<1>5. drawing \in Drawings
  BY <1>2 DEF Drawings
<1>6. ~hasty /\ Orderly(d) /\ Sole(d) /\ EditsInv(d) /\ i = 1 =>
          /\ open[d] => drawn[d] \subseteq drawing
          /\ drawn[d] \subseteq local[d].shapes /\ (local[d].dirty \/ drawn[d] \subseteq server.shapes)
  BY <1>2, <1>3 DEF LastKeeps
<1> HIDE DEF drawing, found, c
<1> QED BY <1>1, <1>2, <1>4, <1>5, <1>6, EndingKeepsInv

\* A chart is opened: the copy that is loaded has what the browser drew.
LEMMA OpenKeepsInv ==
    ASSUME SyncInv, NEW d \in Devices, Sync!Open(d)
    PROVE  SyncInv'
<1> DEFINE c == Sync!Call("get", local[d])
           n == Len(calls[d])
<1>1. /\ ~open[d] /\ open' = [open EXCEPT ![d] = TRUE] /\ calls' = [calls EXCEPT ![d] = Append(calls[d], c)]
      /\ drewSince' = [drewSince EXCEPT ![d] = calls[d] # <<>> \/ (local[d] # None /\ local[d].dirty)]
      /\ hasty' = (hasty \/ calls[d] # <<>>) /\ UNCHANGED <<server, local, ready, screen, drawn>>
  BY DEF Sync!Open
<1>2. /\ SyncTyped /\ Disjoint /\ CallsInv(d) /\ hasty \in BOOLEAN /\ n \in Nat /\ calls[d] \in Seq(Calls)
      /\ local[d] \in Copies \cup {None} /\ ready[d] \in BOOLEAN
  BY DEF SyncInv, SyncTyped, DeviceInv
<1>3. local[d] # None => local[d].dirty \in BOOLEAN
  BY <1>2 DEF Copies
<1>4. c \in Calls /\ c.step = "get" /\ c.copy = local[d] /\ c.load = TRUE
  BY <1>2 DEF Sync!Call, Calls, Steps
<1> HIDE DEF c
<1>5. /\ calls' \in [Devices -> Seq(Calls)] /\ Len(calls'[d]) = n + 1 /\ calls'[d][n + 1] = c
      /\ \A i \in 1..n : calls'[d][i] = calls[d][i]
      /\ \A e \in Devices \ {d} : calls'[e] = calls[e]
  <2>1. Append(calls[d], c) \in Seq(Calls)
    BY <1>2, <1>4
  <2>2. calls'[d] = Append(calls[d], c) /\ \A e \in Devices \ {d} : calls'[e] = calls[e]
    BY <1>1, <1>2 DEF SyncTyped
  <2> QED BY <1>1, <1>2, <2>1, <2>2 DEF SyncTyped
<1>6. /\ open'[d] = TRUE /\ drewSince'[d] = (calls[d] # <<>> \/ (local[d] # None /\ local[d].dirty))
      /\ \A e \in Devices \ {d} : open'[e] = open[e] /\ drewSince'[e] = drewSince[e]
  BY <1>1, <1>2 DEF SyncTyped
<1>7. SyncTyped' /\ Disjoint'
  <2>1. (calls[d] # <<>> \/ (local[d] # None /\ local[d].dirty)) \in BOOLEAN
    OBVIOUS
  <2> QED BY <1>1, <1>2, <1>5, <2>1 DEF SyncTyped, Disjoint
<1>8. \A e \in Devices \ {d} : DeviceInv(e)'
  <2>1. server' \in Answers /\ server.at <= server'.at
    BY <1>1, <1>2 DEF SyncTyped, Answers
  <2> QED BY <1>1, <1>2, <1>5, <1>6, <2>1, OthersStay
<1>9. CallsInv(d)'
  <2>1. \A i \in 1..n : CallInv(calls[d][i], server.at)
    BY <1>2 DEF CallsInv
  <2>2. CallInv(c, server.at)
    BY <1>2, <1>4 DEF CallsInv, CallInv, IsClean
  <2>3. \A i \in 1..Len(calls'[d]) : i = n + 1 \/ i \in 1..n
    BY <1>2, <1>5
  <2>4. \A i \in 1..Len(calls'[d]) : CallInv(calls'[d][i], server.at)
    BY <1>5, <2>1, <2>2, <2>3
  <2>5. ASSUME ~drewSince'[d] \/ drawn[d] = {} PROVE \A i \in 1..Len(calls'[d]) : OnlyLooks(calls'[d][i])
    <3>1. OnlyLooks(c)
      BY <1>2, <1>4, <1>6, <2>5 DEF CallsInv, OnlyLooks, IsClean
    <3>2. \A i \in 1..n : OnlyLooks(calls[d][i])
      <4>1. CASE drawn[d] = {}
        BY <1>2, <4>1 DEF CallsInv
      <4>2. CASE ~drewSince'[d]
        <5>1. calls[d] = <<>>
          BY <1>6, <4>2
        <5>2. 1..n = {}
          BY <5>1
        <5> QED BY <5>2
      <4> QED BY <2>5, <4>1, <4>2
    <3> QED BY <1>5, <2>3, <3>1, <3>2
  <2>6. ready'[d] => open'[d]
    BY <1>6
  <2> QED BY <1>1, <1>2, <2>4, <2>5, <2>6 DEF CallsInv, OnlyLooks, IsClean
<1>10. ASSUME ~hasty' PROVE Orderly(d)' /\ (Sole(d)' => EditsInv(d)')
  <2>1. Orderly(d) /\ (Sole(d) => EditsInv(d)) /\ calls[d] = <<>> /\ n = 0 /\ ~ready[d]
    BY <1>1, <1>2, <1>10 DEF SyncInv, DeviceInv, CallsInv
  <2>2. Len(calls'[d]) = 1 /\ calls'[d][1] = c
    BY <1>5, <2>1
  <2>3. Orderly(d)'
    <3>1. \A i \in 1..Len(calls'[d]) : i = 1
      BY <2>2
    <3> QED BY <1>1, <1>4, <2>1, <2>2, <3>1 DEF Orderly
  <2>4. ASSUME Sole(d)' PROVE EditsInv(d)'
    <3>1. Sole(d)
      BY <1>1, <2>4 DEF Sole
    <3>2. /\ local[d] # None /\ drawn[d] \subseteq local[d].shapes
          /\ local[d].dirty \/ drawn[d] \subseteq server.shapes
      BY <2>1, <3>1 DEF EditsInv
    <3>3. LastKeeps(c, drawn[d], server.shapes)
      BY <1>4, <3>2 DEF LastKeeps
    <3>4. calls'[d] # <<>>
      BY <2>2
    <3> QED BY <1>1, <2>1, <2>2, <3>2, <3>3, <3>4 DEF EditsInv, LastCall
  <2> QED BY <2>3, <2>4
<1>11. DeviceInv(d)'
  BY <1>9, <1>10 DEF DeviceInv
<1> QED BY <1>7, <1>8, <1>11 DEF SyncInv

\* A chart is left: its calls and its copy stay.
LEMMA CloseKeepsInv ==
    ASSUME SyncInv, NEW d \in Devices, Sync!Close(d)
    PROVE  SyncInv'
<1>1. /\ open' = [open EXCEPT ![d] = FALSE] /\ ready' = [ready EXCEPT ![d] = FALSE]
      /\ screen' = [screen EXCEPT ![d] = {}] /\ UNCHANGED <<server, local, calls, drawn, drewSince, hasty>>
  BY DEF Sync!Close, Sync!histories
<1>2. SyncTyped /\ Disjoint /\ DeviceInv(d) /\ hasty \in BOOLEAN
  BY DEF SyncInv, SyncTyped
<1>3. /\ open'[d] = FALSE /\ ready'[d] = FALSE
      /\ \A e \in Devices \ {d} : open'[e] = open[e] /\ ready'[e] = ready[e] /\ screen'[e] = screen[e]
  BY <1>1, <1>2 DEF SyncTyped
<1>4. SyncTyped' /\ Disjoint'
  <2>1. {} \in Drawings
    BY DEF Drawings
  <2> QED BY <1>1, <1>2, <2>1 DEF SyncTyped, Disjoint
<1>5. \A e \in Devices \ {d} : DeviceInv(e)'
  <2>1. server' \in Answers /\ server.at <= server'.at
    BY <1>1, <1>2 DEF SyncTyped, Answers
  <2> QED BY <1>1, <1>2, <1>3, <2>1, OthersStay
<1>6. CallsInv(d)'
  BY <1>1, <1>2, <1>3 DEF DeviceInv, CallsInv, OnlyLooks, IsClean
<1>7. ~hasty => Orderly(d)' /\ (Sole(d)' => EditsInv(d)')
  BY <1>1, <1>2, <1>3 DEF DeviceInv, Orderly, Sole, EditsInv, LastCall, LastKeeps
<1> QED BY <1>1, <1>4, <1>5, <1>6, <1>7 DEF SyncInv, DeviceInv

\* An edit is in the last call, and nobody else has drawn it.
LEMMA EditKeepsInv ==
    ASSUME SyncInv, NEW d \in Devices, Sync!Edit(d)
    PROVE  SyncInv'
<1> DEFINE new     == CHOOSE k \in Sync!Undrawn : TRUE
           drawing == screen[d] \cup {new}
           copy    == Sync!Dirty(drawing)
           c       == Sync!Call("push", copy)
           n       == Len(calls[d])
<1>1. /\ open[d] /\ new \in Sync!Undrawn /\ screen' = [screen EXCEPT ![d] = drawing]
      /\ local' = [local EXCEPT ![d] = copy] /\ calls' = [calls EXCEPT ![d] = Append(calls[d], c)]
      /\ drawn' = [drawn EXCEPT ![d] = drawn[d] \cup {new}] /\ drewSince' = [drewSince EXCEPT ![d] = TRUE]
      /\ hasty' = (hasty \/ ~ready[d]) /\ UNCHANGED <<server, open, ready>>
  BY DEF Sync!Edit
<1> HIDE DEF new
<1>2. new \in 1..MaxShapes /\ \A e \in Devices : new \notin drawn[e]
  BY <1>1 DEF Sync!Undrawn, Sync!AllDrawn
<1>3. /\ SyncTyped /\ Disjoint /\ CallsInv(d) /\ hasty \in BOOLEAN /\ n \in Nat /\ calls[d] \in Seq(Calls)
      /\ ready[d] \in BOOLEAN /\ screen[d] \in Drawings
  BY DEF SyncInv, SyncTyped, DeviceInv
<1>4. drawing \in Drawings /\ drawn[d] \cup {new} \in Drawings
  BY <1>2, <1>3 DEF Drawings, SyncTyped
<1> HIDE DEF drawing
<1>5. copy \in Copies /\ copy.shapes = drawing /\ copy.dirty = TRUE /\ copy # None
  <2>1. copy \in Copies /\ copy.shapes = drawing /\ copy.dirty = TRUE
    BY <1>4 DEF Sync!Dirty, Copies
  <2>2. None \notin Copies
    BY ChartAssumption DEF Copies, Drawings
  <2> HIDE DEF copy
  <2> QED BY <2>1, <2>2
<1> HIDE DEF copy
<1>6. c \in Calls /\ c.step = "push" /\ c.copy = copy /\ c.load = FALSE
  BY <1>5 DEF Sync!Call, Calls, Steps
<1> HIDE DEF c
<1>7. /\ calls' \in [Devices -> Seq(Calls)] /\ Len(calls'[d]) = n + 1 /\ calls'[d][n + 1] = c
      /\ \A i \in 1..n : calls'[d][i] = calls[d][i]
      /\ \A e \in Devices \ {d} : calls'[e] = calls[e]
  <2>1. Append(calls[d], c) \in Seq(Calls)
    BY <1>3, <1>6
  <2>2. calls'[d] = Append(calls[d], c) /\ \A e \in Devices \ {d} : calls'[e] = calls[e]
    BY <1>1, <1>3 DEF SyncTyped
  <2> QED BY <1>1, <1>3, <2>1, <2>2 DEF SyncTyped
<1>8. /\ screen'[d] = drawing /\ local'[d] = copy /\ drawn'[d] = drawn[d] \cup {new} /\ drewSince'[d] = TRUE
      /\ \A e \in Devices \ {d} : /\ screen'[e] = screen[e] /\ local'[e] = local[e] /\ drawn'[e] = drawn[e]
                                  /\ drewSince'[e] = drewSince[e]
  BY <1>1, <1>3 DEF SyncTyped
<1>9. SyncTyped'
  BY <1>1, <1>3, <1>4, <1>5, <1>7 DEF SyncTyped
<1>10. Disjoint'
  BY <1>2, <1>3, <1>8 DEF Disjoint
<1>11. \A e \in Devices \ {d} : DeviceInv(e)'
  <2>1. server' \in Answers /\ server.at <= server'.at
    BY <1>1, <1>3 DEF SyncTyped, Answers
  <2> QED BY <1>1, <1>3, <1>7, <1>8, <2>1, OthersStay
<1>12. \A i \in 1..Len(calls'[d]) : i = n + 1 \/ i \in 1..n
  BY <1>3, <1>7
<1>13. CallsInv(d)'
  <2>1. CallInv(c, server.at)
    BY <1>5, <1>6 DEF CallInv, IsClean
  <2>2. \A i \in 1..Len(calls'[d]) : CallInv(calls'[d][i], server.at)
    BY <1>3, <1>7, <1>12, <2>1 DEF CallsInv
  <2> QED BY <1>1, <1>5, <1>8, <2>2 DEF CallsInv, IsClean
<1>14. ASSUME ~hasty' PROVE Orderly(d)' /\ (Sole(d)' => EditsInv(d)')
  <2>1. Orderly(d) /\ (Sole(d) => EditsInv(d)) /\ ready[d]
    BY <1>1, <1>14 DEF SyncInv, DeviceInv
  <2>2. \A i \in 1..n : ~calls[d][i].load
    BY <2>1 DEF Orderly
  <2>3. Orderly(d)'
    <3> SUFFICES ASSUME NEW i \in 1..Len(calls'[d])
                 PROVE  ~calls'[d][i].load /\ (i > 1 => calls'[d][i].step = "push")
      BY DEF Orderly
    <3> QED BY <1>6, <1>7, <1>12, <2>1, <2>2 DEF Orderly
  <2>4. ASSUME Sole(d)' PROVE EditsInv(d)'
    <3>1. drawn[d] \subseteq screen[d]
      <4>1. CASE drawn[d] = {}
        BY <4>1
      <4>2. CASE drawn[d] # {}
        BY <1>8, <2>1, <2>4, <4>2 DEF Sole, EditsInv
      <4> QED BY <4>1, <4>2
    <3>2. drawn'[d] \subseteq drawing
      BY <1>8, <3>1 DEF drawing
    <3>3. LastKeeps(c, drawn'[d], server.shapes)
      BY <1>5, <1>6, <3>2 DEF LastKeeps
    <3>4. calls'[d] # <<>> /\ LastCall(d)' = c
      BY <1>3, <1>7 DEF LastCall
    <3> QED BY <1>1, <1>5, <1>8, <3>2, <3>3, <3>4 DEF EditsInv
  <2> QED BY <2>3, <2>4
<1>15. DeviceInv(d)'
  BY <1>13, <1>14 DEF DeviceInv
<1> QED BY <1>9, <1>10, <1>11, <1>15 DEF SyncInv

\* Every step of the browsers, the network and the server.
LEMMA SyncStepKeepsInv ==
    ASSUME SyncInv, Sync!Next
    PROVE  SyncInv'
<1>1. PICK d \in Devices : Sync!Open(d) \/ Sync!Close(d) \/ Sync!Edit(d) \/ Sync!Progress(d)
  BY DEF Sync!Next
<1>2. CASE Sync!Progress(d)
  <2>1. DOMAIN calls[d] = 1..Len(calls[d])
    BY DEF SyncInv, SyncTyped
  <2> QED BY <1>2, <2>1, FetchKeepsInv, DecideKeepsInv, ApplyKeepsInv, PushEndKeepsInv, FetchFailKeepsInv
          DEF Sync!Progress
<1> QED BY <1>1, <1>2, OpenKeepsInv, CloseKeepsInv, EditKeepsInv

\* So what is drawn is kept, and no clean copy is pushed.
LEMMA SyncInvHolds ==
    Spec => [](Sync!EditsSurvive /\ Sync!CleanCacheNeverPushes)
<1>1. Init => SyncInv
  <2> SUFFICES ASSUME Init PROVE SyncInv
    OBVIOUS
  <2>1. /\ server = [shapes |-> {}, at |-> 0]
        /\ \A d \in Devices : /\ local[d] = None /\ open[d] = FALSE /\ ready[d] = FALSE /\ screen[d] = {}
                              /\ calls[d] = <<>> /\ drawn[d] = {} /\ drewSince[d] = FALSE
    BY DEF Init, Sync!Init
  <2>2. SyncTyped
    <3>1. server \in Answers /\ {} \in Drawings
      BY <2>1 DEF Answers, Drawings
    <3>2. <<>> \in Seq(Calls)
      OBVIOUS
    <3> QED BY <3>1, <3>2 DEF Init, Sync!Init, SyncTyped
  <2>3. Disjoint
    BY <2>1 DEF Disjoint
  <2>4. ASSUME NEW d \in Devices PROVE DeviceInv(d)
    <3>1. \A i \in 1..Len(calls[d]) : FALSE
      BY <2>1
    <3>2. CallsInv(d) /\ Orderly(d)
      BY <2>1, <3>1 DEF CallsInv, Orderly, IsClean
    <3> QED BY <2>1, <3>2 DEF DeviceInv, Sole
  <2> QED BY <2>2, <2>3, <2>4 DEF SyncInv
<1>2. SyncInv /\ UNCHANGED syncVars => SyncInv'
  <2> SUFFICES ASSUME SyncInv, UNCHANGED syncVars PROVE SyncInv'
    OBVIOUS
  <2>1. SyncTyped' /\ Disjoint'
    BY DEF syncVars, SyncInv, SyncTyped, Disjoint
  <2>2. ASSUME NEW d \in Devices PROVE DeviceInv(d)'
    <3>1. CallsInv(d)'
      BY DEF syncVars, SyncInv, DeviceInv, CallsInv, OnlyLooks
    <3>2. ~hasty' => Orderly(d)' /\ (Sole(d)' => EditsInv(d)')
      BY DEF syncVars, SyncInv, DeviceInv, Orderly, Sole, EditsInv, LastCall
    <3> QED BY <3>1, <3>2 DEF DeviceInv
  <2> QED BY <2>1, <2>2 DEF SyncInv
<1>3. [Next]_vars => Sync!Next \/ UNCHANGED syncVars
  BY DEF Next, BarsRun, BoardRuns, SyncRuns, vars
<1>4. SyncInv /\ [Next]_vars => SyncInv'
  BY <1>2, <1>3, SyncStepKeepsInv
<1>5. SyncInv => Sync!EditsSurvive
  <2> SUFFICES ASSUME SyncInv, ~hasty, NEW d \in Devices, drawn[d] = Sync!AllDrawn, drawn[d] # {}
               PROVE  /\ open[d] /\ ready[d] => drawn[d] \subseteq screen[d]
                      /\ calls[d] = <<>> => /\ drawn[d] \subseteq local[d].shapes
                                            /\ local[d].dirty \/ drawn[d] \subseteq server.shapes
    BY DEF Sync!EditsSurvive
  <2>1. Sole(d)
    BY DEF SyncInv, Disjoint, Sync!AllDrawn, Sole
  <2> QED BY <2>1 DEF SyncInv, DeviceInv, EditsInv
<1>6. SyncInv => Sync!CleanCacheNeverPushes
  <2> SUFFICES ASSUME SyncInv, NEW d \in Devices, ~drewSince[d], NEW i \in DOMAIN calls[d]
               PROVE  calls[d][i].step \in {"get", "got"}
    BY DEF Sync!CleanCacheNeverPushes
  <2>1. i \in 1..Len(calls[d])
    BY DEF SyncInv, SyncTyped
  <2> QED BY <2>1 DEF SyncInv, DeviceInv, CallsInv, OnlyLooks
<1> QED BY <1>1, <1>4, <1>5, <1>6, PTL DEF Spec

\* useDrawings.js and storage.js: undo and redo walk along the edits, what is on the screen is persisted,
\* what one browser draws is on its screen and, when its calls have ended, in its copy and on the server
\* unless the copy is dirty, and a copy that was clean when the chart opened is not pushed.
THEOREM DrawingsStay == Spec => []DrawingsAreKept
<1> QED BY BoardInvHolds, SyncInvHolds, PTL DEF DrawingsAreKept

\* useDrawings.js: no gesture, style, text, delete or drag changes a locked shape.
THEOREM LocksAreKept == Spec => LockedShapesHold
<1> QED BY BoardInvHolds, PTL
=============================================================================
