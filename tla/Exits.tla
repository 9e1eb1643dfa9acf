-------------------------------- MODULE Exits --------------------------------
(***************************************************************************)
(* The exit rule of one holding: its stop, take-profit and trailing stop,  *)
(* saved and deleted by requests, and the pass of the evaluator that every *)
(* minute compares a live price with it (exits.py).  The pass works on the *)
(* rule it read at its start, waits for a quote, and writes back only to   *)
(* the version it read: the stamp of the last save, in whole seconds.      *)
(*                                                                         *)
(* A stop below the average cost is a price like another.  Pushing a       *)
(* stored alert to e-mail, SMS and Telegram is left out.                   *)
(***************************************************************************)
EXTENDS Naturals, FiniteSets, FiniteSetsExt

CONSTANTS
    Prices,         \* what a share can cost
    Levels,         \* what can be saved, [stop, take_profit, trail, active]: a stop, a take-profit,
                    \* a trail of one step under the high, or several of them
    Puts,           \* requests that save the rule
    None,
    MaxNow,         \* bound: seconds
    MaxMoves,       \* bound: what the market and the portfolio do, and deletes
    MaxFailures     \* bound: passes that a failing quote ends

Kinds == {"stop", "take_profit", "trailing"}

\* A level that is not set.
NoLevel == 0

VARIABLES
    rule,           \* the row of position_rules: [levels, high, fired, version], or None
    alerts,         \* the stored alerts of the rule: their dedup keys, [kind, version]
    held, price, live, now,
    put,            \* [Puts -> the request: [at, levels, price, existing, version]]
    pass,           \* the evaluator: [at, rule, price, todo]
    moves, failures

vars == <<rule, alerts, held, price, live, now, put, pass, moves, failures>>

Unread == [at |-> "idle", levels |-> None, price |-> 0, existing |-> None, version |-> 0]
Idle   == [at |-> "idle", rule |-> None, price |-> 0, todo |-> {}]

Keys == [kind : Kinds, version : 0..MaxNow]

TypeOK ==
    /\ rule # None => rule.levels \in Levels /\ rule.fired \subseteq Kinds /\ rule.version \in 0..MaxNow
    /\ alerts \subseteq Keys
    /\ held \in BOOLEAN /\ price \in Prices /\ live \in BOOLEAN /\ now \in 0..MaxNow
    /\ \A p \in Puts : put[p].at \in {"idle", "checked", "read", "done"}
    /\ pass.at \in {"idle", "quoting", "ratchet", "reread", "firing"} /\ pass.todo \subseteq Kinds
    /\ moves \in 0..MaxMoves /\ failures \in 0..MaxFailures

Init ==
    /\ rule = None /\ alerts = {} /\ held = TRUE /\ price \in Prices /\ live = TRUE /\ now = 0
    /\ put = [p \in Puts |-> Unread] /\ pass = Idle
    /\ moves = 0 /\ failures = 0

(***************************************************************************)
(* The levels.                                                             *)
(***************************************************************************)
\* trail_level, one step under the high.
TrailLevel(high) == high - 1

crossed(levels, high, at) ==
    {k \in Kinds :
        \/ k = "stop" /\ levels.stop # NoLevel /\ at <= levels.stop
        \/ k = "take_profit" /\ levels.take_profit # NoLevel /\ at >= levels.take_profit
        \/ k = "trailing" /\ levels.trail /\ high # 0 /\ at <= TrailLevel(high)}

\* validate_exit_rule: nothing that would fire the moment it is saved.
Valid(levels, at) ==
    /\ levels.stop # NoLevel => levels.stop < at
    /\ levels.take_profit # NoLevel => levels.take_profit > at
    /\ levels.stop # NoLevel \/ levels.take_profit # NoLevel \/ levels.trail

(***************************************************************************)
(* The requests.                                                           *)
(***************************************************************************)
\* put_rule: the holding and the price are read, and the levels checked ...
PutChecks(p, levels) ==
    /\ put[p].at = "idle" /\ held /\ Valid(levels, price)
    /\ put' = [put EXCEPT ![p] = [Unread EXCEPT !.at = "checked", !.levels = levels, !.price = price]]
    /\ UNCHANGED <<rule, alerts, held, price, live, now, pass, moves, failures>>

\* ... then the rule there is, and the clock ...
PutReads(p) ==
    /\ put[p].at = "checked"
    /\ put' = [put EXCEPT ![p].at = "read", ![p].existing = rule, ![p].version = now]
    /\ UNCHANGED <<rule, alerts, held, price, live, now, pass, moves, failures>>

\* A trail that stays on keeps its high; a new one starts at today's price.
HighAfter(r) ==
    IF ~r.levels.trail THEN 0
    ELSE IF r.existing # None /\ r.existing.levels.trail THEN Max({r.existing.high, r.price}) ELSE r.price

\* ... and upsert_position_rule writes: a save re-arms every kind.
PutWrites(p) ==
    LET r == put[p] IN
    /\ r.at = "read"
    /\ rule' = [levels |-> r.levels, high |-> HighAfter(r), fired |-> {}, version |-> r.version]
    /\ put' = [put EXCEPT ![p] = [Unread EXCEPT !.at = "done", !.version = r.version]]
    /\ UNCHANGED <<alerts, held, price, live, now, pass, moves, failures>>

Move == moves < MaxMoves /\ moves' = moves + 1

delete_rule ==
    /\ rule # None /\ Move /\ rule' = None
    /\ UNCHANGED <<alerts, held, price, live, now, put, pass, failures>>

(***************************************************************************)
(* The pass.                                                               *)
(***************************************************************************)
\* run: the active rules on held positions, in a live market; then the quotes are asked for.
PassBegins ==
    /\ pass.at = "idle" /\ rule # None /\ rule.levels.active /\ held /\ live
    /\ pass' = [Idle EXCEPT !.at = "quoting", !.rule = rule]
    /\ UNCHANGED <<rule, alerts, held, price, live, now, put, moves, failures>>

Todo(r, at) == crossed(r.levels, r.high, at) \ r.fired

\* What is left to fire, or the end of the pass.
Firing(r, at) ==
    IF Todo(r, at) = {} THEN Idle ELSE [at |-> "firing", rule |-> r, price |-> at, todo |-> Todo(r, at)]

\* tradable_price: of a market that is live by now.
QuoteArrives ==
    /\ pass.at = "quoting" /\ live
    /\ pass' = IF pass.rule.levels.trail THEN [pass EXCEPT !.at = "ratchet", !.price = price]
               ELSE Firing(pass.rule, price)
    /\ UNCHANGED <<rule, alerts, held, price, live, now, put, moves, failures>>

NoQuote ==
    /\ pass.at = "quoting" /\ pass' = Idle
    /\ \/ ~live /\ UNCHANGED failures
       \/ failures < MaxFailures /\ failures' = failures + 1
    /\ UNCHANGED <<rule, alerts, held, price, live, now, put, moves>>

\* Mutant: the write-back does not look at the version.
SameVersion_anyRule == rule # None

\* The row is still the version the pass read.
SameVersion == rule # None /\ rule.version = pass.rule.version

\* ratchet_trail_high: raised in the version that was read, or the rule is left to the next pass.
Ratchet ==
    /\ pass.at = "ratchet"
    /\ IF SameVersion
       THEN rule' = [rule EXCEPT !.high = Max({rule.high, pass.price})] /\ pass' = [pass EXCEPT !.at = "reread"]
       ELSE UNCHANGED rule /\ pass' = Idle
    /\ UNCHANGED <<alerts, held, price, live, now, put, moves, failures>>

\* The stored high is read back, of whatever version it is now; without a row the pass fails.
Reread ==
    /\ pass.at = "reread"
    /\ pass' = IF rule = None THEN Idle ELSE Firing([pass.rule EXCEPT !.high = rule.high], pass.price)
    /\ UNCHANGED <<rule, alerts, held, price, live, now, put, moves, failures>>

Key(k) == [kind |-> k, version |-> pass.rule.version]

\* fire_rule: in one transaction, against the row as it is now.
MayFire(k) == SameVersion /\ rule.levels.active /\ k \notin rule.fired

Fire(k) ==
    /\ pass.at = "firing" /\ k \in pass.todo
    /\ IF MayFire(k)
       THEN rule' = [rule EXCEPT !.fired = @ \cup {k}] /\ alerts' = alerts \cup {Key(k)}
       ELSE UNCHANGED <<rule, alerts>>
    /\ pass' = IF pass.todo = {k} THEN Idle ELSE [pass EXCEPT !.todo = @ \ {k}]
    /\ UNCHANGED <<held, price, live, now, put, moves, failures>>

(***************************************************************************)
(* The market, the portfolio and the clock.                                *)
(***************************************************************************)
PriceMoves(to) ==
    /\ to # price /\ live /\ Move /\ price' = to
    /\ UNCHANGED <<rule, alerts, held, live, now, put, pass, failures>>

SessionTurns ==
    /\ Move /\ live' = ~live
    /\ UNCHANGED <<rule, alerts, held, price, now, put, pass, failures>>

Trade ==
    /\ Move /\ held' = ~held
    /\ UNCHANGED <<rule, alerts, price, live, now, put, pass, failures>>

Tick ==
    /\ now < MaxNow /\ now' = now + 1
    /\ UNCHANGED <<rule, alerts, held, price, live, put, pass, moves, failures>>

Next ==
    \/ \E p \in Puts : (\E levels \in Levels : PutChecks(p, levels)) \/ PutReads(p) \/ PutWrites(p)
    \/ delete_rule
    \/ PassBegins \/ QuoteArrives \/ NoQuote \/ Ratchet \/ Reread \/ \E k \in Kinds : Fire(k)
    \/ \E to \in Prices : PriceMoves(to)
    \/ SessionTurns \/ Trade \/ Tick

\* The minute job comes round, and what it began it ends.
Thread == PassBegins \/ QuoteArrives \/ Ratchet \/ Reread \/ \E k \in Kinds : Fire(k)

Spec == Init /\ [][Next]_vars /\ WF_vars(Thread)

\* A level that is reached while the rule is watched, told or not.
Reached(k) ==
    /\ rule # None /\ rule.levels.active /\ held /\ live
    /\ k \in crossed(rule.levels, rule.high, price) /\ k \notin rule.fired

\* Two saves within a second: one version to the pass.
Doubled == \E p, q \in Puts : p # q /\ put[p].at = "done" /\ put[q].at = "done" /\ put[p].version = put[q].version

\* A save that writes over a rule that changed since it was read.
Overtakes == \E p \in Puts : put[p].at = "read" /\ put'[p].at = "done" /\ put[p].existing # rule

\* An alert is about the rule as it is, not as the pass read it: the price crosses a level the row
\* still has, the row is active, and that kind had not been told - whatever was saved, re-armed or
\* deleted while the quote was on its way.  Saves of one second are one version to the pass.
AlertIsOfTheRule ==
    alerts' # alerts /\ ~Doubled =>
        \E k \in crossed(rule.levels, rule.high, pass.price) :
           rule.levels.active /\ k \notin rule.fired /\ alerts' \ alerts = {[kind |-> k, version |-> rule.version]}

AlertsAreOfTheRule == [][AlertIsOfTheRule]_vars

\* What a rule takes for told was told: its alert is stored.
FiredIsTold == rule # None => \A k \in rule.fired : [kind |-> k, version |-> rule.version] \in alerts

\* While a trail stays on, no save takes its high back - unless it ratcheted between the save's read
\* and its write.
HighIsKept ==
    rule # None /\ rule' # None /\ rule.levels.trail /\ rule'.levels.trail /\ ~Overtakes =>
        rule'.high >= rule.high

TrailKeepsItsHigh == [][HighIsKept]_vars

\* A level that stays reached is told.
ReachedLevelsAreTold == \A k \in Kinds : Reached(k) ~> ~Reached(k)

\* The high "only ever rises" (exits.py 10-11), a save that crosses a ratchet included.
TrailOnlyRises ==
    [][ rule # None /\ rule' # None /\ rule.levels.trail /\ rule'.levels.trail => rule'.high >= rule.high ]_vars

\* "saving the rule re-arms it" (exits.py 6): what a saved rule takes for told was told since.
SavesReArm ==
    [][ rule # None /\ rule' # None /\ rule'.fired # rule.fired /\ rule'.fired # {} => alerts' # alerts ]_vars
==============================================================================
