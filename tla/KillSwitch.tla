----------------------------- MODULE KillSwitch -----------------------------
(***************************************************************************)
(* The account's risk switches (backend/app/risk.py, routes_risk.py): one  *)
(* settings row per user holds the kill switch, the drawdown trip and the  *)
(* editable limits.  Every writer reads the whole row, changes a field and *)
(* writes the whole row back, each a database call of its own.  The switch *)
(* meets the orders, the bots and the engine that trades for them.         *)
(*                                                                         *)
(* Threads: the requests of the user, and the refresh thread, which runs   *)
(* the drawdown check, the paper poll and the bot engine one at a time.    *)
(***************************************************************************)
EXTENDS Naturals, FiniteSets

CONSTANTS Requests,     \* concurrent requests of the user
          Refresh,      \* the refresh thread
          Orders,       \* paper orders the user may place
          Bots,         \* the user's bots
          Limits,       \* values of the editable limits
          MaxTrades,    \* bound: entries of a bot
          None

ASSUME SwitchAssumption ==
    /\ Refresh \notin Requests
    /\ MaxTrades \in Nat
    /\ Limits # {}

VARIABLES watches,   \* is max_drawdown_pct set?  (it stays as it is)
          risk,      \* the risk_settings row
          loss,      \* is the drawdown at the limit? (the market decides)
          orders,    \* status of each paper order
          bots,      \* status of each bot
          trades,    \* entries each bot has made
          thread     \* where each thread stands

vars == <<watches, risk, loss, orders, bots, trades, thread>>

Threads == Requests \cup {Refresh}

Row == [limits : Limits, halted : BOOLEAN, tripped : BOOLEAN]

At(p, op)       == thread[p] # None /\ thread[p].op = op
Goto(p, state)  == thread' = [thread EXCEPT ![p] = state]
Ready(p)        == thread[p] = None

(***************************************************************************)
(* db.upsert_risk_settings: every column of a row read earlier, with one   *)
(* field changed.  A settings save then runs check_user.                   *)
(***************************************************************************)
WriteLater(p, row, why) == Goto(p, [op |-> "write", row |-> row, why |-> why])

WriteRow(p) ==
    /\ At(p, "write")
    /\ risk' = thread[p].row
    /\ Goto(p, IF thread[p].why = "save" THEN [op |-> "check"] ELSE None)
    /\ UNCHANGED <<loss, orders, bots, trades>>

\* Mutant: the form's row is written, with the fields the form lacks cleared.
ReadForSave_formOnly(r) ==
    /\ Ready(r)
    /\ \E new \in Limits :
         WriteLater(r, [limits |-> new, halted |-> FALSE, tripped |-> FALSE], "save")
    /\ UNCHANGED <<risk, loss, orders, bots, trades>>

\* PUT /api/risk/settings, set_max_drawdown and set_regime_gate: read the row.
ReadForSave(r) ==
    /\ Ready(r)
    /\ \E new \in Limits : WriteLater(r, [risk EXCEPT !.limits = new], "save")
    /\ UNCHANGED <<risk, loss, orders, bots, trades>>

\* risk.check_user, after a save and, on the refresh thread, after each equity
\* snapshot: trips only with a limit set, a loss beyond it, and no trip yet.
Check(p) ==
    /\ At(p, "check") \/ (p = Refresh /\ Ready(p))
    /\ IF watches /\ loss /\ ~risk.tripped
       THEN WriteLater(p, [risk EXCEPT !.tripped = TRUE], "trip")
       ELSE Goto(p, None)
    /\ UNCHANGED <<risk, loss, orders, bots, trades>>

\* risk.acknowledge: 409 unless tripped.
ReadForAcknowledge(r) ==
    /\ Ready(r)
    /\ risk.tripped
    /\ WriteLater(r, [risk EXCEPT !.tripped = FALSE], "acknowledge")
    /\ UNCHANGED <<risk, loss, orders, bots, trades>>

(***************************************************************************)
(* POST /api/risk/kill-switch: 409 when already halted, then halt_trading: *)
(* read the row, cancel the open orders, pause the running bots, and only  *)
(* then write the row.                                                     *)
(***************************************************************************)
Kill(r) ==
    /\ Ready(r)
    /\ ~risk.halted
    /\ Goto(r, [op |-> "read row"])
    /\ UNCHANGED <<risk, loss, orders, bots, trades>>

HaltReadRow(r) ==
    /\ At(r, "read row")
    /\ Goto(r, [op |-> "list orders", row |-> [risk EXCEPT !.halted = TRUE]])
    /\ UNCHANGED <<risk, loss, orders, bots, trades>>

\* Mutant: resting orders are forgotten.
HaltListOrders_none(r) ==
    /\ At(r, "list orders")
    /\ Goto(r, [op |-> "cancel orders", row |-> thread[r].row, todo |-> {}])
    /\ UNCHANGED <<risk, loss, orders, bots, trades>>

HaltListOrders(r) ==
    /\ At(r, "list orders")
    /\ Goto(r, [op |-> "cancel orders", row |-> thread[r].row,
                todo |-> {o \in Orders : orders[o] = "submitted"}])
    /\ UNCHANGED <<risk, loss, orders, bots, trades>>

\* db.set_order_status moves an order only if it is still open.
HaltCancelOrder(r) ==
    /\ At(r, "cancel orders")
    /\ \E o \in thread[r].todo :
         /\ orders' = [orders EXCEPT ![o] = IF @ = "submitted" THEN "cancelled" ELSE @]
         /\ Goto(r, [thread[r] EXCEPT !.todo = @ \ {o}])
    /\ UNCHANGED <<risk, loss, bots, trades>>

HaltListBots(r) ==
    /\ At(r, "cancel orders")
    /\ thread[r].todo = {}
    /\ Goto(r, [op |-> "pause bots", row |-> thread[r].row,
                todo |-> {b \in Bots : bots[b] = "active"}])
    /\ UNCHANGED <<risk, loss, orders, bots, trades>>

HaltPauseBot(r) ==
    /\ At(r, "pause bots")
    /\ \E b \in thread[r].todo :
         /\ bots' = [bots EXCEPT ![b] = IF @ = "active" THEN "paused" ELSE @]
         /\ Goto(r, [thread[r] EXCEPT !.todo = @ \ {b}])
    /\ UNCHANGED <<risk, loss, orders, trades>>

\* Mutant: everything is cancelled and paused, but the row is not written.
HaltWriteRow_forgotten(r) ==
    /\ At(r, "pause bots")
    /\ thread[r].todo = {}
    /\ Goto(r, None)
    /\ UNCHANGED <<risk, loss, orders, bots, trades>>

HaltWriteRow(r) ==
    /\ At(r, "pause bots")
    /\ thread[r].todo = {}
    /\ risk' = thread[r].row
    /\ Goto(r, None)
    /\ UNCHANGED <<loss, orders, bots, trades>>

(***************************************************************************)
(* POST /api/risk/kill-switch/release: 409 unless halted, a fresh code,    *)
(* then release_trading reads the row again.                               *)
(***************************************************************************)
VerifyRelease(r) ==
    /\ Ready(r)
    /\ risk.halted
    /\ Goto(r, [op |-> "release"])
    /\ UNCHANGED <<risk, loss, orders, bots, trades>>

ReadForRelease(r) ==
    /\ At(r, "release")
    /\ IF risk.halted THEN WriteLater(r, [risk EXCEPT !.halted = FALSE], "release")
                      ELSE Goto(r, None)
    /\ UNCHANGED <<risk, loss, orders, bots, trades>>

(***************************************************************************)
(* Paper orders: the guardrail reads the row, the insert follows; the poll *)
(* fills what is submitted and reads no guardrail.                         *)
(***************************************************************************)
CheckOrder(r) ==
    /\ Ready(r)
    /\ ~risk.halted
    /\ \E o \in Orders : orders[o] = "none"
    /\ Goto(r, [op |-> "insert"])
    /\ UNCHANGED <<risk, loss, orders, bots, trades>>

InsertOrder(r) ==
    /\ At(r, "insert")
    /\ \E o \in Orders : orders[o] = "none" /\ orders' = [orders EXCEPT ![o] = "submitted"]
    /\ Goto(r, None)
    /\ UNCHANGED <<risk, loss, bots, trades>>

PollFill ==
    /\ Ready(Refresh)
    /\ \E o \in Orders : orders[o] = "submitted" /\ orders' = [orders EXCEPT ![o] = "filled"]
    /\ UNCHANGED <<risk, loss, bots, trades, thread>>

(***************************************************************************)
(* Bots.  Pause and resume are conditional updates; resume reads the row   *)
(* first.  The engine reads entry_blockers once per pass; each entry goes  *)
(* through submit, whose guardrail reads the row, and db.bot_trade, which  *)
(* writes only while the bot is active.                                    *)
(***************************************************************************)
PauseBot(r) ==
    /\ Ready(r)
    /\ \E b \in Bots : bots[b] = "active" /\ bots' = [bots EXCEPT ![b] = "paused"]
    /\ UNCHANGED <<risk, loss, orders, trades, thread>>

CheckResume(r) ==
    /\ Ready(r)
    /\ ~risk.halted
    /\ \E b \in Bots : Goto(r, [op |-> "resume", bot |-> b])
    /\ UNCHANGED <<risk, loss, orders, bots, trades>>

ResumeBot(r) ==
    /\ At(r, "resume")
    /\ bots' = [bots EXCEPT ![thread[r].bot] = IF @ = "paused" THEN "active" ELSE @]
    /\ Goto(r, None)
    /\ UNCHANGED <<risk, loss, orders, trades>>

\* bots.run: the active bots, and nothing to enter when something blocks.
EnginePass ==
    /\ Ready(Refresh)
    /\ ~risk.halted /\ ~risk.tripped
    /\ \E b \in Bots : bots[b] = "active"
    /\ Goto(Refresh, [op |-> "engine", todo |-> {b \in Bots : bots[b] = "active"}])
    /\ UNCHANGED <<risk, loss, orders, bots, trades>>

\* A bot with a signal goes to the guardrail; one without, or one the
\* guardrail refuses, is passed over.
EngineCheck ==
    /\ At(Refresh, "engine")
    /\ \E b \in thread[Refresh].todo :
         \/ /\ ~risk.halted /\ trades[b] < MaxTrades
            /\ Goto(Refresh, [op |-> "trade", bot |-> b, todo |-> thread[Refresh].todo \ {b}])
         \/ Goto(Refresh, [thread[Refresh] EXCEPT !.todo = @ \ {b}])
    /\ UNCHANGED <<risk, loss, orders, bots, trades>>

BotTrade ==
    /\ At(Refresh, "trade")
    /\ LET b == thread[Refresh].bot
       IN  trades' = [trades EXCEPT ![b] = IF bots[b] = "active" THEN @ + 1 ELSE @]
    /\ Goto(Refresh, [op |-> "engine", todo |-> thread[Refresh].todo])
    /\ UNCHANGED <<risk, loss, orders, bots>>

EngineDone ==
    /\ At(Refresh, "engine")
    /\ thread[Refresh].todo = {}
    /\ Goto(Refresh, None)
    /\ UNCHANGED <<risk, loss, orders, bots, trades>>

\* The market moves the drawdown across the limit and back.
Market ==
    /\ loss' = ~loss
    /\ UNCHANGED <<risk, orders, bots, trades, thread>>

Init ==
    /\ risk \in {row \in Row : ~row.halted /\ ~row.tripped}
    /\ loss = FALSE /\ watches \in BOOLEAN
    /\ orders = [o \in Orders |-> "none"]
    /\ bots = [b \in Bots |-> "active"]
    /\ trades = [b \in Bots |-> 0]
    /\ thread = [p \in Threads |-> None]

Halt(r) == \/ HaltReadRow(r) \/ HaltListOrders(r) \/ HaltCancelOrder(r)
           \/ HaltListBots(r) \/ HaltPauseBot(r) \/ HaltWriteRow(r)

\* What a handler does after its first step; it needs no further user.
Continue(r) ==
    \/ WriteRow(r) \/ (At(r, "check") /\ Check(r)) \/ Halt(r)
    \/ ReadForRelease(r) \/ InsertOrder(r) \/ ResumeBot(r)

Begin(r) ==
    \/ ReadForSave(r) \/ ReadForAcknowledge(r) \/ Kill(r) \/ VerifyRelease(r)
    \/ CheckOrder(r) \/ PauseBot(r) \/ CheckResume(r)

RefreshStep == \/ Check(Refresh) \/ WriteRow(Refresh) \/ PollFill
               \/ EnginePass \/ EngineCheck \/ BotTrade \/ EngineDone

Next == /\ \/ \E r \in Requests : Begin(r) \/ Continue(r)
           \/ RefreshStep
           \/ Market
        /\ UNCHANGED watches

Spec == Init /\ [][Next]_vars

\* A handler that has begun runs to its end.
FairSpec == Spec /\ \A r \in Requests : WF_vars(Continue(r) /\ UNCHANGED watches)
-----------------------------------------------------------------------------
(***************************************************************************)
(* Properties.                                                             *)
(***************************************************************************)
ThreadStates ==
    [op : {"check", "read row", "release", "insert"}]
    \cup [op : {"write"}, row : Row, why : {"save", "trip", "acknowledge", "release"}]
    \cup [op : {"list orders"}, row : Row]
    \cup [op : {"cancel orders"}, row : Row, todo : SUBSET Orders]
    \cup [op : {"pause bots"}, row : Row, todo : SUBSET Bots]
    \cup [op : {"resume"}, bot : Bots]
    \cup [op : {"engine"}, todo : SUBSET Bots]
    \cup [op : {"trade"}, bot : Bots, todo : SUBSET Bots]

\* The shape of the row, the tables and every thread's local state.
TypeOK ==
    /\ risk \in Row
    /\ loss \in BOOLEAN /\ watches \in BOOLEAN
    /\ orders \in [Orders -> {"none", "submitted", "filled", "cancelled"}]
    /\ bots \in [Bots -> {"active", "paused"}]
    /\ trades \in [Bots -> 0..MaxTrades]
    /\ thread \in [Threads -> {None} \cup ThreadStates]

\* What a step wrote to the row, and who did.
Writes(why) == \E p \in Threads : At(p, "write") /\ thread[p].why = why /\ thread'[p] # thread[p]

\* "Release needs a fresh TOTP code" (docs/threat-model.md): trading resumes
\* only by the write of a release handler, which verified one.  A handler
\* writing back a row it read before the halt would end it too.
HaltHolds == [][risk.halted /\ ~risk'.halted => Writes("release")]_vars

\* "A trip holds until the user acknowledges it" (risk.py:8).
TripHolds == [][risk.tripped /\ ~risk'.tripped => Writes("acknowledge")]_vars

\* A limit the user saved stays until the user saves another one: no other
\* writer of the row brings an old value back.
SavedLimitsStay == [][risk'.limits # risk.limits => Writes("save")]_vars

\* Where the user's requests come one at a time and no drawdown limit is set, so
\* that the refresh thread does not write the row, both hold: each handler brings
\* back the fields it does not change as they are.  (Two requests at once refute
\* HaltHolds; the refresh thread beside one of them refutes TripHolds.)
RowSurvivesItsWriters ==
    [][ ~watches => /\ risk.halted /\ ~risk'.halted  => Writes("release")
                    /\ risk'.limits # risk.limits    => Writes("save") ]_vars

\* "Cancel every open paper order, pause every running bot, and refuse every
\* new order until released" (risk.py:138): while trading is halted nothing
\* rests that the poll could fill, and no bot runs, even though the engine and
\* the poll were at work while the switch went through its steps.  (A drawdown
\* trip may write back a halt that was released meanwhile: see RowSurvivesItsWriters.)
HaltIsQuiet ==
    risk.halted /\ ~watches => /\ \A o \in Orders : orders[o] # "submitted"
                               /\ \A b \in Bots : bots[b] # "active"

\* The switch is never stuck behind other handlers: once accepted, the halt
\* is written.
HaltTakesEffect == \A r \in Requests : At(r, "read row") ~> risk.halted
=============================================================================
