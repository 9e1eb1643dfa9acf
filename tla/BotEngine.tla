----------------------------- MODULE BotEngine -----------------------------
(***************************************************************************)
(* The demo bots (backend/app/bots.py and their tables in db.py): each bot *)
(* trades in an account of its own, funded from the hand-kept account when *)
(* it is created and handed back when it is stopped.  The engine runs on   *)
(* the refresh thread; it reads a bot's positions and cash once and then   *)
(* trades on them, while request threads create, pause, resume and stop.   *)
(* db.create_bot, db.bot_trade and db.stop_bot are one transaction each.   *)
(***************************************************************************)
EXTENDS LedgerRules, FiniteSetsExt

CONSTANTS Bots,          \* bot ids
          Manual,        \* the hand-kept account
          Requests,      \* concurrent requests of the user
          Currency,      \* the one currency of the bots
          Quantities,    \* share counts an entry may buy
          Prices,        \* what a quote, moved by the costs, may fill at
          Allocation,    \* cash a bot is created with
          ManualCash,    \* hand-kept cash at the start
          MaxPositions,  \* the strategy's max_positions
          MaxDay         \* bound: trading days

ASSUME BotAssumption ==
    /\ Currency \in Currencies
    /\ IsFiniteSet(Bots) /\ Manual \notin Bots
    /\ Quantities \subseteq Nat \ {0}
    /\ Prices \subseteq Nat
    /\ Allocation \in Nat \ {0} /\ ManualCash \in Nat
    /\ MaxPositions \in Nat /\ MaxDay \in Nat \ {0}

Days == 1..MaxDay

\* A bot's state_json: positions with exit levels, and the day each symbol was last sold.
Plans == [pos : SUBSET Tickers, cooldown : [Tickers -> 0..MaxDay]]

ASSUME NoPassAssumption ==
    \A today \in Days, bs \in SUBSET Bots : \A todo \in [bs -> Plans] :
        None # [today |-> today, todo |-> todo]

VARIABLES books,    \* the tables of every account
          bots,     \* status of each bot
          plan,     \* state_json: {pos, cooldown} of each bot
          engine,   \* the engine's pass: its date and the bots still to run
          view,     \* what the engine read of the bot it is running
          sold,     \* history: <<bot, ticker, date>> of the engine's exits
          request,  \* where each request thread stands
          day       \* the exchange's date

vars == <<books, bots, plan, engine, view, sold, request, day>>

Accounts == Bots \cup {Manual}

HeldIn(a) == {t \in Tickers : Held(books[a], t)}
Cash(a)   == books[a].cash[Currency]

Trade(side, t, qty, price) == TradeRow(side, t, qty, price, 0, Currency, None)

(***************************************************************************)
(* db._transfer: WITHDRAW from one account, DEPOSIT into another.          *)
(***************************************************************************)
Transferred(bs, from, to, amount) ==
    [bs EXCEPT ![from] = Booked(@, CashRow("WITHDRAW", amount, Currency), TRUE),
               ![to]   = Booked(@, CashRow("DEPOSIT", amount, Currency), TRUE)]

\* db.create_bot: refused (422) when the hand-kept cash is short.
Create ==
    /\ \E b \in Bots :
         /\ bots[b] = "none"
         /\ Accepts(books[Manual], CashRow("WITHDRAW", Allocation, Currency), TRUE)
         /\ bots' = [bots EXCEPT ![b] = "active"]
         /\ books' = Transferred(books, Manual, b, Allocation)
    /\ UNCHANGED <<plan, engine, view, sold, request, day>>

\* db.set_bot_status for pause and resume; 409 from any other status.
Pause ==
    /\ \E b \in Bots : bots[b] = "active" /\ bots' = [bots EXCEPT ![b] = "paused"]
    /\ UNCHANGED <<books, plan, engine, view, sold, request, day>>

Resume ==
    /\ \E b \in Bots : bots[b] = "paused" /\ bots' = [bots EXCEPT ![b] = "active"]
    /\ UNCHANGED <<books, plan, engine, view, sold, request, day>>

(***************************************************************************)
(* bots.stop: read the positions, fetch quotes for them, then db.stop_bot  *)
(* sells what was read and hands the cash back, or changes nothing.        *)
(***************************************************************************)
StopRead(r) ==
    /\ request[r] = None
    /\ \E b \in Bots :
         /\ bots[b] # "none"
         /\ request' = [request EXCEPT ![r] =
               [bot |-> b, fills |-> [t \in HeldIn(b) |-> books[b].portfolio[t].shares]]]
    /\ UNCHANGED <<books, bots, plan, engine, view, sold, day>>

\* The closing SELLs as they are stored, at one price each.
Closing(fills, prices) ==
    LET ts == SetToSeq(DOMAIN fills)
    IN  [i \in 1..Len(ts) |-> Stored(Trade("SELL", ts[i], fills[ts[i]], prices[ts[i]]), TRUE)]

\* db.stop_bot books them one after the other, each on the tables the last one left.
StopAccepted(tables, rows) == \A i \in DOMAIN rows : Accepts(tables[i - 1], rows[i], TRUE)

Stop(r) ==
    /\ request[r] # None
    /\ LET b == request[r].bot
           fills == request[r].fills
       IN  /\ bots[b] # "stopped"
           /\ \E prices \in [DOMAIN fills -> Prices] :
                LET rows == Closing(fills, prices)
                    tables == AfterEach(books[b], rows)
                    closed == tables[Len(rows)]
                IN  /\ StopAccepted(tables, rows)
                    /\ books' = Transferred([books EXCEPT ![b] = closed], b, Manual,
                                            closed.cash[Currency])
           /\ bots' = [bots EXCEPT ![b] = "stopped"]
    /\ request' = [request EXCEPT ![r] = None]
    /\ UNCHANGED <<plan, engine, view, sold, day>>

\* A position read is no longer there: LedgerError, nothing written (HTTP 500).
StopFails(r) ==
    /\ request[r] # None
    /\ bots[request[r].bot] # "stopped"
    /\ \E t \in DOMAIN request[r].fills :
         request[r].fills[t] > books[request[r].bot].portfolio[t].shares
    /\ request' = [request EXCEPT ![r] = None]
    /\ UNCHANGED <<books, bots, plan, engine, view, sold, day>>

\* No price for a position, or already stopped: BotError, nothing written (409).
StopRefused(r) ==
    /\ request[r] # None
    /\ bots[request[r].bot] = "stopped" \/ DOMAIN request[r].fills # {}
    /\ request' = [request EXCEPT ![r] = None]
    /\ UNCHANGED <<books, bots, plan, engine, view, sold, day>>

(***************************************************************************)
(* bots.run: list the active bots, with the state each had then.           *)
(***************************************************************************)
Active == {b \in Bots : bots[b] = "active"}

EngineBegin ==
    /\ engine = None /\ Active # {}
    /\ engine' = [today |-> day, todo |-> [b \in Active |-> plan[b]]]
    /\ UNCHANGED <<books, bots, plan, view, sold, request, day>>

\* Mutant: today's cooldowns are dropped with the earlier ones.
Pruned_early(cooldown, today) ==
    [t \in Tickers |-> IF cooldown[t] > today THEN cooldown[t] ELSE 0]

\* Cooldowns of earlier days are dropped.
Pruned(cooldown, today) == [t \in Tickers |-> IF cooldown[t] >= today THEN cooldown[t] ELSE 0]

(***************************************************************************)
(* bots._run_bot: positions and cash are read once, here.                  *)
(***************************************************************************)
EngineRead ==
    /\ engine # None /\ view = None
    /\ \E b \in DOMAIN engine.todo :
         LET state == engine.todo[b]
         IN  /\ view' = [bot |-> b, phase |-> "exits", cash |-> Cash(b),
                         shares |-> [t \in HeldIn(b) |-> books[b].portfolio[t].shares],
                         state |-> [pos |-> state.pos \cup HeldIn(b),
                                    cooldown |-> Pruned(state.cooldown, engine.today)]]
             /\ engine' = [engine EXCEPT !.todo = Restrict(@, DOMAIN @ \ {b})]
    /\ UNCHANGED <<books, bots, plan, sold, request, day>>

\* Mutant: the status read at the start of the pass is trusted.
MayTrade_unchecked(b) == TRUE

(***************************************************************************)
(* db.bot_trade: the row and the bot's new state in one transaction, only  *)
(* while the bot is active.  A refusal by the order checks is no step; the *)
(* end of the run because the bot is no longer active is EngineLeave.      *)
(***************************************************************************)
MayTrade(b) == bots[b] = "active"

\* Mutant: the engine's own count of the cash is not kept up.
CashLeft_stale(cash, row) == cash

\* The engine's own count of the bot's cash after a fill.
CashLeft(cash, row) == cash + CashDelta(row, TRUE)

AfterExit(state, t) ==
    [pos |-> state.pos \ {t}, cooldown |-> [state.cooldown EXCEPT ![t] = engine.today]]

AfterEntry(state, t) == [state EXCEPT !.pos = @ \cup {t}]

\* An exit sells the shares that were read, and forgets the position.
EngineSell ==
    /\ view # None /\ view.phase = "exits"
    /\ \E t \in DOMAIN view.shares, price \in Prices :
         LET b == view.bot
             row == Trade("SELL", t, view.shares[t], price)
             state == AfterExit(view.state, t)
         IN  /\ MayTrade(b)
             /\ Accepts(books[b], row, TRUE)
             /\ books' = [books EXCEPT ![b] = Booked(@, row, TRUE)]
             /\ plan' = [plan EXCEPT ![b] = state]
             /\ view' = [view EXCEPT !.state = state, !.cash = CashLeft(@, row),
                                     !.shares = Restrict(@, DOMAIN @ \ {t})]
             /\ sold' = sold \cup {<<b, t, engine.today>>}
    /\ UNCHANGED <<bots, engine, request, day>>

\* The exits are done; entries follow (none, under a halt: see EngineLeave).
EngineTurnsToEntries ==
    /\ view # None /\ view.phase = "exits"
    /\ view' = [view EXCEPT !.phase = "entries"]
    /\ UNCHANGED <<books, bots, plan, engine, sold, request, day>>

MayEnter(t) ==
    /\ Cardinality(DOMAIN view.shares) < MaxPositions
    /\ t \notin DOMAIN view.shares
    /\ view.state.cooldown[t] # engine.today

\* An entry buys what the cash that was read can pay for.
EngineBuy ==
    /\ view # None /\ view.phase = "entries"
    /\ \E t \in Tickers, qty \in Quantities, price \in Prices :
         LET b == view.bot
             row == Trade("BUY", t, qty, price)
             state == AfterEntry(view.state, t)
         IN  /\ MayEnter(t)
             /\ qty * price <= view.cash
             /\ MayTrade(b)
             /\ Accepts(books[b], row, TRUE)
             /\ books' = [books EXCEPT ![b] = Booked(@, row, TRUE)]
             /\ plan' = [plan EXCEPT ![b] = state]
             /\ view' = [view EXCEPT !.state = state, !.cash = CashLeft(@, row),
                                     !.shares = [x \in DOMAIN @ \cup {t} |->
                                                    IF x = t THEN qty ELSE @[x]]]
    /\ UNCHANGED <<bots, engine, sold, request, day>>

(***************************************************************************)
(* The bot's run ends: its state is saved if it is still active            *)
(* (db.set_bot_state), or the run broke off (the bot stopped, or an        *)
(* exception that bots.run logs) and nothing is saved.                     *)
(***************************************************************************)
EngineLeave ==
    /\ view # None
    /\ \/ view.phase = "entries" /\ plan' = [plan EXCEPT ![view.bot] =
                                       IF MayTrade(view.bot) THEN view.state ELSE @]
       \/ plan' = plan
    /\ view' = None
    /\ UNCHANGED <<books, bots, engine, sold, request, day>>

EngineEnd ==
    /\ engine # None /\ view = None /\ DOMAIN engine.todo = {}
    /\ engine' = None
    /\ UNCHANGED <<books, bots, plan, view, sold, request, day>>

NextDay ==
    /\ day < MaxDay
    /\ day' = day + 1
    /\ UNCHANGED <<books, bots, plan, engine, view, sold, request>>

NoPlan == [pos |-> {}, cooldown |-> [t \in Tickers |-> 0]]

Init ==
    /\ books = [a \in Accounts |->
                  IF a = Manual THEN [EmptyBook EXCEPT !.cash[Currency] = ManualCash]
                  ELSE EmptyBook]
    /\ bots = [b \in Bots |-> "none"]
    /\ plan = [b \in Bots |-> NoPlan]
    /\ engine = None /\ view = None /\ sold = {}
    /\ request = [r \in Requests |-> None]
    /\ day = 1

Next ==
    \/ Create \/ Pause \/ Resume
    \/ \E r \in Requests : StopRead(r) \/ Stop(r) \/ StopFails(r) \/ StopRefused(r)
    \/ EngineBegin \/ EngineRead \/ EngineSell \/ EngineTurnsToEntries
    \/ EngineBuy \/ EngineLeave \/ EngineEnd
    \/ NextDay

Spec == Init /\ [][Next]_vars

-----------------------------------------------------------------------------
(***************************************************************************)
(* Properties                                                              *)
(***************************************************************************)
\* Shares by symbol, as a query of the portfolio rows returns them.
ArePositions(f) == DOMAIN f \subseteq Tickers /\ f \in [DOMAIN f -> Nat \ {0}]

TypeOK ==
    /\ books \in [Accounts -> Book]
    /\ bots \in [Bots -> {"none", "active", "paused", "stopped"}]
    /\ plan \in [Bots -> Plans]
    /\ engine # None => /\ engine \in [today : Days, todo : {engine.todo}]
                        /\ DOMAIN engine.todo \subseteq Bots
                        /\ engine.todo \in [DOMAIN engine.todo -> Plans]
    /\ view # None => /\ engine # None
                      /\ view \in [bot : Bots, phase : {"exits", "entries"}, cash : Int,
                                   shares : {view.shares}, state : Plans]
                      /\ ArePositions(view.shares)
    /\ request = [r \in Requests |-> request[r]]
    /\ \A r \in Requests : request[r] # None =>
         request[r] \in [bot : Bots, fills : {request[r].fills}] /\ ArePositions(request[r].fills)
    /\ sold \subseteq Bots \X Tickers \X Days
    /\ day \in Days

\* Whatever the engine, the stops and the allocations do to each other, no
\* account (a bot's or the hand-kept one) goes short or overdrawn.
AccountsSolvent == \A a \in Accounts : Solvent(books[a])

\* While a bot is not stopped, what the engine read of it at the start of its
\* run and kept up to date itself is what the tables say, so an engine fill is
\* never refused by the ledger (the engine alone trades an unstopped bot).
EngineViewIsCurrent ==
    view # None /\ bots[view.bot] # "stopped" =>
        /\ view.cash = Cash(view.bot)
        /\ view.shares = [t \in HeldIn(view.bot) |-> books[view.bot].portfolio[t].shares]

\* The positions a bot's state_json describes (entry, stop, target) are the
\* ones it holds: no exit level is lost and none outlives its position.
PlanMatchesPositions ==
    \A b \in Bots : bots[b] \in {"active", "paused"} => plan[b].pos = HeldIn(b)

\* The strategy's max_positions bounds what a bot holds.
AtMostMaxPositions == \A b \in Bots : Cardinality(HeldIn(b)) <= MaxPositions

\* Stopping hands all of the bot's cash back ("return all of the bot's cash to
\* manual", db.stop_bot) and nothing pays into a stopped bot afterwards.
StoppedBotHasNoCash == \A b \in Bots : bots[b] = "stopped" => Cash(b) = 0

\* What the engine reads, plans and holds agree at every step of its run.
EngineAgrees ==
    /\ TypeOK
    /\ AccountsSolvent
    /\ EngineViewIsCurrent
    /\ PlanMatchesPositions
    /\ AtMostMaxPositions

\* A bot that was stopped stays stopped and its tables never change again,
\* also when the stop landed in the middle of the engine's run of it.
StoppedIsFinal ==
    [][\A b \in Bots : bots[b] = "stopped" =>
          bots'[b] = "stopped" /\ books'[b] = books[b]]_vars

\* Money moves between accounts and is neither made nor lost: a step that
\* trades nothing leaves the cash of all accounts together as it was.
MoneyIsConserved ==
    [][(\A a \in Accounts : books'[a].portfolio = books[a].portfolio) =>
          MapThenSumSet(Cash, Accounts)' = MapThenSumSet(Cash, Accounts)]_vars

\* A bot does not buy back on the same day what it sold (the cooldown), across
\* the passes of that day and whatever else it trades in between.
NoSameDayRebuy ==
    [][\A b \in Bots, t \in Tickers :
          ~Held(books[b], t) /\ Held(books[b]', t) =>
              <<b, t, engine.today>> \notin sold]_vars

\* Every step keeps the money, the stopped bots and the day's cooldowns as they were.
StepsKeepTheAccounts == MoneyIsConserved /\ StoppedIsFinal /\ NoSameDayRebuy

\* What db.stop_bot and bots.stop promise, "Close every position": a stopped
\* bot holds nothing.  Refuted: the positions are read before the quotes are
\* fetched, and the engine may buy until the stop's transaction.
StoppedBotsHoldNothing == \A b \in Bots : bots[b] = "stopped" => HeldIn(b) = {}
=============================================================================
