---------------------------- MODULE PaperBroker ----------------------------
(***************************************************************************)
(* The simulated broker behind account "paper" (backend/app/execution.py). *)
(* Request threads place, cancel and reset; the refresh thread polls every *)
(* minute, expiring day orders and filling what a quote crosses.  Both run *)
(* _try_fill on the same orders.  A database call is one atomic step, the  *)
(* handlers and the poll are sequences of them.                            *)
(***************************************************************************)
EXTENDS LedgerRules

CONSTANTS Orders,       \* order ids
          Requests,     \* concurrent requests
          Tickets,      \* order forms: [side, ticker, qty, tif]
          Prices,       \* what a quote, moved by the costs, may fill at
          Currency,     \* the one currency of the account
          StartCash,    \* balance at the start and after a reset
          MaxPerDay,    \* risk setting max_orders_per_day
          MaxClock,     \* bound: phases of the market clock
          MaxResets     \* bound: resets of the account

ASSUME PaperAssumption ==
    /\ Currency \in Currencies
    /\ None \notin Orders
    /\ Tickets \subseteq [side : TradeSides, ticker : Tickers, qty : Nat \ {0}, tif : {"day", "gtc"}]
    /\ Prices \subseteq Nat
    /\ StartCash \in Nat \ {0}
    /\ MaxPerDay \in Nat /\ MaxClock \in Nat /\ MaxResets \in Nat

Statuses == {"submitted", "filled", "cancelled", "rejected"}
Phases   == 0..MaxClock

\* A row of the orders table; `filled` is its filled_at.
Order == [status : Statuses, side : TradeSides, ticker : Tickers, qty : Nat \ {0},
          tif : {"day", "gtc"}, placed : Phases, filled : Phases \cup {None}]

\* A row of the ledger as it is stored.
Entry == [side : Sides, ticker : Tickers \cup Currencies, qty : Nat, price : Nat, fees : Nat,
          currency : Currencies, order : Orders \cup {None}, cash_delta : Int]

ASSUME NoOrderAssumption == None \notin Order

VARIABLES book,          \* the paper rows of portfolio and cash_balances
          transactions,  \* the paper rows of the ledger, oldest first
          orders,        \* the orders table
          clock,         \* market phases since the start, three to a date
          request,       \* where each request thread stands
          poll,          \* where the refresh thread's pass stands
          rejections,    \* orders with an "order_rejected" audit row
          resets         \* resets started so far

tables == <<book, transactions, orders>>
vars   == <<book, transactions, orders, clock, request, poll, rejections, resets>>

(***************************************************************************)
(* The market clock: each date passes through PRE, LIVE and POST.          *)
(* session_for: placed before or during a session, an order belongs to it; *)
(* placed after it, to the next one.                                       *)
(***************************************************************************)
Date(at)       == at \div 3
Live(at)       == at % 3 = 1
SessionFor(at) == IF at % 3 = 2 THEN Date(at) + 1 ELSE Date(at)

OpenStatuses == {"new", "submitted", "partially_filled"}

IsOpen(o) == orders[o] # None /\ orders[o].status \in OpenStatuses

\* _local_date(now) > session_for(submitted_at), for day orders.
Expired(o, at) == orders[o].tif = "day" /\ Date(at) > SessionFor(orders[o].placed)

\* Mutant: the status moves whatever it was.
SetStatus_unconditional(o, status) == orders' = [orders EXCEPT ![o].status = status]

\* Mutant: only orders not yet submitted move, as for a broker's refusal.
SetStatus_fromNew(o, status) ==
    orders' = IF orders[o].status = "new" THEN [orders EXCEPT ![o].status = status] ELSE orders

(***************************************************************************)
(* db.set_order_status: moves an order only if it is still open.           *)
(***************************************************************************)
SetStatus(o, status) ==
    orders' = IF IsOpen(o) THEN [orders EXCEPT ![o].status = status] ELSE orders

FillRow(o, price) ==
    TradeRow(orders[o].side, orders[o].ticker, orders[o].qty, price, 0, Currency, o)

\* Mutant: the fill does not look at the status again.
TryFill_stale(o, at, outcome) ==
    \/ outcome = "resting" /\ UNCHANGED tables
    \/ \E price \in Prices :
         /\ outcome = "filled"
         /\ Accepts(book, FillRow(o, price), TRUE)
         /\ book' = Booked(book, FillRow(o, price), TRUE)
         /\ transactions' = Append(transactions, Stored(FillRow(o, price), TRUE))
         /\ orders' = [orders EXCEPT ![o].status = "filled", ![o].filled = at]

(***************************************************************************)
(* PaperBroker._try_fill with the caller's `now`, up to its first database *)
(* write.  "resting": no tradable price, or the quote does not reach the   *)
(* order.  Otherwise db.fill_order, in one transaction: "gone" when the    *)
(* order is no longer open, "filled", or "refused" by the ledger.          *)
(***************************************************************************)
TryFill(o, at, outcome) ==
    \/ /\ outcome = "resting"
       /\ UNCHANGED tables
    \/ /\ outcome = "gone"
       /\ ~IsOpen(o)
       /\ UNCHANGED tables
    \/ \E price \in Prices :
         /\ IsOpen(o)
         /\ \/ /\ outcome = "filled"
               /\ Accepts(book, FillRow(o, price), TRUE)
               /\ book' = Booked(book, FillRow(o, price), TRUE)
               /\ transactions' = Append(transactions, Stored(FillRow(o, price), TRUE))
               /\ orders' = [orders EXCEPT ![o].status = "filled", ![o].filled = at]
            \/ /\ outcome = "refused"
               /\ ~Accepts(book, FillRow(o, price), TRUE)
               /\ UNCHANGED tables

(***************************************************************************)
(* _try_fill after a LedgerError: the status, then the audit row, whether  *)
(* or not the status moved.                                                *)
(***************************************************************************)
RejectFill(o) ==
    /\ SetStatus(o, "rejected")
    /\ rejections' = rejections \cup {o}
    /\ UNCHANGED <<book, transactions>>

(***************************************************************************)
(* Placing: execution.submit.                                              *)
(***************************************************************************)
Enter(r, state) == request' = [request EXCEPT ![r] = state]

\* db.orders_today: placed on this date and not rejected.
OrdersOn(date) == {o \in Orders : /\ orders[o] # None
                                  /\ Date(orders[o].placed) = date
                                  /\ orders[o].status # "rejected"}

IsExit(ticket) == /\ ticket.side = "SELL"
                  /\ ticket.qty <= book.portfolio[ticket.ticker].shares

\* Mutant: the daily limit is off by one.
Guardrails_inclusive(ticket, at) ==
    \/ IsExit(ticket)
    \/ /\ Cardinality(OrdersOn(Date(at))) <= MaxPerDay
       /\ ticket.side = "BUY" => \E price \in Prices : ticket.qty * price <= book.cash[Currency]

\* guardrails.daily_limits and cash_only; an exit passes unchecked.
Guardrails(ticket, at) ==
    \/ IsExit(ticket)
    \/ /\ Cardinality(OrdersOn(Date(at))) < MaxPerDay
       /\ ticket.side = "BUY" => \E price \in Prices : ticket.qty * price <= book.cash[Currency]

Check(r) ==
    /\ request[r] = None
    /\ \E ticket \in Tickets :
         /\ Guardrails(ticket, clock)
         /\ Enter(r, [op |-> "place", ticket |-> ticket, at |-> clock])
    /\ UNCHANGED <<tables, clock, poll, rejections, resets>>

\* PaperBroker.place_order: insert the order; while the market is live, go on
\* to quote it and try to fill it at once.
Insert(r) ==
    /\ request[r] # None /\ request[r].op = "place"
    /\ \E o \in Orders :
         /\ orders[o] = None
         /\ LET t == request[r].ticket
            IN  orders' = [orders EXCEPT ![o] =
                  [status |-> "submitted", side |-> t.side, ticker |-> t.ticker, qty |-> t.qty,
                   tif |-> t.tif, placed |-> request[r].at, filled |-> None]]
         /\ Enter(r, IF Live(request[r].at)
                     THEN [op |-> "fill", order |-> o, at |-> request[r].at] ELSE None)
    /\ UNCHANGED <<book, transactions, clock, poll, rejections, resets>>

FillNow(r) ==
    /\ request[r] # None /\ request[r].op = "fill"
    /\ \E outcome \in {"resting", "gone", "filled", "refused"} :
         /\ TryFill(request[r].order, request[r].at, outcome)
         /\ Enter(r, IF outcome = "refused" THEN [op |-> "reject", order |-> request[r].order]
                                            ELSE None)
    /\ UNCHANGED <<clock, poll, rejections, resets>>

RejectNow(r) ==
    /\ request[r] # None /\ request[r].op = "reject"
    /\ RejectFill(request[r].order)
    /\ Enter(r, None)
    /\ UNCHANGED <<clock, poll, resets>>

\* execution.cancel: refused (409) unless the order is still open.
Cancel(r) ==
    /\ request[r] = None
    /\ \E o \in Orders : IsOpen(o) /\ SetStatus(o, "cancelled")
    /\ UNCHANGED <<book, transactions, clock, request, poll, rejections, resets>>

(***************************************************************************)
(* execution.reset_paper: cancel the open orders read first, then adjust   *)
(* each position read next to zero, then withdraw the balance read next,   *)
(* then deposit.  Each write is a transaction of its own.                  *)
(***************************************************************************)
Resetting(r, op) == request[r] # None /\ request[r].op = op

\* Mutant: the reset clears the tables without a ledger row.
Write_unrecorded(tx) ==
    /\ Accepts(book, tx, FALSE)
    /\ book' = Booked(book, tx, FALSE)
    /\ UNCHANGED <<orders, transactions>>

Write(tx) ==
    /\ Accepts(book, tx, FALSE)
    /\ book' = Booked(book, tx, FALSE)
    /\ transactions' = Append(transactions, Stored(tx, FALSE))
    /\ UNCHANGED orders

Submitted == {o \in Orders : orders[o] # None /\ orders[o].status = "submitted"}

ResetBegin(r) ==
    /\ request[r] = None
    /\ resets < MaxResets
    /\ resets' = resets + 1
    /\ Enter(r, [op |-> "cancel orders", todo |-> Submitted])
    /\ UNCHANGED <<tables, clock, poll, rejections>>

ResetOrders(r) ==
    /\ Resetting(r, "cancel orders")
    /\ \/ \E o \in request[r].todo :
            /\ SetStatus(o, "cancelled")
            /\ Enter(r, [request[r] EXCEPT !.todo = @ \ {o}])
            /\ UNCHANGED <<book, transactions>>
       \/ /\ request[r].todo = {}
          /\ Enter(r, [op |-> "clear positions", todo |-> {t \in Tickers : Held(book, t)}])
          /\ UNCHANGED tables
    /\ UNCHANGED <<clock, poll, rejections, resets>>

ResetPositions(r) ==
    /\ Resetting(r, "clear positions")
    /\ \/ \E t \in request[r].todo :
            /\ Write(TradeRow("ADJUST", t, 0, 1, 0, Currency, None))
            /\ Enter(r, [request[r] EXCEPT !.todo = @ \ {t}])
       \/ /\ request[r].todo = {}
          /\ Enter(r, [op |-> "clear cash", balance |-> book.cash[Currency]])
          /\ UNCHANGED tables
    /\ UNCHANGED <<clock, poll, rejections, resets>>

ResetCash(r) ==
    /\ Resetting(r, "clear cash")
    /\ IF request[r].balance = 0
       THEN /\ UNCHANGED tables
            /\ Enter(r, [op |-> "deposit"])
       ELSE /\ Write(CashRow("WITHDRAW", request[r].balance, Currency))
            /\ Enter(r, [op |-> "deposit"])
    /\ UNCHANGED <<clock, poll, rejections, resets>>

\* The balance read is no longer there: LedgerError, and the handler is over.
ResetFails(r) ==
    /\ Resetting(r, "clear cash")
    /\ request[r].balance > 0
    /\ ~Accepts(book, CashRow("WITHDRAW", request[r].balance, Currency), FALSE)
    /\ Enter(r, None)
    /\ UNCHANGED <<tables, clock, poll, rejections, resets>>

ResetDeposit(r) ==
    /\ Resetting(r, "deposit")
    /\ Write(CashRow("DEPOSIT", StartCash, Currency))
    /\ Enter(r, None)
    /\ UNCHANGED <<clock, poll, rejections, resets>>

(***************************************************************************)
(* The minute job: PaperBroker.poll_fills on a snapshot of the submitted   *)
(* orders, with the `now` taken when the pass began.                       *)
(***************************************************************************)
PollStart ==
    /\ poll = None
    /\ poll' = [at |-> clock, todo |-> Submitted, refused |-> None]
    /\ UNCHANGED <<tables, clock, request, rejections, resets>>

PollExpire ==
    /\ poll # None
    /\ \E o \in poll.todo :
         /\ Expired(o, poll.at)
         /\ SetStatus(o, "cancelled")
         /\ poll' = [poll EXCEPT !.todo = @ \ {o}]
    /\ UNCHANGED <<book, transactions, clock, request, rejections, resets>>

AllExpired == \A o \in poll.todo : ~Expired(o, poll.at)

PollFill ==
    /\ poll # None /\ poll.refused = None
    /\ AllExpired /\ Live(poll.at)
    /\ \E o \in poll.todo, outcome \in {"resting", "gone", "filled", "refused"} :
         /\ TryFill(o, poll.at, outcome)
         /\ poll' = [poll EXCEPT !.todo = @ \ {o},
                                !.refused = IF outcome = "refused" THEN o ELSE None]
    /\ UNCHANGED <<clock, request, rejections, resets>>

PollReject ==
    /\ poll # None /\ poll.refused # None
    /\ RejectFill(poll.refused)
    /\ poll' = [poll EXCEPT !.refused = None]
    /\ UNCHANGED <<clock, request, resets>>

PollEnd ==
    /\ poll # None /\ poll.refused = None
    /\ AllExpired /\ (poll.todo = {} \/ ~Live(poll.at))
    /\ poll' = None
    /\ UNCHANGED <<tables, clock, request, rejections, resets>>

Tick ==
    /\ clock < MaxClock
    /\ clock' = clock + 1
    /\ UNCHANGED <<tables, request, poll, rejections, resets>>

\* The account as reset_paper leaves it: one deposit, no position, no order.
StartedOver == [EmptyBook EXCEPT !.cash[Currency] = StartCash]

Init ==
    /\ book = StartedOver
    /\ transactions = <<Stored(CashRow("DEPOSIT", StartCash, Currency), FALSE)>>
    /\ orders = [o \in Orders |-> None]
    /\ clock = 0
    /\ request = [r \in Requests |-> None]
    /\ poll = None
    /\ rejections = {}
    /\ resets = 0

Place(r) == Check(r) \/ Insert(r) \/ FillNow(r) \/ RejectNow(r)
Reset(r) == \/ ResetBegin(r) \/ ResetOrders(r) \/ ResetPositions(r)
            \/ ResetCash(r) \/ ResetFails(r) \/ ResetDeposit(r)
Poll     == PollStart \/ PollExpire \/ PollFill \/ PollReject \/ PollEnd

Next == \/ \E r \in Requests : Place(r) \/ Cancel(r) \/ Reset(r)
        \/ Poll
        \/ Tick

Spec == Init /\ [][Next]_vars

\* The scheduler runs the job every minute and never two at a time, and dates
\* pass; nothing obliges a user to act.
FairSpec == Spec /\ WF_vars(Poll) /\ WF_vars(Tick)
-----------------------------------------------------------------------------
(***************************************************************************)
(* Properties.                                                             *)
(***************************************************************************)
RequestStates ==
    [op : {"place"}, ticket : Tickets, at : Phases]
    \cup [op : {"fill"}, order : Orders, at : Phases]
    \cup [op : {"reject"}, order : Orders]
    \cup [op : {"cancel orders"}, todo : SUBSET Orders]
    \cup [op : {"clear positions"}, todo : SUBSET Tickers]
    \cup [op : {"clear cash"}, balance : Nat]
    \cup [op : {"deposit"}]

\* The shape of every table and of every thread's local state.
TypeOK ==
    /\ book \in Book
    /\ transactions \in Seq(Entry)
    /\ orders \in [Orders -> {None} \cup Order]
    /\ clock \in Phases
    /\ request \in [Requests -> {None} \cup RequestStates]
    /\ poll \in {None} \cup [at : Phases, todo : SUBSET Orders, refused : Orders \cup {None}]
    /\ rejections \subseteq Orders
    /\ resets \in 0..MaxResets

\* Orders race each other, a reset and the poll for the same cash and shares;
\* the account is never overdrawn and never short.
AccountSolvent == Solvent(book)

\* The paper tables are the replay of the paper rows (test_paper.py asserts it
\* after a sequence of calls; here after any interleaving).
PaperReplays == Replay(transactions) = book

RowsOf(o) == {i \in DOMAIN transactions : transactions[i].order = o}

\* An order is in the ledger exactly when it is filled, exactly once, and for
\* its own side, symbol and quantity, although the request that placed it and
\* the poll may both be trying to fill it while another request cancels it.
FilledExactlyOnce ==
    \A o \in Orders :
        IF orders[o] # None /\ orders[o].status = "filled"
        THEN \E i \in RowsOf(o) :
                /\ RowsOf(o) = {i}
                /\ transactions[i].side = orders[o].side
                /\ transactions[i].ticker = orders[o].ticker
                /\ transactions[i].qty = orders[o].qty
        ELSE RowsOf(o) = {}

\* A day order's fill is stamped with a live moment of its own session, even
\* when the poll that fills it works from a snapshot of the orders.
DayOrdersFillInTheirSession ==
    \A o \in Orders :
        orders[o] # None /\ orders[o].tif = "day" /\ orders[o].status = "filled"
        => /\ Live(orders[o].filled)
           /\ Date(orders[o].filled) = SessionFor(orders[o].placed)

\* The paper account's tables are those of its rows, and every fill one of its order's session.
PaperAgrees == TypeOK /\ PaperReplays /\ DayOrdersFillInTheirSession

\* What an order asks for, and what the ledger has booked of it.
Asked(o)  == IF orders[o] = None THEN 0 ELSE orders[o].qty
Filled(o) == MapThenSumSet(LAMBDA i : transactions[i].qty, RowsOf(o))

\* execution.py keeps what an order promises: see OrderContract.
Contract == INSTANCE OrderContract WITH
    Quantities <- {ticket.qty : ticket \in Tickets},
    wanted <- [o \in Orders |-> Asked(o)],
    booked <- [o \in Orders |-> Filled(o)],
    open   <- [o \in Orders |-> IsOpen(o)]

ImplementsContract == Contract!Spec

\* "A day order still open after its session is cancelled as expired"
\* (execution.py:9-10): sooner or later it is no longer open.
ExpiredOrdersClose ==
    \A o \in Orders : IsOpen(o) /\ Expired(o, clock) ~> ~IsOpen(o)

\* "Guardrails per order and per day" (docs/threat-model.md:37): a day takes no
\* more BUY orders than its limit, across fills, cancels, a reset and the
\* change of date between a check and its insert.  It holds for one request
\* at a time; two submits may both be checked before either order is in the
\* table.
DailyLimitHolds ==
    \A date \in 0..Date(MaxClock) :
        Cardinality({o \in OrdersOn(date) : orders[o].side = "BUY"}) <= MaxPerDay

\* An order with an "order_rejected" audit row was rejected.  Refuted
\* with two requests: the row is written even when the order was cancelled
\* between the ledger's refusal and the change of its status.
AuditedOutcomesAreReal ==
    \A o \in rejections : orders[o].status = "rejected"

\* reset_paper: "Start the paper account over".  Cancelling the open orders first keeps the poll
\* from spending the balance the reset is about to withdraw, so it ends with its deposit, and then
\* there is nothing else: no position, no other cash, no open order.  A second request can still
\* spend the balance with an order of its own; then the account is left cleared but not funded.
ResetStep(r) ==
    /\ Resetting(r, "clear cash") => request'[r] \in {request[r], [op |-> "deposit"]}
    /\ Resetting(r, "deposit") => \/ request'[r] = request[r]
                                  \/ book' = StartedOver /\ \A o \in Orders : ~IsOpen(o)'

ResetStartsOver == [][\A r \in Requests : ResetStep(r)]_vars

\* What is under way ends as it should: a reset with an account started over, an expired order closed.
WorkEndsAsPromised == ResetStartsOver /\ ExpiredOrdersClose

(***************************************************************************)
(* The runs: a share is bought for the day or sold until cancelled.        *)
(* Orders are interchangeable, and so are requests.                        *)
(***************************************************************************)
BuysAndSells ==
    {[side |-> "BUY", ticker |-> t, qty |-> 1, tif |-> "day"] : t \in Tickers} \cup
    {[side |-> "SELL", ticker |-> t, qty |-> 1, tif |-> "gtc"] : t \in Tickers}

Symmetry == Permutations(Orders) \cup Permutations(Requests)
=============================================================================
