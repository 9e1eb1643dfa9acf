---------------------------- MODULE AlpacaBroker ----------------------------
(***************************************************************************)
(* The account "alpaca" (AlpacaBroker and sync_broker in                   *)
(* backend/app/execution.py): orders are sent to Alpaca, their fills come  *)
(* back as cumulative quantities, and what is new becomes a ledger row.    *)
(* Request threads place and cancel; the refresh thread and POST           *)
(* /api/broker/sync pull the orders, after reconciling when that is due.   *)
(* A call to Alpaca and a database call are steps of their own.            *)
(*                                                                         *)
(* Left out: bracket legs (each is one more order to `apply`), the average *)
(* price (every share trades at 1) and the seven-day window of the pull.   *)
(***************************************************************************)
EXTENDS LedgerRules

CONSTANTS Orders,      \* order ids
          Threads,     \* request threads and the refresh thread
          Ticker,      \* the one symbol traded
          Currency,    \* USD
          Buys,        \* quantities of the order forms to buy
          Sells,       \* quantities of the order forms to sell
          StartCash,   \* cash at Alpaca, and in the ledger once imported
          Reconciles,  \* does the periodic reconcile come due?
          Cancels,     \* do users cancel orders?
          MaxCrashes   \* bound: restarts of the process

ASSUME AlpacaAssumption ==
    /\ Ticker \in Tickers /\ Currency \in Currencies
    /\ Buys \subseteq Nat \ {0} /\ Sells \subseteq Nat \ {0}
    /\ StartCash \in Nat
    /\ Reconciles \in BOOLEAN /\ Cancels \in BOOLEAN
    /\ MaxCrashes \in Nat

VARIABLES book,     \* the alpaca rows of portfolio and cash_balances
          booked,   \* shares the ledger rows of each order add up to
          orders,   \* the orders table
          broker,   \* each order as Alpaca has it
          theirs,   \* Alpaca's positions and cash
          synced,   \* _last_reconcile has the owner (memory only)
          thread,   \* where each thread stands
          crashes   \* restarts so far

vars == <<book, booked, orders, broker, theirs, synced, thread, crashes>>

Tickets == [side : {"BUY"}, qty : Buys] \cup [side : {"SELL"}, qty : Sells]

OpenStatuses == {"new", "submitted", "partially_filled"}

\* A row of the orders table, and what Alpaca answers for an order.
Order == [status : OpenStatuses \cup {"filled", "cancelled", "rejected"}, side : TradeSides,
          qty : Nat \ {0}, filled : Nat, known : BOOLEAN]
View  == [status : OpenStatuses \cup {"filled", "cancelled"}, filled : Nat]

ASSUME NoOrderAssumption == None \notin Order \cup View

At(p, op)      == thread[p] # None /\ thread[p].op = op
Ready(p)       == thread[p] = None
Goto(p, state) == thread' = [thread EXCEPT ![p] = state]

Row(o, qty) == TradeRow(orders[o].side, Ticker, qty, 1, 0, Currency, o)

(***************************************************************************)
(* AlpacaBroker.place_order.  Submitting to an account that has not been   *)
(* reconciled since the start syncs first (SyncBegin); then the row is     *)
(* inserted as "new" and posted.                                           *)
(***************************************************************************)
Place(p) ==
    /\ Ready(p) /\ synced
    /\ \E o \in Orders, t \in Tickets :
         /\ orders[o] = None
         /\ t.side = "BUY" => t.qty <= book.cash[Currency]   \* guardrails.cash_only
         /\ orders' = [orders EXCEPT ![o] = [status |-> "new", side |-> t.side, qty |-> t.qty,
                                             filled |-> 0, known |-> FALSE]]
         /\ Goto(p, [op |-> "post", order |-> o])
    /\ UNCHANGED <<book, booked, broker, theirs, synced, crashes>>

\* POST /v2/orders: accepted and answered; refused; or the answer is lost,
\* which is a BrokerError whether or not Alpaca took the order.
Post(p) ==
    /\ At(p, "post")
    /\ LET o == thread[p].order
           accepted == [status |-> "submitted", filled |-> 0]
       IN  \/ /\ broker' = [broker EXCEPT ![o] = accepted]
              /\ \/ Goto(p, [op |-> "ack", order |-> o, resp |-> accepted])
                 \/ Goto(p, [op |-> "refused", order |-> o])
           \/ /\ Goto(p, [op |-> "refused", order |-> o])
              /\ UNCHANGED broker
    /\ UNCHANGED <<book, booked, orders, theirs, synced, crashes>>

\* set_order_status(..., "rejected", ..., ("new",))
PostRefused(p) ==
    /\ At(p, "refused")
    /\ LET o == thread[p].order
       IN  orders' = IF orders[o].status = "new"
                     THEN [orders EXCEPT ![o].status = "rejected"] ELSE orders
    /\ Goto(p, None)
    /\ UNCHANGED <<book, booked, broker, theirs, synced, crashes>>

\* set_broker_order_id
Ack(p) ==
    /\ At(p, "ack")
    /\ orders' = [orders EXCEPT ![thread[p].order].status = "submitted",
                                ![thread[p].order].known = TRUE]
    /\ Goto(p, [thread[p] EXCEPT !.op = "reread"])
    /\ UNCHANGED <<book, booked, broker, theirs, synced, crashes>>

\* get_order, the row that apply compares Alpaca's answer with
Reread(p) ==
    /\ At(p, "reread")
    /\ Goto(p, [op |-> "apply", order |-> thread[p].order, resp |-> thread[p].resp,
                mine |-> orders[thread[p].order], next |-> None])
    /\ UNCHANGED <<book, booked, orders, broker, theirs, synced, crashes>>

\* Mutant: the filled quantity is stored only with the last fill.
Updated_last(mine, resp, o) ==
    [orders EXCEPT ![o].status = resp.status,
                   ![o].filled = IF resp.status = "filled" THEN resp.filled ELSE @]

(***************************************************************************)
(* AlpacaBroker.apply: `mine` is the row as it was read, `resp` Alpaca's   *)
(* view.  New shares become a ledger row, from the account's cash or, if   *)
(* it refuses, as outside money; a second refusal (LedgerError: the shares *)
(* sold are not held) ends the whole handler with nothing written.         *)
(***************************************************************************)
Updated(mine, resp, o) ==
    [orders EXCEPT ![o].status = resp.status,
                   ![o].filled = IF resp.filled > mine.filled THEN resp.filled ELSE @]

Funded(row) == Accepts(book, row, TRUE)

Apply(p) ==
    /\ At(p, "apply")
    /\ LET o == thread[p].order
           mine == thread[p].mine
           resp == thread[p].resp
           row == Row(o, resp.filled - mine.filled)
       IN  \/ /\ resp.filled > mine.filled
              /\ Accepts(book, row, Funded(row))
              /\ book' = Booked(book, row, Funded(row))
              /\ booked' = [booked EXCEPT ![o] = @ + row.qty]
              /\ orders' = Updated(mine, resp, o)
              /\ Goto(p, thread[p].next)
           \/ /\ resp.filled > mine.filled
              /\ ~Accepts(book, row, Funded(row))
              /\ Goto(p, None)
              /\ UNCHANGED <<book, booked, orders>>
           \/ /\ resp.filled <= mine.filled
              /\ orders' = IF resp.status = mine.status THEN orders ELSE Updated(mine, resp, o)
              /\ Goto(p, thread[p].next)
              /\ UNCHANGED <<book, booked>>
    /\ UNCHANGED <<broker, theirs, synced, crashes>>

(***************************************************************************)
(* execution.cancel and AlpacaBroker.cancel: read the row, DELETE, GET,    *)
(* apply the answer against the row read at the start.  Alpaca may cancel  *)
(* at once or later (pending_cancel); an order already closed is a         *)
(* BrokerError and nothing changes.                                        *)
(***************************************************************************)
Cancel(p) ==
    /\ Cancels /\ Ready(p)
    /\ \E o \in Orders :
         /\ orders[o] # None /\ orders[o].status \in OpenStatuses /\ orders[o].known
         /\ Goto(p, [op |-> "delete", order |-> o, mine |-> orders[o]])
    /\ UNCHANGED <<book, booked, orders, broker, theirs, synced, crashes>>

Delete(p) ==
    /\ At(p, "delete")
    /\ LET o == thread[p].order
       IN  \/ /\ broker[o].status \in OpenStatuses
              /\ \/ broker' = [broker EXCEPT ![o].status = "cancelled"]
                 \/ UNCHANGED broker
              /\ Goto(p, [thread[p] EXCEPT !.op = "get"])
           \/ /\ broker[o].status \notin OpenStatuses
              /\ Goto(p, None)
              /\ UNCHANGED broker
    /\ UNCHANGED <<book, booked, orders, theirs, synced, crashes>>

\* Mutant: a cancel that was accepted is taken for done.
Get_optimistic(p) ==
    /\ At(p, "get")
    /\ Goto(p, [op |-> "apply", order |-> thread[p].order,
                resp |-> [broker[thread[p].order] EXCEPT !.status = "cancelled"],
                mine |-> thread[p].mine, next |-> None])
    /\ UNCHANGED <<book, booked, orders, broker, theirs, synced, crashes>>

Get(p) ==
    /\ At(p, "get")
    /\ Goto(p, [op |-> "apply", order |-> thread[p].order, resp |-> broker[thread[p].order],
                mine |-> thread[p].mine, next |-> None])
    /\ UNCHANGED <<book, booked, orders, broker, theirs, synced, crashes>>

(***************************************************************************)
(* sync_broker: reconcile when it has not been done since the start or is  *)
(* due, then sync.  `seen` is what the reconcile read at Alpaca.           *)
(***************************************************************************)
SyncBegin(p) ==
    /\ Ready(p)
    /\ \/ /\ ~synced \/ Reconciles
          /\ Goto(p, [op |-> "positions", seen |-> theirs])
       \/ /\ synced
          /\ Goto(p, [op |-> "pull", seen |-> None])
    /\ UNCHANGED <<book, booked, orders, broker, theirs, synced, crashes>>

\* reconcile, positions: an ADJUST to the quantity Alpaca had.
Adjust(p) ==
    /\ At(p, "positions")
    /\ LET qty == thread[p].seen.portfolio[Ticker].shares
           row == TradeRow("ADJUST", Ticker, qty, 1, 0, Currency, None)
       IN  book' = IF book.portfolio[Ticker].shares = qty THEN book ELSE Booked(book, row, FALSE)
    /\ Goto(p, [thread[p] EXCEPT !.op = "cash"])
    /\ UNCHANGED <<booked, orders, broker, theirs, synced, crashes>>

\* reconcile, cash: a DEPOSIT or WITHDRAW of the difference.
AdjustCash(p) ==
    /\ At(p, "cash")
    /\ LET cash == thread[p].seen.cash[Currency]
           mine == book.cash[Currency]
       IN  book' = IF cash > mine THEN Booked(book, CashRow("DEPOSIT", cash - mine, Currency), FALSE)
                   ELSE IF cash < mine THEN Booked(book, CashRow("WITHDRAW", mine - cash, Currency), FALSE)
                   ELSE book
    /\ synced' = TRUE
    /\ Goto(p, [thread[p] EXCEPT !.op = "pull"])
    /\ UNCHANGED <<booked, orders, broker, theirs, crashes>>

\* AlpacaBroker.sync: GET /v2/orders, one answer for every order Alpaca has.
Pull(p) ==
    /\ At(p, "pull")
    /\ LET listed == {o \in Orders : broker[o] # None}
       IN  Goto(p, [op |-> "sync", seen |-> thread[p].seen, resps |-> [o \in listed |-> broker[o]]])
    /\ UNCHANGED <<book, booked, orders, broker, theirs, synced, crashes>>

\* The loop of sync, with one order less to go.
Without(state, o) == [state EXCEPT !.resps = Restrict(@, DOMAIN @ \ {o})]

\* Mutant: only what is still open at Alpaca is applied.
SyncOrder_openOnly(p) ==
    /\ At(p, "sync")
    /\ \E o \in DOMAIN thread[p].resps :
         LET rest == Without(thread[p], o)
         IN  Goto(p, IF orders[o].known /\ thread[p].resps[o].status \in OpenStatuses
                     THEN [op |-> "apply", order |-> o, resp |-> thread[p].resps[o],
                           mine |-> orders[o], next |-> rest]
                     ELSE rest)
    /\ UNCHANGED <<book, booked, orders, broker, theirs, synced, crashes>>

\* get_order_by_broker_id, and on to apply; an order whose id was never stored
\* is not found.
SyncOrder(p) ==
    /\ At(p, "sync")
    /\ \E o \in DOMAIN thread[p].resps :
         LET rest == Without(thread[p], o)
         IN  Goto(p, IF orders[o].known
                     THEN [op |-> "apply", order |-> o, resp |-> thread[p].resps[o],
                           mine |-> orders[o], next |-> rest]
                     ELSE rest)
    /\ UNCHANGED <<book, booked, orders, broker, theirs, synced, crashes>>

SyncEnd(p) ==
    /\ At(p, "sync") /\ DOMAIN thread[p].resps = {}
    /\ Goto(p, None)
    /\ UNCHANGED <<book, booked, orders, broker, theirs, synced, crashes>>

(***************************************************************************)
(* Alpaca fills an open order, in parts or whole, and closes day orders;   *)
(* with margin and shorting off it never sells or spends what is not there.*)
(***************************************************************************)
BrokerFills(o) ==
    /\ broker[o] # None /\ broker[o].status \in OpenStatuses
    /\ \E qty \in 1..(orders[o].qty - broker[o].filled) :
         /\ Accepts(theirs, Row(o, qty), TRUE)
         /\ theirs' = Booked(theirs, Row(o, qty), TRUE)
         /\ broker' = [broker EXCEPT ![o] =
               [status |-> IF @.filled + qty = orders[o].qty THEN "filled" ELSE "partially_filled",
                filled |-> @.filled + qty]]
    /\ UNCHANGED <<book, booked, orders, synced, thread, crashes>>

BrokerCloses(o) ==
    /\ broker[o] # None /\ broker[o].status \in OpenStatuses
    /\ broker' = [broker EXCEPT ![o].status = "cancelled"]
    /\ UNCHANGED <<book, booked, orders, theirs, synced, thread, crashes>>

\* The process stops anywhere and starts again: the tables remain.
Crash ==
    /\ crashes < MaxCrashes
    /\ crashes' = crashes + 1
    /\ thread' = [p \in Threads |-> None]
    /\ synced' = FALSE
    /\ UNCHANGED <<book, booked, orders, broker, theirs>>

Init ==
    /\ book = EmptyBook
    /\ theirs = [EmptyBook EXCEPT !.cash[Currency] = StartCash]
    /\ booked = [o \in Orders |-> 0]
    /\ orders = [o \in Orders |-> None]
    /\ broker = [o \in Orders |-> None]
    /\ synced = FALSE
    /\ thread = [p \in Threads |-> None]
    /\ crashes = 0

PlaceSteps(p)  == Place(p) \/ Post(p) \/ PostRefused(p) \/ Ack(p) \/ Reread(p)
CancelSteps(p) == Cancel(p) \/ Delete(p) \/ Get(p)
SyncSteps(p)   == SyncBegin(p) \/ Adjust(p) \/ AdjustCash(p) \/ Pull(p) \/ SyncOrder(p) \/ SyncEnd(p)

Next == \/ \E p \in Threads : PlaceSteps(p) \/ CancelSteps(p) \/ SyncSteps(p) \/ Apply(p)
        \/ \E o \in Orders : BrokerFills(o) \/ BrokerCloses(o)
        \/ Crash

Spec == Init /\ [][Next]_vars

\* Every handler and every pass that has begun runs to its end, and the minute
\* job comes round whatever the users do in the meantime.  No user has to act
\* and Alpaca need not fill anything.
FairSpec ==
    /\ Spec
    /\ \A p \in Threads :
         /\ WF_vars(SyncSteps(p) \/ Apply(p) \/ Post(p) \/ PostRefused(p) \/ Ack(p)
                    \/ Reread(p) \/ Delete(p) \/ Get(p))
         /\ SF_vars(SyncBegin(p))
-----------------------------------------------------------------------------
(***************************************************************************)
(* Properties.                                                             *)
(***************************************************************************)
TypeOK ==
    /\ book \in Book /\ theirs \in Book
    /\ booked \in [Orders -> Nat]
    /\ orders \in [Orders -> {None} \cup Order]
    /\ broker \in [Orders -> {None} \cup View]
    /\ synced \in BOOLEAN
    /\ \A p \in Threads : thread[p] # None => thread[p].op \in
          {"post", "ack", "refused", "reread", "apply", "delete", "get",
           "positions", "cash", "pull", "sync"}
    /\ crashes \in 0..MaxCrashes

\* Whatever Alpaca reports in whatever order, the ledger's mirror of the
\* account is never overdrawn or short (also after a fill it could not fund).
MirrorSolvent == Solvent(book)

\* "each one a ledger row for exactly its new shares" (execution.py:17-19): the
\* rows of an order never add up to more than Alpaca filled of it, through
\* partial fills, cancels, repeated pulls and restarts.
NoShareBookedTwice ==
    \A o \in Orders : booked[o] <= (IF broker[o] = None THEN 0 ELSE broker[o].filled)

\* The filled quantity an order shows is what the ledger has booked for it; a
\* restart between the two is excluded because one transaction writes both.
FilledIsBooked ==
    \A o \in Orders : orders[o] # None => orders[o].filled = booked[o]

\* An order whose status came from Alpaca shows a closed status only when it
\* is closed there, so nothing the user sees as done can still fill.
ClosedMeansClosedThere ==
    \A o \in Orders :
        orders[o] # None /\ orders[o].known /\ orders[o].status \notin OpenStatuses =>
            broker[o].status = orders[o].status

\* The mirror of Alpaca's account agrees with itself at every step: its tables solvent, its rows
\* those of its orders, and what it shows as closed closed at Alpaca.
MirrorHolds == TypeOK /\ MirrorSolvent /\ FilledIsBooked /\ ClosedMeansClosedThere

\* Only a sale can be refused twice, as an overdraft and as outside money.
Selling == \E o \in Orders : orders[o] # None /\ orders[o].side = "SELL"

\* A fill of an order whose Alpaca id is stored reaches the ledger, however often the process
\* restarts and reconciles in between - as long as nothing is sold: a sale the ledger refuses
\* holds up every pull after it.
FillsReachTheLedger ==
    \A o \in Orders : \A n \in UNION {1..qty : qty \in Buys \cup Sells} :
        orders[o] # None /\ orders[o].known /\ broker[o].filled >= n ~> booked[o] >= n \/ Selling

\* "Make the ledger's alpaca account match Alpaca's positions and cash"
\* (reconcile): a pass that reconciled, while nothing happened at Alpaca,
\* ends with the two in agreement.  Refuted even with one thread: the
\* difference a fill not yet pulled makes is adjusted away, and the pull that
\* follows books the fill on top.
PassEndsInAgreement ==
    [][\A p \in Threads :
          At(p, "sync") /\ thread'[p] = None /\ thread[p].seen = theirs => book = theirs]_vars
=============================================================================
