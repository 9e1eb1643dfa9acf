---------------------------- MODULE PaperProofs ----------------------------
(***************************************************************************)
(* Proofs about the paper account.  First, it stays solvent, and each      *)
(* order is in the ledger exactly when it is filled, exactly once: the     *)
(* invariant is split into what the tables hold, which the database calls  *)
(* preserve, and where the threads stand, which only their own steps       *)
(* change.  Then what the account promises: its tables are the replay of   *)
(* its rows, a day order is filled in its own session, an order keeps the  *)
(* contract of OrderContract, and where requests come one at a time a day  *)
(* takes no more buys than its limit, and a reset starts the account over. *)
(* For these, every step is first sorted by what it does to the tables     *)
(* (TableStep), and each promise is followed through those few kinds.      *)
(***************************************************************************)
EXTENDS PaperBroker, LedgerRulesProofs, FiniteSetTheorems

TablesOK ==
    /\ book \in Book
    /\ transactions \in Seq(Entry)
    /\ orders \in [Orders -> {None} \cup Order]
    /\ AccountSolvent
    /\ FilledExactlyOnce

ThreadsOK ==
    /\ clock \in Phases
    /\ request \in [Requests -> {None} \cup RequestStates]
    /\ poll \in {None} \cup [at : Phases, todo : SUBSET Orders, refused : Orders \cup {None}]
    /\ rejections \subseteq Orders
    /\ resets \in 0..MaxResets

Inv == TablesOK /\ ThreadsOK

(***************************************************************************)
(* The ledger rows of an order.                                            *)
(***************************************************************************)
\* A row the ledger takes is stored as a well-formed entry of its order.
LEMMA StoredIsEntry ==
    ASSUME NEW tx \in Rows(Orders), NEW funded \in BOOLEAN
    PROVE  Stored(tx, funded) \in Entry /\ Stored(tx, funded).order = tx.order
<1>1. CashDelta(tx, funded) \in Int
  BY CashDeltaIsInt
<1>2. tx \in [side : Sides, ticker : Tickers \cup Currencies, qty : Nat, price : Nat,
             fees : Nat, currency : Currencies, order : Orders \cup {None}]
  BY DEF Rows
<1> QED BY <1>1, <1>2 DEF Stored, Entry

\* Appending a row adds its place to the rows of its own order only.
LEMMA RowsAfterAppend ==
    ASSUME transactions \in Seq(Entry), NEW row \in Entry, NEW o \in Orders,
           transactions' = Append(transactions, row)
    PROVE  /\ row.order # o => RowsOf(o)' = RowsOf(o)
           /\ row.order = o => RowsOf(o)' = RowsOf(o) \cup {Len(transactions')}
           /\ transactions'[Len(transactions')] = row
           /\ \A i \in RowsOf(o) : transactions'[i] = transactions[i]
<1>1. /\ Len(transactions') = Len(transactions) + 1
      /\ DOMAIN transactions' = 1..(Len(transactions) + 1)
      /\ DOMAIN transactions = 1..Len(transactions)
      /\ Len(transactions) \in Nat
      /\ transactions'[Len(transactions) + 1] = row
      /\ \A i \in 1..Len(transactions) : transactions'[i] = transactions[i]
  OBVIOUS
<1>2. /\ RowsOf(o)' = {i \in DOMAIN transactions' : transactions'[i].order = o}
      /\ RowsOf(o) = {i \in DOMAIN transactions : transactions[i].order = o}
  BY DEF RowsOf
<1> QED BY <1>1, <1>2

(***************************************************************************)
(* The database calls keep what the tables hold.                           *)
(***************************************************************************)
\* An order's fill is a row ledger.build lets through.
LEMMA FillRowIsRow ==
    ASSUME TablesOK, NEW o \in Orders, orders[o] # None, NEW price \in Prices
    PROVE  /\ FillRow(o, price) \in Rows(Orders)
           /\ FillRow(o, price).order = o
           /\ FillRow(o, price).side = orders[o].side
           /\ FillRow(o, price).ticker = orders[o].ticker
           /\ FillRow(o, price).qty = orders[o].qty
<1>1. orders[o] \in Order
  BY DEF TablesOK
<1>2. price \in Nat /\ Currency \in Currencies
  BY PaperAssumption
<1> QED BY <1>1, <1>2 DEF Order, FillRow, TradeRow, Rows, IsCash, Sides, TradeSides, CashSides

\* db.set_order_status: an order that closes without a fill was open, so it
\* has no rows and gets none.
LEMMA SetStatusKeepsTables ==
    ASSUME TablesOK, NEW o \in Orders, NEW status \in Statuses \ {"filled"},
           SetStatus(o, status), UNCHANGED <<book, transactions>>
    PROVE  TablesOK'
<1>1. CASE ~IsOpen(o)
  BY <1>1 DEF SetStatus, TablesOK, AccountSolvent, FilledExactlyOnce, RowsOf
<1>2. CASE IsOpen(o)
  <2> DEFINE closed == [orders[o] EXCEPT !.status = status]
  <2>1. orders[o] \in Order /\ orders[o].status # "filled"
    BY <1>2 DEF TablesOK, IsOpen, OpenStatuses
  <2>2. closed \in Order /\ closed.status = status
    BY <2>1 DEF Order
  <2>3. orders' = [orders EXCEPT ![o] = closed]
    BY <1>2 DEF SetStatus
  <2> HIDE DEF closed
  <2>4. orders' \in [Orders -> {None} \cup Order]
    BY <2>2, <2>3 DEF TablesOK
  <2>5. \A x \in Orders : RowsOf(x)' = RowsOf(x)
    BY DEF RowsOf
  <2>6. RowsOf(o) = {}
    BY <2>1 DEF TablesOK, FilledExactlyOnce
  <2>7. orders'[o].status # "filled" /\ \A x \in Orders \ {o} : orders'[x] = orders[x]
    BY <2>2, <2>3 DEF TablesOK
  <2>8. FilledExactlyOnce'
    BY <2>5, <2>6, <2>7 DEF TablesOK, FilledExactlyOnce
  <2> QED BY <2>4, <2>8 DEF TablesOK, AccountSolvent
<1> QED BY <1>1, <1>2

\* ledger.record of a row that names no order.
LEMMA WriteKeepsTables ==
    ASSUME TablesOK, NEW tx \in Rows(Orders), tx.order = None, Write(tx)
    PROVE  TablesOK'
<1> DEFINE row == Stored(tx, FALSE)
<1>1. book' \in Book /\ Solvent(book')
  BY BookedKeepsSolvent DEF TablesOK, AccountSolvent, Write
<1>2. /\ row \in Entry /\ row.order = None
      /\ transactions' = Append(transactions, row)
      /\ orders' = orders
  BY StoredIsEntry DEF Write
<1> HIDE DEF row
<1>3. transactions' \in Seq(Entry)
  BY <1>2 DEF TablesOK
<1>4. ASSUME NEW x \in Orders
      PROVE  RowsOf(x)' = RowsOf(x) /\ \A i \in RowsOf(x) : transactions'[i] = transactions[i]
  <2>1. row.order # x /\ row \in Entry
    BY <1>2, PaperAssumption
  <2>2. transactions \in Seq(Entry) /\ transactions' = Append(transactions, row)
    BY <1>2 DEF TablesOK
  <2> QED BY <2>1, <2>2, RowsAfterAppend
<1>5. FilledExactlyOnce'
  <2>1. FilledExactlyOnce /\ orders' = orders
    BY <1>2 DEF TablesOK
  <2> SUFFICES ASSUME NEW x \in Orders
               PROVE  IF orders[x] # None /\ orders[x].status = "filled"
                      THEN \E i \in RowsOf(x)' :
                              /\ RowsOf(x)' = {i}
                              /\ transactions'[i].side = orders[x].side
                              /\ transactions'[i].ticker = orders[x].ticker
                              /\ transactions'[i].qty = orders[x].qty
                      ELSE RowsOf(x)' = {}
    BY <2>1 DEF FilledExactlyOnce
  <2>2. RowsOf(x)' = RowsOf(x) /\ \A i \in RowsOf(x) : transactions'[i] = transactions[i]
    BY <1>4
  <2>3. CASE orders[x] # None /\ orders[x].status = "filled"
    <3>1. PICK i \in RowsOf(x) : /\ RowsOf(x) = {i}
                                 /\ transactions[i].side = orders[x].side
                                 /\ transactions[i].ticker = orders[x].ticker
                                 /\ transactions[i].qty = orders[x].qty
      BY <2>1, <2>3 DEF FilledExactlyOnce
    <3>2. i \in RowsOf(x)' /\ transactions'[i] = transactions[i]
      BY <2>2, <3>1
    <3> QED BY <2>2, <2>3, <3>1, <3>2
  <2>4. CASE ~(orders[x] # None /\ orders[x].status = "filled")
    BY <2>1, <2>2, <2>4 DEF FilledExactlyOnce
  <2> QED BY <2>3, <2>4
<1> QED BY <1>1, <1>2, <1>3, <1>5 DEF TablesOK, AccountSolvent

\* db.fill_order: the order was open, so this row is its first and its last.
LEMMA TryFillKeepsTables ==
    ASSUME TablesOK, NEW o \in Orders, NEW at \in Phases, NEW outcome, TryFill(o, at, outcome)
    PROVE  TablesOK'
<1>1. CASE UNCHANGED tables
  BY <1>1 DEF tables, TablesOK, AccountSolvent, FilledExactlyOnce, RowsOf
<1>2. CASE ~UNCHANGED tables
  <2>1. PICK price \in Prices :
           /\ IsOpen(o)
           /\ Accepts(book, FillRow(o, price), TRUE)
           /\ book' = Booked(book, FillRow(o, price), TRUE)
           /\ transactions' = Append(transactions, Stored(FillRow(o, price), TRUE))
           /\ orders' = [orders EXCEPT ![o].status = "filled", ![o].filled = at]
    BY <1>2 DEF TryFill
  <2> DEFINE row == Stored(FillRow(o, price), TRUE)
             filled == [orders[o] EXCEPT !.status = "filled", !.filled = at]
  <2>2. orders[o] # None /\ orders[o] \in Order /\ orders[o].status # "filled"
    BY <2>1 DEF TablesOK, IsOpen, OpenStatuses
  <2>3. FillRow(o, price) \in Rows(Orders)
    BY <2>2, FillRowIsRow
  <2>4. book' \in Book /\ Solvent(book')
    BY <2>1, <2>3, BookedKeepsSolvent DEF TablesOK, AccountSolvent
  <2>5. row \in Entry /\ row.order = o
    BY <2>2, <2>3, StoredIsEntry, FillRowIsRow
  <2>6. /\ row.side = orders[o].side
        /\ row.ticker = orders[o].ticker
        /\ row.qty = orders[o].qty
    BY <2>2, FillRowIsRow DEF Stored
  <2>7. /\ filled \in Order /\ filled.status = "filled"
        /\ filled.side = orders[o].side
        /\ filled.ticker = orders[o].ticker
        /\ filled.qty = orders[o].qty
    BY <2>2 DEF Order, Statuses
  <2>8. orders' = [orders EXCEPT ![o] = filled]
    BY <2>1, <2>2 DEF TablesOK, Order
  <2> HIDE DEF row, filled
  <2>9. transactions' = Append(transactions, row)
    BY <2>1 DEF row
  <2>10. transactions' \in Seq(Entry)
    BY <2>5, <2>9 DEF TablesOK
  <2>11. orders' \in [Orders -> {None} \cup Order]
    BY <2>7, <2>8 DEF TablesOK
  <2>12. RowsOf(o) = {}
    BY <2>2 DEF TablesOK, FilledExactlyOnce
  <2>13. RowsOf(o)' = {Len(transactions')} /\ transactions'[Len(transactions')] = row
    BY <2>5, <2>9, <2>12, RowsAfterAppend DEF TablesOK
  <2>14. ASSUME NEW x \in Orders \ {o}
         PROVE  /\ RowsOf(x)' = RowsOf(x)
                /\ \A i \in RowsOf(x) : transactions'[i] = transactions[i]
    BY <2>5, <2>9, RowsAfterAppend DEF TablesOK
  <2>15. orders'[o] = filled /\ \A x \in Orders \ {o} : orders'[x] = orders[x]
    BY <2>8 DEF TablesOK
  <2>16. FilledExactlyOnce'
    <3>1. ASSUME NEW x \in Orders \ {o}
          PROVE  IF orders'[x] # None /\ orders'[x].status = "filled"
                 THEN \E i \in RowsOf(x)' :
                        /\ RowsOf(x)' = {i}
                        /\ transactions'[i].side = orders'[x].side
                        /\ transactions'[i].ticker = orders'[x].ticker
                        /\ transactions'[i].qty = orders'[x].qty
                 ELSE RowsOf(x)' = {}
      BY <2>14, <2>15 DEF TablesOK, FilledExactlyOnce
    <3>2. /\ orders'[o] # None /\ orders'[o].status = "filled"
          /\ Len(transactions') \in RowsOf(o)'
          /\ transactions'[Len(transactions')].side = orders'[o].side
          /\ transactions'[Len(transactions')].ticker = orders'[o].ticker
          /\ transactions'[Len(transactions')].qty = orders'[o].qty
      BY <2>6, <2>7, <2>13, <2>15, NoOrderAssumption
    <3> QED BY <2>13, <3>1, <3>2 DEF FilledExactlyOnce
  <2> QED BY <2>4, <2>10, <2>11, <2>16 DEF TablesOK, AccountSolvent
<1> QED BY <1>1, <1>2

\* PaperBroker.place_order: a new order has no rows yet.
LEMMA InsertKeepsTables ==
    ASSUME TablesOK, NEW r \in Requests, Insert(r),
           request[r].ticket \in Tickets, request[r].at \in Phases
    PROVE  TablesOK'
<1>1. PICK o \in Orders :
         /\ orders[o] = None
         /\ orders' = [orders EXCEPT ![o] =
              [status |-> "submitted", side |-> request[r].ticket.side,
               ticker |-> request[r].ticket.ticker, qty |-> request[r].ticket.qty,
               tif |-> request[r].ticket.tif, placed |-> request[r].at, filled |-> None]]
  BY DEF Insert
<1> DEFINE placed == [status |-> "submitted", side |-> request[r].ticket.side,
               ticker |-> request[r].ticket.ticker, qty |-> request[r].ticket.qty,
               tif |-> request[r].ticket.tif, placed |-> request[r].at, filled |-> None]
<1>2. placed \in Order /\ placed.status # "filled"
  BY PaperAssumption DEF Order, Statuses
<1>3. orders' = [orders EXCEPT ![o] = placed]
  BY <1>1
<1> HIDE DEF placed
<1>4. orders' \in [Orders -> {None} \cup Order]
  BY <1>2, <1>3 DEF TablesOK
<1>5. UNCHANGED <<book, transactions>> /\ \A x \in Orders : RowsOf(x)' = RowsOf(x)
  BY DEF Insert, RowsOf
<1>6. RowsOf(o) = {}
  BY <1>1 DEF TablesOK, FilledExactlyOnce
<1>7. orders'[o] = placed /\ \A x \in Orders \ {o} : orders'[x] = orders[x]
  BY <1>3 DEF TablesOK
<1>8. FilledExactlyOnce'
  BY <1>2, <1>5, <1>6, <1>7 DEF TablesOK, FilledExactlyOnce
<1> QED BY <1>4, <1>5, <1>8 DEF TablesOK, AccountSolvent

(***************************************************************************)
(* The threads.                                                            *)
(***************************************************************************)
\* What a request thread holds, by where it stands.
LEMMA RequestHolds ==
    ASSUME ThreadsOK, NEW r \in Requests, request[r] # None
    PROVE  /\ request[r].op = "place" => request[r].ticket \in Tickets /\ request[r].at \in Phases
           /\ request[r].op = "fill" => request[r].order \in Orders /\ request[r].at \in Phases
           /\ request[r].op = "reject" => request[r].order \in Orders
           /\ request[r].op = "cancel orders" =>
                 request[r] \in [op : {"cancel orders"}, todo : SUBSET Orders]
           /\ request[r].op = "clear positions" =>
                 request[r] \in [op : {"clear positions"}, todo : SUBSET Tickers]
           /\ request[r].op = "clear cash" => request[r].balance \in Nat
<1>1. request[r] \in RequestStates
  BY DEF ThreadsOK
<1> QED BY <1>1 DEF RequestStates

\* A request thread moves on to another of its states, and nothing else moves.
LEMMA EnterKeepsThreads ==
    ASSUME ThreadsOK, NEW r \in Requests, NEW state \in {None} \cup RequestStates,
           Enter(r, state), UNCHANGED <<clock, poll, resets>>, rejections' \subseteq Orders
    PROVE  ThreadsOK'
  BY DEF ThreadsOK, Enter

\* Submit: the checks, the insert, the fill and the rejection.
LEMMA PlaceKeepsInv ==
    ASSUME Inv, NEW r \in Requests, Place(r)
    PROVE  Inv'
<1> USE DEF Inv
<1>1. CASE Check(r)
  <2>1. PICK ticket \in Tickets : Enter(r, [op |-> "place", ticket |-> ticket, at |-> clock])
    BY <1>1 DEF Check
  <2>2. [op |-> "place", ticket |-> ticket, at |-> clock] \in RequestStates
    BY DEF RequestStates, ThreadsOK
  <2>3. UNCHANGED <<tables, clock, poll, rejections, resets>>
    BY <1>1 DEF Check
  <2>4. ThreadsOK'
    BY <2>1, <2>2, <2>3, EnterKeepsThreads DEF ThreadsOK
  <2> QED BY <2>3, <2>4 DEF tables, TablesOK, AccountSolvent, FilledExactlyOnce, RowsOf
<1>2. CASE Insert(r)
  <2>1. request[r].ticket \in Tickets /\ request[r].at \in Phases
    BY <1>2, RequestHolds DEF Insert
  <2>2. TablesOK'
    BY <1>2, <2>1, InsertKeepsTables
  <2>3. PICK o \in Orders :
           Enter(r, IF Live(request[r].at)
                    THEN [op |-> "fill", order |-> o, at |-> request[r].at] ELSE None)
    BY <1>2 DEF Insert
  <2>4. [op |-> "fill", order |-> o, at |-> request[r].at] \in RequestStates
    BY <2>1 DEF RequestStates
  <2>5. ThreadsOK'
    BY <1>2, <2>3, <2>4, EnterKeepsThreads DEF Insert, ThreadsOK
  <2> QED BY <2>2, <2>5
<1>3. CASE FillNow(r)
  <2>1. request[r].order \in Orders /\ request[r].at \in Phases
    BY <1>3, RequestHolds DEF FillNow
  <2>2. PICK outcome \in {"resting", "gone", "filled", "refused"} :
           /\ TryFill(request[r].order, request[r].at, outcome)
           /\ Enter(r, IF outcome = "refused" THEN [op |-> "reject", order |-> request[r].order]
                                              ELSE None)
    BY <1>3 DEF FillNow
  <2>3. TablesOK'
    BY <2>1, <2>2, TryFillKeepsTables
  <2>4. [op |-> "reject", order |-> request[r].order] \in RequestStates
    BY <2>1 DEF RequestStates
  <2>5. ThreadsOK'
    BY <1>3, <2>2, <2>4, EnterKeepsThreads DEF FillNow, ThreadsOK
  <2> QED BY <2>3, <2>5
<1>4. CASE RejectNow(r)
  <2>1. request[r].order \in Orders
    BY <1>4, RequestHolds DEF RejectNow
  <2>2. /\ SetStatus(request[r].order, "rejected")
        /\ rejections' = rejections \cup {request[r].order}
        /\ UNCHANGED <<book, transactions>>
    BY <1>4 DEF RejectNow, RejectFill
  <2>3. TablesOK'
    BY <2>1, <2>2, SetStatusKeepsTables DEF Statuses
  <2>4. Enter(r, None) /\ UNCHANGED <<clock, poll, resets>>
    BY <1>4 DEF RejectNow
  <2>5. ThreadsOK'
    BY <2>1, <2>2, <2>4, EnterKeepsThreads DEF ThreadsOK
  <2> QED BY <2>3, <2>5
<1> QED BY <1>1, <1>2, <1>3, <1>4 DEF Place

\* A cancel closes an open order, and only its own thread moves.
LEMMA CancelKeepsInv ==
    ASSUME Inv, NEW r \in Requests, Cancel(r)
    PROVE  Inv'
<1>1. PICK o \in Orders : SetStatus(o, "cancelled")
  BY DEF Cancel
<1>2. UNCHANGED <<book, transactions, clock, request, poll, rejections, resets>>
  BY DEF Cancel
<1>3. TablesOK'
  BY <1>1, <1>2, SetStatusKeepsTables DEF Inv, Statuses
<1> QED BY <1>2, <1>3 DEF Inv, ThreadsOK

\* A step that moves only a request thread.
LEMMA SameTables ==
    ASSUME TablesOK, UNCHANGED tables
    PROVE  TablesOK'
  BY DEF tables, TablesOK, AccountSolvent, FilledExactlyOnce, RowsOf

\* The rows reset_paper writes are rows ledger.build lets through.
LEMMA ResetBuildsRows ==
    /\ \A t \in Tickers : /\ TradeRow("ADJUST", t, 0, 1, 0, Currency, None) \in Rows(Orders)
                          /\ TradeRow("ADJUST", t, 0, 1, 0, Currency, None).order = None
    /\ \A side \in CashSides, amount \in Nat \ {0} :
          /\ CashRow(side, amount, Currency) \in Rows(Orders)
          /\ CashRow(side, amount, Currency).order = None
  BY PaperAssumption DEF TradeRow, CashRow, Rows, IsCash, Sides, TradeSides, CashSides

\* reset_paper: each of its steps is a status change or a ledger row.
LEMMA ResetKeepsInv ==
    ASSUME Inv, NEW r \in Requests, Reset(r)
    PROVE  Inv'
<1> USE DEF Inv
<1>1. CASE ResetBegin(r)
  <2>1. [op |-> "cancel orders", todo |-> Submitted] \in RequestStates
    BY DEF RequestStates, Submitted
  <2>2. /\ Enter(r, [op |-> "cancel orders", todo |-> Submitted])
        /\ UNCHANGED <<tables, clock, poll, rejections>>
    BY <1>1 DEF ResetBegin
  <2>3. resets < MaxResets /\ resets' = resets + 1
    BY <1>1 DEF ResetBegin
  <2>4. resets' \in 0..MaxResets
    BY <2>3, PaperAssumption DEF ThreadsOK
  <2>5. ThreadsOK'
    BY <2>1, <2>2, <2>4 DEF ThreadsOK, Enter
  <2> QED BY <2>2, <2>5, SameTables
<1>2. CASE ResetOrders(r)
  <2>1. /\ request[r] \in [op : {"cancel orders"}, todo : SUBSET Orders]
        /\ UNCHANGED <<clock, poll, rejections, resets>>
    BY <1>2, RequestHolds DEF ResetOrders, Resetting
  <2>2. CASE \E o \in request[r].todo :
               /\ SetStatus(o, "cancelled")
               /\ Enter(r, [request[r] EXCEPT !.todo = @ \ {o}])
               /\ UNCHANGED <<book, transactions>>
    <3>1. PICK o \in request[r].todo :
             /\ SetStatus(o, "cancelled")
             /\ Enter(r, [request[r] EXCEPT !.todo = @ \ {o}])
             /\ UNCHANGED <<book, transactions>>
      BY <2>2
    <3>2. o \in Orders /\ [request[r] EXCEPT !.todo = @ \ {o}] \in RequestStates
      BY <2>1 DEF RequestStates
    <3>3. TablesOK'
      BY <3>1, <3>2, SetStatusKeepsTables DEF Statuses
    <3>4. ThreadsOK'
      BY <2>1, <3>1, <3>2, EnterKeepsThreads DEF ThreadsOK
    <3> QED BY <3>3, <3>4
  <2>3. CASE /\ Enter(r, [op |-> "clear positions", todo |-> {t \in Tickers : Held(book, t)}])
             /\ UNCHANGED tables
    <3>1. [op |-> "clear positions", todo |-> {t \in Tickers : Held(book, t)}] \in RequestStates
      BY DEF RequestStates
    <3>2. ThreadsOK'
      BY <2>1, <2>3, <3>1, EnterKeepsThreads DEF ThreadsOK
    <3> QED BY <2>3, <3>2, SameTables
  <2> QED BY <1>2, <2>2, <2>3 DEF ResetOrders
<1>3. CASE ResetPositions(r)
  <2>1. /\ request[r] \in [op : {"clear positions"}, todo : SUBSET Tickers]
        /\ UNCHANGED <<clock, poll, rejections, resets>>
    BY <1>3, RequestHolds DEF ResetPositions, Resetting
  <2>2. CASE \E t \in request[r].todo :
               /\ Write(TradeRow("ADJUST", t, 0, 1, 0, Currency, None))
               /\ Enter(r, [request[r] EXCEPT !.todo = @ \ {t}])
    <3>1. PICK t \in request[r].todo :
             /\ Write(TradeRow("ADJUST", t, 0, 1, 0, Currency, None))
             /\ Enter(r, [request[r] EXCEPT !.todo = @ \ {t}])
      BY <2>2
    <3>2. t \in Tickers /\ [request[r] EXCEPT !.todo = @ \ {t}] \in RequestStates
      BY <2>1 DEF RequestStates
    <3>3. TablesOK'
      BY <3>1, <3>2, ResetBuildsRows, WriteKeepsTables
    <3>4. ThreadsOK'
      BY <2>1, <3>1, <3>2, EnterKeepsThreads DEF ThreadsOK
    <3> QED BY <3>3, <3>4
  <2>3. CASE /\ Enter(r, [op |-> "clear cash", balance |-> book.cash[Currency]])
             /\ UNCHANGED tables
    <3>1. book.cash[Currency] \in Nat
      BY PaperAssumption DEF TablesOK, AccountSolvent, Solvent, Book
    <3>2. [op |-> "clear cash", balance |-> book.cash[Currency]] \in RequestStates
      BY <3>1 DEF RequestStates
    <3>3. ThreadsOK'
      BY <2>1, <2>3, <3>2, EnterKeepsThreads DEF ThreadsOK
    <3> QED BY <2>3, <3>3, SameTables
  <2> QED BY <1>3, <2>2, <2>3 DEF ResetPositions
<1>4. CASE ResetCash(r)
  <2>1. request[r].balance \in Nat
    BY <1>4, RequestHolds DEF ResetCash, Resetting
  <2>2. /\ Enter(r, [op |-> "deposit"])
        /\ UNCHANGED <<clock, poll, rejections, resets>>
        /\ \/ UNCHANGED tables
           \/ /\ request[r].balance # 0
              /\ Write(CashRow("WITHDRAW", request[r].balance, Currency))
    BY <1>4 DEF ResetCash
  <2>3. TablesOK'
    BY <2>1, <2>2, SameTables, ResetBuildsRows, WriteKeepsTables DEF CashSides
  <2>4. ThreadsOK'
    BY <2>2, EnterKeepsThreads DEF ThreadsOK, RequestStates
  <2> QED BY <2>3, <2>4
<1>5. CASE ResetFails(r)
  <2>1. ThreadsOK'
    BY <1>5, EnterKeepsThreads DEF ResetFails, ThreadsOK
  <2> QED BY <1>5, <2>1, SameTables DEF ResetFails
<1>6. CASE ResetDeposit(r)
  <2>1. TablesOK'
    BY <1>6, ResetBuildsRows, WriteKeepsTables, PaperAssumption DEF ResetDeposit, CashSides
  <2>2. ThreadsOK'
    BY <1>6, EnterKeepsThreads DEF ResetDeposit, ThreadsOK
  <2> QED BY <2>1, <2>2
<1> QED BY <1>1, <1>2, <1>3, <1>4, <1>5, <1>6 DEF Reset

\* The poll: whatever order it expires, fills or rejects, with whatever `now`.
LEMMA PollKeepsInv ==
    ASSUME Inv, Poll
    PROVE  Inv'
<1> USE DEF Inv
<1> DEFINE Passes == [at : Phases, todo : SUBSET Orders, refused : Orders \cup {None}]
<1>1. CASE PollStart
  <2>1. [at |-> clock, todo |-> Submitted, refused |-> None] \in Passes
    BY DEF Submitted, ThreadsOK
  <2> QED BY <1>1, <2>1, SameTables DEF PollStart, ThreadsOK
<1>2. CASE PollExpire
  <2>1. poll \in Passes
    BY <1>2 DEF PollExpire, ThreadsOK
  <2>2. PICK o \in poll.todo : /\ SetStatus(o, "cancelled")
                               /\ poll' = [poll EXCEPT !.todo = @ \ {o}]
    BY <1>2 DEF PollExpire
  <2>3. o \in Orders /\ poll' \in Passes
    BY <2>1, <2>2
  <2>4. TablesOK'
    BY <1>2, <2>2, <2>3, SetStatusKeepsTables DEF PollExpire, Statuses
  <2> QED BY <1>2, <2>3, <2>4 DEF PollExpire, ThreadsOK
<1>3. CASE PollFill
  <2>1. poll \in Passes
    BY <1>3 DEF PollFill, ThreadsOK
  <2>2. PICK o \in poll.todo, outcome \in {"resting", "gone", "filled", "refused"} :
           /\ TryFill(o, poll.at, outcome)
           /\ poll' = [poll EXCEPT !.todo = @ \ {o},
                                  !.refused = IF outcome = "refused" THEN o ELSE None]
    BY <1>3 DEF PollFill
  <2>3. o \in Orders /\ poll.at \in Phases /\ poll' \in Passes
    BY <2>1, <2>2
  <2>4. TablesOK'
    BY <2>2, <2>3, TryFillKeepsTables
  <2> QED BY <1>3, <2>3, <2>4 DEF PollFill, ThreadsOK
<1>4. CASE PollReject
  <2>1. poll \in Passes /\ poll.refused \in Orders
    BY <1>4 DEF PollReject, ThreadsOK
  <2>2. /\ SetStatus(poll.refused, "rejected")
        /\ rejections' = rejections \cup {poll.refused}
        /\ UNCHANGED <<book, transactions>>
        /\ poll' = [poll EXCEPT !.refused = None]
    BY <1>4 DEF PollReject, RejectFill
  <2>3. TablesOK'
    BY <2>1, <2>2, SetStatusKeepsTables DEF Statuses
  <2>4. poll' \in Passes
    BY <2>1, <2>2
  <2> QED BY <1>4, <2>1, <2>2, <2>3, <2>4 DEF PollReject, ThreadsOK
<1>5. CASE PollEnd
  BY <1>5, SameTables DEF PollEnd, ThreadsOK
<1> QED BY <1>1, <1>2, <1>3, <1>4, <1>5 DEF Poll

\* One case for each kind of step: a request, the poll, the clock.
LEMMA NextKeepsInv ==
    ASSUME Inv, [Next]_vars
    PROVE  Inv'
<1>1. CASE UNCHANGED vars
  BY <1>1, SameTables DEF vars, tables, Inv, ThreadsOK
<1>2. ASSUME NEW r \in Requests, Place(r)
      PROVE  Inv'
  BY <1>2, PlaceKeepsInv
<1>3. ASSUME NEW r \in Requests, Cancel(r)
      PROVE  Inv'
  BY <1>3, CancelKeepsInv
<1>4. ASSUME NEW r \in Requests, Reset(r)
      PROVE  Inv'
  BY <1>4, ResetKeepsInv
<1>5. CASE Poll
  BY <1>5, PollKeepsInv
<1>6. CASE Tick
  BY <1>6, SameTables, PaperAssumption DEF Tick, Inv, ThreadsOK, Phases
<1> QED BY <1>1, <1>2, <1>3, <1>4, <1>5, <1>6 DEF Next

\* The account starts as reset_paper leaves it.
LEMMA InitHoldsInv ==
    ASSUME Init
    PROVE  Inv
<1> DEFINE row == CashRow("DEPOSIT", StartCash, Currency)
           entry == Stored(row, FALSE)
<1>1. row \in Rows(Orders) /\ row.order = None
  BY ResetBuildsRows, PaperAssumption DEF CashSides
<1>2. entry \in Entry /\ entry.order = None
  BY <1>1, StoredIsEntry
<1>3. transactions = <<entry>>
  BY DEF Init
<1> HIDE DEF entry, row
<1>4. transactions \in Seq(Entry) /\ DOMAIN transactions = {1} /\ transactions[1] = entry
  BY <1>2, <1>3
<1>5. \A o \in Orders : RowsOf(o) = {} /\ orders[o] = None
  BY <1>2, <1>4, PaperAssumption DEF RowsOf, Init
<1>6. FilledExactlyOnce
  BY <1>5 DEF FilledExactlyOnce
<1>7. book \in Book /\ AccountSolvent
  BY PaperAssumption DEF Init, StartedOver, EmptyBook, NotHeld, Book, Position, AccountSolvent, Solvent, Held
<1>8. ThreadsOK
  BY PaperAssumption DEF Init, ThreadsOK, Phases
<1> QED BY <1>4, <1>6, <1>7, <1>8 DEF Inv, TablesOK, Init

\* The inductive invariant holds throughout.
LEMMA InvHolds == Spec => []Inv
<1>1. Init => Inv
  BY InitHoldsInv
<1>2. Inv /\ [Next]_vars => Inv'
  BY NextKeepsInv
<1> QED BY <1>1, <1>2, PTL DEF Spec

\* The shape of the tables and of every thread, for any number of orders,
\* requests, symbols, dates and resets.
THEOREM PaperTypeOK == Spec => []TypeOK
<1>1. Inv => TypeOK
  BY DEF Inv, TablesOK, ThreadsOK, TypeOK
<1> QED BY <1>1, InvHolds, PTL

\* However orders, fills, a reset and the poll race for the same cash and
\* shares, the paper account is never overdrawn and never short.
THEOREM PaperSolvent == Spec => []AccountSolvent
<1>1. Inv => AccountSolvent
  BY DEF Inv, TablesOK
<1> QED BY <1>1, InvHolds, PTL

\* An order is in the ledger exactly when it is filled, exactly once, although
\* its request and the poll may both be trying to fill it.
THEOREM PaperFillsOnce == Spec => []FilledExactlyOnce
<1>1. Inv => FilledExactlyOnce
  BY DEF Inv, TablesOK
<1> QED BY <1>1, InvHolds, PTL

(***************************************************************************)
(* What a step does to the tables, and the two further parts of the        *)
(* account's agreement: its rows replay to its tables, and a day order's   *)
(* fill is stamped within its session.                                     *)
(***************************************************************************)
\* The moment `at` of a fill is that of the request that placed the order, or
\* of a pass of the poll that found the order unexpired while the market is live.
FillsAt(o, at) ==
    \/ \E r \in Requests : /\ request[r] # None /\ request[r].op = "fill"
                           /\ request[r].order = o /\ request[r].at = at
    \/ poll # None /\ o \in poll.todo /\ poll.at = at /\ Live(at) /\ ~Expired(o, at)

\* An open order is cancelled or rejected, and no row is written.
Closes(o) == /\ \E status \in {"cancelled", "rejected"} : SetStatus(o, status)
             /\ UNCHANGED <<book, transactions>>

\* A row that belongs to no order: the reset's withdrawals and deposit.
Adjusts == \E tx \in Rows(Orders) : tx.order = None /\ Write(tx)

TableStep ==
    \/ UNCHANGED tables
    \/ \E o \in Orders : Closes(o)
    \/ \E r \in Requests : Insert(r)
    \/ \E o \in Orders, at \in Phases : TryFill(o, at, "filled") /\ FillsAt(o, at)
    \/ Adjusts

\* An attempt that does not fill leaves the tables alone.
LEMMA OnlyFillsMoveTables ==
    ASSUME NEW o, NEW at, NEW outcome, TryFill(o, at, outcome)
    PROVE  UNCHANGED tables \/ TryFill(o, at, "filled")
  BY DEF TryFill, tables

\* Placing: the order is inserted, filled at once, or rejected.
LEMMA PlaceSteps ==
    ASSUME Inv, NEW r \in Requests, Place(r)
    PROVE  TableStep
<1>1. CASE Check(r)
  BY <1>1 DEF Check, TableStep
<1>2. CASE Insert(r)
  BY <1>2 DEF TableStep
<1>3. CASE FillNow(r)
  <2>1. request[r] # None /\ request[r].op = "fill"
    BY <1>3 DEF FillNow
  <2>2. request[r].order \in Orders /\ request[r].at \in Phases
    BY <2>1, RequestHolds DEF Inv
  <2>3. PICK outcome : TryFill(request[r].order, request[r].at, outcome)
    BY <1>3 DEF FillNow
  <2>4. FillsAt(request[r].order, request[r].at)
    BY <2>1 DEF FillsAt
  <2> QED BY <2>2, <2>3, <2>4, OnlyFillsMoveTables DEF TableStep
<1>4. CASE RejectNow(r)
  <2>1. request[r].order \in Orders
    BY <1>4, RequestHolds DEF RejectNow, Inv
  <2>2. Closes(request[r].order)
    BY <1>4 DEF RejectNow, RejectFill, Closes
  <2> QED BY <2>1, <2>2 DEF TableStep
<1> QED BY <1>1, <1>2, <1>3, <1>4 DEF Place

\* A reset closes orders and books rows that belong to no order.
LEMMA ResetSteps ==
    ASSUME Inv, NEW r \in Requests, Reset(r)
    PROVE  TableStep
<1>1. CASE ResetBegin(r) \/ ResetFails(r)
  BY <1>1 DEF ResetBegin, ResetFails, TableStep
<1>2. CASE ResetOrders(r)
  <2>1. request[r].todo \subseteq Orders
    BY <1>2, RequestHolds DEF ResetOrders, Resetting, Inv
  <2>2. CASE \E o \in request[r].todo : SetStatus(o, "cancelled") /\ UNCHANGED <<book, transactions>>
    BY <2>1, <2>2 DEF Closes, TableStep
  <2>3. CASE UNCHANGED tables
    BY <2>3 DEF TableStep
  <2> QED BY <1>2, <2>2, <2>3 DEF ResetOrders
<1>3. CASE ResetPositions(r)
  <2>1. request[r].todo \subseteq Tickers
    BY <1>3, RequestHolds DEF ResetPositions, Resetting, Inv
  <2>2. CASE \E t \in request[r].todo : Write(TradeRow("ADJUST", t, 0, 1, 0, Currency, None))
    BY <2>1, <2>2, ResetBuildsRows DEF Adjusts, TableStep
  <2>3. CASE UNCHANGED tables
    BY <2>3 DEF TableStep
  <2> QED BY <1>3, <2>2, <2>3 DEF ResetPositions
<1>4. CASE ResetCash(r)
  <2>1. request[r].balance \in Nat
    BY <1>4, RequestHolds DEF ResetCash, Resetting, Inv
  <2>2. UNCHANGED tables \/ /\ request[r].balance # 0
                            /\ Write(CashRow("WITHDRAW", request[r].balance, Currency))
    BY <1>4 DEF ResetCash
  <2>3. "WITHDRAW" \in CashSides
    BY DEF CashSides
  <2> QED BY <2>1, <2>2, <2>3, ResetBuildsRows DEF Adjusts, TableStep
<1>5. CASE ResetDeposit(r)
  <2>1. Write(CashRow("DEPOSIT", StartCash, Currency)) /\ "DEPOSIT" \in CashSides
    BY <1>5 DEF ResetDeposit, CashSides
  <2> QED BY <2>1, ResetBuildsRows, PaperAssumption DEF Adjusts, TableStep
<1> QED BY <1>1, <1>2, <1>3, <1>4, <1>5 DEF Reset

\* The poll closes what has expired or is refused and fills the rest.
LEMMA PollSteps ==
    ASSUME Inv, Poll
    PROVE  TableStep
<1> DEFINE Passes == [at : Phases, todo : SUBSET Orders, refused : Orders \cup {None}]
<1>1. CASE PollStart \/ PollEnd
  BY <1>1 DEF PollStart, PollEnd, TableStep
<1>2. CASE PollExpire
  <2>1. poll \in Passes
    BY <1>2 DEF PollExpire, Inv, ThreadsOK
  <2> QED BY <1>2, <2>1 DEF PollExpire, Closes, TableStep
<1>3. CASE PollFill
  <2>1. poll \in Passes /\ poll # None
    BY <1>3 DEF PollFill, Inv, ThreadsOK
  <2>2. PICK o \in poll.todo, outcome \in {"resting", "gone", "filled", "refused"} :
           TryFill(o, poll.at, outcome)
    BY <1>3 DEF PollFill
  <2>3. o \in Orders /\ poll.at \in Phases
    BY <2>1
  <2>4. FillsAt(o, poll.at)
    BY <1>3, <2>1, <2>2 DEF PollFill, AllExpired, FillsAt
  <2> QED BY <2>2, <2>3, <2>4, OnlyFillsMoveTables DEF TableStep
<1>4. CASE PollReject
  <2>1. poll \in Passes /\ poll.refused \in Orders
    BY <1>4 DEF PollReject, Inv, ThreadsOK
  <2> QED BY <1>4, <2>1 DEF PollReject, RejectFill, Closes, TableStep
<1> QED BY <1>1, <1>2, <1>3, <1>4 DEF Poll

\* Every step of the program is one of these.
LEMMA StepsOfTables ==
    ASSUME Inv, [Next]_vars
    PROVE  TableStep
<1>1. CASE UNCHANGED vars \/ Tick
  BY <1>1 DEF vars, tables, Tick, TableStep
<1>2. ASSUME NEW r \in Requests, Place(r) \/ Cancel(r) \/ Reset(r)
      PROVE  TableStep
  <2>1. CASE Cancel(r)
    BY <2>1 DEF Cancel, Closes, TableStep
  <2> QED BY <1>2, <2>1, PlaceSteps, ResetSteps
<1> QED BY <1>1, <1>2, PollSteps DEF Next

(***************************************************************************)
(* The tables are the replay of the rows.                                  *)
(***************************************************************************)
\* A booking stores the row whose replay it is.
LEMMA BookingKeepsReplay ==
    ASSUME TablesOK, PaperReplays, NEW tx \in Rows(Orders), NEW funded \in BOOLEAN,
           book' = Booked(book, tx, funded),
           transactions' = Append(transactions, Stored(tx, funded))
    PROVE  PaperReplays'
<1> DEFINE row == Stored(tx, funded)
<1>1. row \in Entry
  BY StoredIsEntry
<1>2. book' = Replayed(book, row)
  BY BookedIsReplayed
<1> HIDE DEF row
<1>3. Replay(Append(transactions, row)) = Replayed(Replay(transactions), row)
  BY <1>1, ReplayOfAppend DEF TablesOK
<1>4. transactions' = Append(transactions, row)
  BY DEF row
<1> QED BY <1>2, <1>3, <1>4 DEF PaperReplays

\* A row is stored and booked together; nothing else touches either.
LEMMA StepKeepsReplay ==
    ASSUME TablesOK, PaperReplays, TableStep
    PROVE  PaperReplays'
<1>1. CASE UNCHANGED <<book, transactions>>
  BY <1>1 DEF PaperReplays
<1>2. ASSUME NEW o \in Orders, NEW at \in Phases, TryFill(o, at, "filled")
      PROVE  PaperReplays'
  <2>1. PICK price \in Prices :
           /\ IsOpen(o)
           /\ book' = Booked(book, FillRow(o, price), TRUE)
           /\ transactions' = Append(transactions, Stored(FillRow(o, price), TRUE))
    BY <1>2 DEF TryFill
  <2>2. FillRow(o, price) \in Rows(Orders)
    BY <2>1, FillRowIsRow DEF IsOpen
  <2> QED BY <2>1, <2>2, BookingKeepsReplay
<1>3. CASE Adjusts
  <2>1. PICK tx \in Rows(Orders) : Write(tx)
    BY <1>3 DEF Adjusts
  <2> QED BY <2>1, BookingKeepsReplay DEF Write
<1> QED BY <1>1, <1>2, <1>3 DEF TableStep, tables, Closes, Insert

\* The account starts with the tables of its one row.
LEMMA InitReplays ==
    ASSUME Init
    PROVE  PaperReplays
<1> DEFINE tx == CashRow("DEPOSIT", StartCash, Currency)
           row == Stored(tx, FALSE)
<1>1. row \in Entry
  BY ResetBuildsRows, StoredIsEntry, PaperAssumption DEF CashSides
<1>2. book = Replayed(EmptyBook, row)
  <2>1. row.currency = Currency /\ row.cash_delta = StartCash /\ IsCash(row)
    BY DEF Stored, CashRow, CashDelta, IsCash, CashSides
  <2> HIDE DEF row
  <2>2. EmptyBook.cash[Currency] = 0 /\ 0 + StartCash = StartCash
    BY PaperAssumption DEF EmptyBook
  <2>3. book = [EmptyBook EXCEPT !.cash[Currency] = StartCash]
    BY DEF Init, StartedOver
  <2>4. book = [cash      |-> [EmptyBook.cash EXCEPT ![Currency] = StartCash],
                portfolio |-> EmptyBook.portfolio]
    BY <2>3 DEF EmptyBook
  <2>5. Replayed(EmptyBook, row) = [cash      |-> [EmptyBook.cash EXCEPT ![Currency] = StartCash],
                                   portfolio |-> EmptyBook.portfolio]
    BY <2>1, <2>2 DEF Replayed, WithPosition
  <2> QED BY <2>4, <2>5
<1>3. transactions = <<row>>
  BY DEF Init
<1> HIDE DEF row
<1>4. transactions = Append(<<>>, row) /\ <<>> \in Seq(Entry)
  BY <1>3
<1> QED BY <1>1, <1>2, <1>4, ReplayOfAppend, ReplayOfNone DEF PaperReplays

(***************************************************************************)
(* Day orders.  No order is placed in the future of who may fill it.       *)
(***************************************************************************)
\* A request acts on a moment that has come, and fills its order at the moment it placed it.
Timely(state) ==
    /\ state.op = "place" => state.at <= clock
    /\ state.op = "fill" => /\ orders[state.order] # None
                            /\ orders[state.order].placed = state.at
                            /\ Live(state.at)

\* Nothing is stamped ahead of whoever may fill it.
InTime ==
    /\ \A o \in Orders : orders[o] # None => orders[o].placed <= clock
    /\ \A r \in Requests : request[r] # None => Timely(request[r])
    /\ poll # None => \A o \in poll.todo : orders[o] # None /\ orders[o].placed <= poll.at

\* Placed in time and not expired, an order is filled in its own session.
LEMMA UnexpiredIsInSession ==
    ASSUME NEW placed \in Nat, NEW at \in Nat, placed <= at, Live(at), Date(at) <= SessionFor(placed)
    PROVE  Date(at) = SessionFor(placed)
  BY DEF Live, Date, SessionFor

\* An order keeps what was asked and when; closed, it keeps its status too.
Kept(o) == /\ orders'[o] # None
           /\ orders'[o].side = orders[o].side
           /\ orders'[o].qty = orders[o].qty
           /\ orders'[o].tif = orders[o].tif
           /\ orders'[o].placed = orders[o].placed
           /\ ~IsOpen(o) => orders'[o] = orders[o]

\* No kind of step changes what an order asked for, or reopens it.
LEMMA OrdersAreKept ==
    ASSUME TablesOK, TableStep, NEW o \in Orders, orders[o] # None
    PROVE  Kept(o)
<1>1. orders[o] \in Order /\ None \notin Order
  BY NoOrderAssumption DEF TablesOK
<1>2. CASE orders' = orders \/ orders'[o] = orders[o]
  BY <1>2 DEF Kept
<1>3. ASSUME NEW x \in Orders, Closes(x)
      PROVE  Kept(o)
  <2>1. PICK status \in {"cancelled", "rejected"} : SetStatus(x, status)
    BY <1>3 DEF Closes
  <2>2. CASE x # o \/ ~IsOpen(x)
    BY <1>2, <2>1, <2>2 DEF SetStatus, TablesOK
  <2>3. CASE x = o /\ IsOpen(o)
    <3> DEFINE closed == [orders[o] EXCEPT !.status = status]
    <3>1. /\ closed \in Order
          /\ closed.placed = orders[o].placed /\ closed.tif = orders[o].tif
          /\ closed.qty = orders[o].qty /\ closed.side = orders[o].side
      BY <1>1 DEF Order, Statuses
    <3>2. orders' = [orders EXCEPT ![o] = closed]
      BY <2>1, <2>3 DEF SetStatus
    <3> HIDE DEF closed
    <3>3. orders'[o] = closed
      BY <3>2 DEF TablesOK
    <3> QED BY <1>1, <2>3, <3>1, <3>3 DEF Kept, IsOpen, OpenStatuses
  <2> QED BY <2>2, <2>3
<1>4. ASSUME NEW r \in Requests, Insert(r)
      PROVE  Kept(o)
  BY <1>2, <1>4 DEF Insert, TablesOK
<1>5. ASSUME NEW x \in Orders, NEW at \in Phases, TryFill(x, at, "filled")
      PROVE  Kept(o)
  <2>1. IsOpen(x) /\ orders' = [orders EXCEPT ![x].status = "filled", ![x].filled = at]
    BY <1>5 DEF TryFill
  <2>2. CASE x # o
    BY <1>2, <2>1, <2>2 DEF TablesOK
  <2>3. CASE x = o
    <3> DEFINE filled == [orders[o] EXCEPT !.status = "filled", !.filled = at]
    <3>1. /\ filled \in Order
          /\ filled.placed = orders[o].placed /\ filled.tif = orders[o].tif
          /\ filled.qty = orders[o].qty /\ filled.side = orders[o].side
      BY <1>1 DEF Order, Statuses
    <3>2. orders' = [orders EXCEPT ![o] = filled]
      BY <2>1, <2>3 DEF TablesOK, Order
    <3> HIDE DEF filled
    <3>3. orders'[o] = filled
      BY <3>2 DEF TablesOK
    <3> QED BY <1>1, <2>1, <2>3, <3>1, <3>3 DEF Kept, IsOpen, OpenStatuses
  <2> QED BY <2>2, <2>3
<1>6. CASE Adjusts
  BY <1>2, <1>6 DEF Adjusts, Write
<1> QED BY <1>2, <1>3, <1>4, <1>5, <1>6 DEF TableStep, tables

\* Only an insert adds an order to the table.
LEMMA OnlyInsertsPlace ==
    ASSUME TablesOK, TableStep, NEW o \in Orders, orders[o] = None, orders'[o] # None
    PROVE  \E r \in Requests : Insert(r)
<1>1. ~(orders' = orders \/ orders'[o] = orders[o])
  OBVIOUS
<1>2. \A x \in Orders : ~Closes(x)
  BY <1>1 DEF Closes, SetStatus, IsOpen, TablesOK
<1>3. \A x \in Orders, at \in Phases : ~TryFill(x, at, "filled")
  BY <1>1 DEF TryFill, IsOpen, TablesOK
<1> QED BY <1>1, <1>2, <1>3 DEF TableStep, tables, Adjusts, Write

\* An order is stamped with the moment its request saw, which is past.
LEMMA OrdersInTime ==
    ASSUME Inv, InTime, TableStep, clock' \in Phases, clock <= clock',
           NEW o \in Orders, orders'[o] # None
    PROVE  orders'[o].placed <= clock'
<1>1. CASE orders[o] # None
  <2>1. orders[o].placed \in Phases /\ clock \in Phases
    BY <1>1 DEF Inv, TablesOK, ThreadsOK, Order
  <2> QED BY <1>1, <2>1, OrdersAreKept DEF Inv, InTime, Kept, Phases
<1>2. CASE orders[o] = None
  <2>1. ~(orders' = orders \/ orders'[o] = orders[o])
    BY <1>2
  <2>4. PICK r \in Requests : Insert(r)
    BY <1>2, OnlyInsertsPlace DEF Inv
  <2>5. request[r].at \in Phases /\ request[r].at <= clock
    BY <2>4, RequestHolds DEF Insert, Inv, InTime, Timely
  <2>6. orders'[o].placed = request[r].at
    BY <2>1, <2>4 DEF Insert, Inv, TablesOK
  <2>7. clock \in Phases
    BY DEF Inv, ThreadsOK
  <2> QED BY <2>5, <2>6, <2>7 DEF Phases
<1> QED BY <1>1, <1>2

\* A request that waits stays timely: its order keeps the moment it was placed.
LEMMA WaitingIsTimely ==
    ASSUME Inv, InTime, TableStep, clock' \in Phases, clock <= clock',
           NEW r \in Requests, request[r] # None, request'[r] = request[r]
    PROVE  Timely(request[r])'
<1>1. Timely(request[r]) /\ clock \in Phases
  BY DEF Inv, ThreadsOK, InTime
<1>2. /\ request[r].op = "place" => request[r].at \in Phases
      /\ request[r].op = "fill" => request[r].order \in Orders
  BY RequestHolds DEF Inv
<1>3. request[r].op = "fill" => Kept(request[r].order)
  BY <1>1, <1>2, OrdersAreKept DEF Inv, Timely
<1> QED BY <1>1, <1>2, <1>3 DEF Timely, Kept, Phases

\* A request that does not place an order or go on to fill it.
LEMMA ArrivesElsewhere ==
    ASSUME Inv, NEW r \in Requests, FillNow(r) \/ RejectNow(r) \/ Reset(r)
    PROVE  request'[r] = None \/ request'[r].op \notin {"place", "fill"}
<1> SUFFICES \E state : Enter(r, state) /\ (state = None \/ state.op \notin {"place", "fill"})
  BY DEF Enter, Inv, ThreadsOK
<1>1. CASE FillNow(r)
  BY <1>1 DEF FillNow
<1>2. CASE RejectNow(r) \/ ResetFails(r) \/ ResetDeposit(r)
  BY <1>2 DEF RejectNow, ResetFails, ResetDeposit
<1>3. CASE ResetBegin(r) \/ ResetCash(r)
  <2> DEFINE begun == [op |-> "cancel orders", todo |-> Submitted]
             cleared == [op |-> "deposit"]
  <2>1. begun.op = "cancel orders" /\ cleared.op = "deposit"
    OBVIOUS
  <2>2. Enter(r, begun) \/ Enter(r, cleared)
    BY <1>3 DEF ResetBegin, ResetCash
  <2> HIDE DEF begun, cleared
  <2> QED BY <2>1, <2>2
<1>4. CASE ResetOrders(r)
  <2> DEFINE rest(o) == [request[r] EXCEPT !.todo = @ \ {o}]
             next == [op |-> "clear positions", todo |-> {t \in Tickers : Held(book, t)}]
  <2>1. request[r] \in [op : {"cancel orders"}, todo : SUBSET Orders]
    BY <1>4, RequestHolds DEF ResetOrders, Resetting, Inv
  <2>2. next.op = "clear positions" /\ \A o : rest(o).op = "cancel orders"
    BY <2>1
  <2>3. Enter(r, next) \/ \E o : Enter(r, rest(o))
    BY <1>4 DEF ResetOrders
  <2> HIDE DEF rest, next
  <2> QED BY <2>2, <2>3
<1>5. CASE ResetPositions(r)
  <2> DEFINE rest(t) == [request[r] EXCEPT !.todo = @ \ {t}]
             next == [op |-> "clear cash", balance |-> book.cash[Currency]]
  <2>1. request[r] \in [op : {"clear positions"}, todo : SUBSET Tickers]
    BY <1>5, RequestHolds DEF ResetPositions, Resetting, Inv
  <2>2. next.op = "clear cash" /\ \A t : rest(t).op = "clear positions"
    BY <2>1
  <2>3. Enter(r, next) \/ \E t : Enter(r, rest(t))
    BY <1>5 DEF ResetPositions
  <2> HIDE DEF rest, next
  <2> QED BY <2>2, <2>3
<1> QED BY <1>1, <1>2, <1>3, <1>4, <1>5 DEF Reset

\* A request that moves on is timely where it arrives.
LEMMA ArrivalIsTimely ==
    ASSUME Inv, InTime, NEW r \in Requests, Place(r) \/ Reset(r), request'[r] # None
    PROVE  Timely(request[r])'
<1>1. /\ request \in [Requests -> {None} \cup RequestStates]
      /\ orders \in [Orders -> {None} \cup Order]
      /\ clock \in Phases
      /\ \A state : Enter(r, state) => request'[r] = state
  BY DEF Inv, TablesOK, ThreadsOK, Enter
<1>2. CASE Check(r)
  <2>1. PICK ticket \in Tickets : request'[r] = [op |-> "place", ticket |-> ticket, at |-> clock]
    BY <1>1, <1>2 DEF Check, Enter
  <2> QED BY <1>1, <1>2, <2>1 DEF Check, Timely, Phases
<1>3. CASE Insert(r)
  <2>1. PICK o \in Orders :
          /\ orders[o] = None
          /\ orders' = [orders EXCEPT ![o] =
                [status |-> "submitted", side |-> request[r].ticket.side,
                 ticker |-> request[r].ticket.ticker, qty |-> request[r].ticket.qty,
                 tif |-> request[r].ticket.tif, placed |-> request[r].at, filled |-> None]]
          /\ Enter(r, IF Live(request[r].at)
                      THEN [op |-> "fill", order |-> o, at |-> request[r].at] ELSE None)
    BY <1>3 DEF Insert
  <2>2. Live(request[r].at) /\ request'[r] = [op |-> "fill", order |-> o, at |-> request[r].at]
    BY <1>1, <2>1 DEF Enter
  <2>3. request[r].ticket \in Tickets /\ request[r].at \in Phases
    BY <1>3, RequestHolds DEF Insert, Inv
  <2>4. [status |-> "submitted", side |-> request[r].ticket.side,
         ticker |-> request[r].ticket.ticker, qty |-> request[r].ticket.qty,
         tif |-> request[r].ticket.tif, placed |-> request[r].at, filled |-> None] \in Order
    BY <2>3, PaperAssumption DEF Order, Statuses
  <2>5. orders'[o] # None /\ orders'[o].placed = request[r].at
    BY <1>1, <2>1, <2>4, NoOrderAssumption
  <2> QED BY <2>2, <2>5 DEF Timely
<1>4. CASE FillNow(r) \/ RejectNow(r) \/ Reset(r)
  BY <1>4, ArrivesElsewhere DEF Timely
<1> QED BY <1>2, <1>3, <1>4 DEF Place

\* The orders of a pass were placed before it began.
LEMMA PassIsTimely ==
    ASSUME Inv, InTime, TableStep, Poll \/ UNCHANGED poll, poll' # None, NEW o \in poll'.todo
    PROVE  orders'[o] # None /\ orders'[o].placed <= poll'.at
<1> DEFINE Passes == [at : Phases, todo : SUBSET Orders, refused : Orders \cup {None}]
<1>1. CASE PollStart
  <2>1. o \in Orders /\ orders[o] # None /\ poll'.at = clock /\ UNCHANGED orders
    BY <1>1 DEF PollStart, Submitted, tables
  <2> QED BY <2>1 DEF InTime
<1>2. CASE poll # None /\ poll'.at = poll.at /\ poll'.todo \subseteq poll.todo
  <2>1. o \in Orders /\ o \in poll.todo
    BY <1>2 DEF Inv, ThreadsOK
  <2>2. orders[o] # None /\ orders[o].placed <= poll.at
    BY <1>2, <2>1 DEF InTime
  <2> QED BY <1>2, <2>1, <2>2, OrdersAreKept DEF Inv, Kept
<1>3. CASE PollExpire \/ PollFill \/ PollReject
  <2>1. poll # None /\ poll \in Passes
    BY <1>3 DEF PollExpire, PollFill, PollReject, Inv, ThreadsOK
  <2>2. CASE PollExpire \/ PollReject
    BY <1>2, <2>1, <2>2 DEF PollExpire, PollReject
  <2>3. CASE PollFill
    BY <1>2, <2>1, <2>3 DEF PollFill
  <2> QED BY <1>3, <2>2, <2>3
<1> QED BY <1>1, <1>2, <1>3 DEF Poll, PollEnd

\* Requests, orders and the pass of the poll stay in time together.
LEMMA NextKeepsTime ==
    ASSUME Inv, InTime, [Next]_vars
    PROVE  InTime'
<1>1. TableStep
  BY StepsOfTables
<1>2. clock \in Phases /\ clock' \in Phases /\ clock <= clock'
  <2>1. Inv'
    BY NextKeepsInv
  <2>2. clock' = clock \/ Tick
    BY DEF Next, vars, Place, Cancel, Reset, Poll, Check, Insert, FillNow, RejectNow, ResetBegin,
           ResetOrders, ResetPositions, ResetCash, ResetFails, ResetDeposit, PollStart, PollExpire,
           PollFill, PollReject, PollEnd
  <2> QED BY <2>1, <2>2 DEF Inv, ThreadsOK, Phases, Tick
<1>3. Poll \/ UNCHANGED poll
  BY DEF Next, vars, Place, Cancel, Reset, Check, Insert, FillNow, RejectNow, ResetBegin,
         ResetOrders, ResetPositions, ResetCash, ResetFails, ResetDeposit, Tick
<1>4. ASSUME NEW r \in Requests
      PROVE  Place(r) \/ Reset(r) \/ request'[r] = request[r]
  <2>1. CASE Poll \/ Tick \/ UNCHANGED vars \/ \E x \in Requests : Cancel(x)
    BY <2>1 DEF Poll, PollStart, PollExpire, PollFill, PollReject, PollEnd, Tick, vars, Cancel
  <2>2. ASSUME NEW x \in Requests, Place(x) \/ Reset(x), x # r
        PROVE  request'[r] = request[r]
    <3>1. PICK state : Enter(x, state)
      BY <2>2 DEF Place, Reset, Check, Insert, FillNow, RejectNow, ResetBegin, ResetOrders,
                  ResetPositions, ResetCash, ResetFails, ResetDeposit
    <3> QED BY <2>2, <3>1 DEF Enter, Inv, ThreadsOK
  <2> QED BY <2>1, <2>2 DEF Next
<1>5. \A o \in Orders : orders'[o] # None => orders'[o].placed <= clock'
  BY <1>1, <1>2, OrdersInTime
<1>6. ASSUME NEW r \in Requests, request'[r] # None
      PROVE  Timely(request[r])'
  BY <1>1, <1>2, <1>4, <1>6, WaitingIsTimely, ArrivalIsTimely
<1>7. poll' # None => \A o \in poll'.todo : orders'[o] # None /\ orders'[o].placed <= poll'.at
  BY <1>1, <1>3, PassIsTimely
<1> QED BY <1>5, <1>6, <1>7 DEF InTime

\* A fill at a moment FillsAt allows is within the order's session.
LEMMA StepKeepsSessions ==
    ASSUME Inv, InTime, DayOrdersFillInTheirSession, TableStep
    PROVE  DayOrdersFillInTheirSession'
<1> SUFFICES ASSUME NEW o \in Orders, orders'[o] # None, orders'[o].tif = "day",
                    orders'[o].status = "filled"
             PROVE  /\ Live(orders'[o].filled)
                    /\ Date(orders'[o].filled) = SessionFor(orders'[o].placed)
  BY DEF DayOrdersFillInTheirSession
<1>1. orders \in [Orders -> {None} \cup Order]
  BY DEF Inv, TablesOK
<1>2. CASE orders'[o] = orders[o]
  BY <1>2 DEF DayOrdersFillInTheirSession
<1>3. CASE orders'[o] # orders[o]
  <2>1. ~(orders' = orders)
    BY <1>3
  <2>2. ASSUME NEW x \in Orders, Closes(x)
        PROVE  FALSE
    <3>1. PICK status \in {"cancelled", "rejected"} : orders' = [orders EXCEPT ![x].status = status]
      BY <2>1, <2>2 DEF Closes, SetStatus
    <3>2. x = o
      BY <1>1, <1>3, <3>1
    <3>3. orders[o] \in Order
      BY <2>1, <2>2, <3>2, <1>1 DEF Closes, SetStatus, IsOpen
    <3>4. orders'[o].status = status
      BY <1>1, <3>1, <3>2, <3>3 DEF Order
    <3> QED BY <3>4
  <2>3. ASSUME NEW r \in Requests, Insert(r)
        PROVE  FALSE
    <3>1. PICK x \in Orders :
            orders' = [orders EXCEPT ![x] =
                [status |-> "submitted", side |-> request[r].ticket.side,
                 ticker |-> request[r].ticket.ticker, qty |-> request[r].ticket.qty,
                 tif |-> request[r].ticket.tif, placed |-> request[r].at, filled |-> None]]
      BY <2>3 DEF Insert
    <3> QED BY <1>1, <1>3, <3>1
  <2>4. PICK x \in Orders, at \in Phases : TryFill(x, at, "filled") /\ FillsAt(x, at)
    BY <2>1, <2>2, <2>3 DEF TableStep, tables, Adjusts, Write
  <2>5. IsOpen(x) /\ orders' = [orders EXCEPT ![x].status = "filled", ![x].filled = at]
    BY <2>4 DEF TryFill
  <2>6. x = o /\ orders[o] # None /\ orders[o] \in Order
    BY <1>1, <1>3, <2>5 DEF IsOpen
  <2>7. orders'[o].filled = at
    BY <1>1, <2>5, <2>6 DEF Order
  <2>8. orders'[o].placed = orders[o].placed /\ orders[o].tif = "day"
    BY <2>6, OrdersAreKept DEF Inv, Kept
  <2>9. orders[o].placed \in Nat /\ at \in Nat
    BY <2>6 DEF Order, Phases
  <2>10. Live(at) /\ orders[o].placed <= at /\ Date(at) <= SessionFor(orders[o].placed)
    <3>1. CASE \E r \in Requests : /\ request[r] # None /\ request[r].op = "fill"
                                   /\ request[r].order = o /\ request[r].at = at
      <4>1. Live(at) /\ orders[o].placed = at
        BY <3>1 DEF InTime, Timely
      <4> QED BY <2>9, <4>1 DEF Live, Date, SessionFor
    <3>2. CASE poll # None /\ o \in poll.todo /\ poll.at = at /\ Live(at) /\ ~Expired(o, at)
      <4>1. orders[o].placed <= at
        BY <3>2 DEF InTime
      <4>2. ~(Date(at) > SessionFor(orders[o].placed))
        BY <2>8, <3>2 DEF Expired
      <4> QED BY <2>9, <3>2, <4>1, <4>2 DEF Date, SessionFor
    <3> QED BY <2>4, <2>6, <3>1, <3>2 DEF FillsAt
  <2> QED BY <2>7, <2>8, <2>9, <2>10, UnexpiredIsInSession
<1> QED BY <1>2, <1>3

\* InTime is needed because an expiry check compares the pass's moment with the order's: only an
\* order placed before the pass is in its session when it has not expired.
AgreeInv == Inv /\ PaperReplays /\ InTime /\ DayOrdersFillInTheirSession

\* The inductive invariant of the agreement holds throughout.
LEMMA AgreeInvHolds == Spec => []AgreeInv
<1>1. Init => AgreeInv
  <2> SUFFICES ASSUME Init PROVE AgreeInv
    OBVIOUS
  <2>1. InTime /\ DayOrdersFillInTheirSession
    BY DEF Init, InTime, DayOrdersFillInTheirSession
  <2> QED BY <2>1, InitHoldsInv, InitReplays DEF AgreeInv
<1>2. AgreeInv /\ [Next]_vars => AgreeInv'
  <2> SUFFICES ASSUME AgreeInv, [Next]_vars PROVE AgreeInv'
    OBVIOUS
  <2>1. Inv' /\ InTime' /\ TableStep
    BY NextKeepsInv, NextKeepsTime, StepsOfTables DEF AgreeInv
  <2>2. PaperReplays' /\ DayOrdersFillInTheirSession'
    BY <2>1, StepKeepsReplay, StepKeepsSessions DEF AgreeInv, Inv
  <2> QED BY <2>1, <2>2 DEF AgreeInv
<1> QED BY <1>1, <1>2, PTL DEF Spec

\* Whatever the requests, a reset and the poll do between each other's calls:
\* the paper account's tables are the replay of its ledger rows, and a day
\* order is filled in the session it was placed for or not at all.
THEOREM PaperBooksAgree == Spec => []PaperAgrees
<1>1. AgreeInv => PaperAgrees
  BY DEF AgreeInv, Inv, TablesOK, ThreadsOK, TypeOK, PaperAgrees
<1> QED BY <1>1, AgreeInvHolds, PTL

(***************************************************************************)
(* The order contract.  An order has one ledger row or none, so the sum of *)
(* its rows is the row's quantity or nothing.                              *)
(***************************************************************************)
\* An order without a row has nothing filled.
LEMMA NothingFilled ==
    ASSUME NEW o, RowsOf(o) = {}
    PROVE  Filled(o) = 0
<1> DEFINE Sums(g) == g = [s \in SUBSET RowsOf(o) |->
              IF s = {} THEN 0
              ELSE transactions[CHOOSE x \in s : TRUE].qty + g[s \ {CHOOSE x \in s : TRUE}]]
           sum == CHOOSE g : Sums(g)
<1>1. Sums([s \in SUBSET RowsOf(o) |-> 0])
  <2>1. \A s \in SUBSET RowsOf(o) : s = {}
    OBVIOUS
  <2> QED BY <2>1
<1>2. Sums(sum)
  BY <1>1
<1>3. Filled(o) = sum[RowsOf(o)]
  BY DEF Filled, MapThenSumSet, MapThenFoldSet
<1> HIDE DEF sum
<1> QED BY <1>2, <1>3

\* The sum over one row is the row's quantity.
LEMMA SumOfOne ==
    ASSUME NEW i, NEW f, f[i].qty \in Int
    PROVE  MapThenSumSet(LAMBDA j : f[j].qty, {i}) = f[i].qty
<1> DEFINE Sums(g) == g = [s \in SUBSET {i} |->
                             IF s = {} THEN 0
                             ELSE f[CHOOSE x \in s : TRUE].qty + g[s \ {CHOOSE x \in s : TRUE}]]
           only == [s \in SUBSET {i} |-> IF s = {} THEN 0 ELSE f[i].qty]
           sum == CHOOSE g : Sums(g)
<1>1. SUBSET {i} = {{}, {i}} /\ (CHOOSE x \in {i} : TRUE) = i /\ {i} \ {i} = {} /\ {i} # {}
  OBVIOUS
<1>2. Sums(only)
  <2>1. only = [s \in SUBSET {i} |-> only[s]]
    OBVIOUS
  <2>2. only[{}] = 0 /\ only[{i}] = f[i].qty + only[{}]
    BY <1>1
  <2>3. \A s \in SUBSET {i} : only[s] = IF s = {} THEN 0
             ELSE f[CHOOSE x \in s : TRUE].qty + only[s \ {CHOOSE x \in s : TRUE}]
    BY <1>1, <2>2
  <2> HIDE DEF only
  <2> QED BY <2>1, <2>3
<1>3. Sums(sum)
  BY <1>2
<1>4. MapThenSumSet(LAMBDA j : f[j].qty, {i}) = sum[{i}]
  BY DEF MapThenSumSet, MapThenFoldSet
<1> HIDE DEF sum
<1>5. sum[{}] = 0 /\ sum[{i}] = f[i].qty + sum[{}]
  BY <1>1, <1>3
<1> QED BY <1>4, <1>5

IsFilled(o) == orders[o] # None /\ orders[o].status = "filled"

\* FilledExactlyOnce, in shares.
LEMMA FilledIsAllOrNothing ==
    ASSUME TablesOK, NEW o \in Orders
    PROVE  Filled(o) = IF IsFilled(o) THEN orders[o].qty ELSE 0
<1>1. CASE IsFilled(o)
  <2>1. PICK i \in RowsOf(o) : RowsOf(o) = {i} /\ transactions[i].qty = orders[o].qty
    BY <1>1 DEF TablesOK, FilledExactlyOnce, IsFilled
  <2>2. orders[o].qty \in Int
    BY <1>1 DEF TablesOK, IsFilled, Order
  <2>3. MapThenSumSet(LAMBDA j : transactions[j].qty, {i}) = transactions[i].qty
    BY <2>1, <2>2, SumOfOne
  <2> QED BY <1>1, <2>1, <2>3 DEF Filled
<1>2. CASE ~IsFilled(o)
  <2>1. RowsOf(o) = {}
    BY <1>2 DEF TablesOK, FilledExactlyOnce, IsFilled
  <2> QED BY <1>2, <2>1, NothingFilled
<1> QED BY <1>1, <1>2

\* What is booked of an order is all it asks for or nothing.
AllOrNothing == \A o \in Orders : Filled(o) = IF IsFilled(o) THEN orders[o].qty ELSE 0

\* Before a step and after it.
LEMMA AllOrNothingThen == (TablesOK => AllOrNothing) /\ (TablesOK' => AllOrNothing')
<1>1. TablesOK => AllOrNothing
  BY FilledIsAllOrNothing DEF AllOrNothing
<1> QED BY <1>1, PTL

\* An order asks for the quantity of one of the forms.
QuantitiesAsked ==
    \A o \in Orders : orders[o] # None => orders[o].qty \in {ticket.qty : ticket \in Tickets}

\* Only an insert sets a quantity, to that of its form.
LEMMA StepKeepsQuantities ==
    ASSUME Inv, QuantitiesAsked, TableStep
    PROVE  QuantitiesAsked'
<1> SUFFICES ASSUME NEW o \in Orders, orders'[o] # None
             PROVE  orders'[o].qty \in {ticket.qty : ticket \in Tickets}
  BY DEF QuantitiesAsked
<1>1. CASE orders[o] # None
  BY <1>1, OrdersAreKept DEF Inv, Kept, QuantitiesAsked
<1>2. CASE orders[o] = None
  <2>1. PICK r \in Requests : Insert(r)
    BY <1>2, OnlyInsertsPlace DEF Inv
  <2>2. request[r].ticket \in Tickets
    BY <2>1, RequestHolds DEF Insert, Inv
  <2>3. orders'[o].qty = request[r].ticket.qty
    BY <1>2, <2>1 DEF Insert, Inv, TablesOK
  <2> QED BY <2>2, <2>3
<1> QED BY <1>1, <1>2

\* Placing, filling and closing an order are the contract's; the rest stutters.
LEMMA StepImplementsContract ==
    ASSUME Inv, QuantitiesAsked, TableStep, TablesOK'
    PROVE  [Contract!Next]_(Contract!vars)
<1>1. /\ \A o \in Orders : Filled(o) = IF IsFilled(o) THEN orders[o].qty ELSE 0
      /\ \A o \in Orders : Filled(o)' = IF IsFilled(o)' THEN orders'[o].qty ELSE 0
      /\ orders \in [Orders -> {None} \cup Order]
      /\ orders' \in [Orders -> {None} \cup Order]
      /\ None \notin Order
  BY AllOrNothingThen, NoOrderAssumption DEF Inv, TablesOK, AllOrNothing
<1>2. ASSUME NEW o \in Orders, orders'[o] = orders[o]
      PROVE  Asked(o)' = Asked(o) /\ Filled(o)' = Filled(o) /\ IsOpen(o)' = IsOpen(o)
  BY <1>1, <1>2 DEF Asked, IsOpen, IsFilled
<1>3. CASE orders' = orders
  <2>1. \A o \in Orders : Asked(o)' = Asked(o) /\ Filled(o)' = Filled(o) /\ IsOpen(o)' = IsOpen(o)
    BY <1>2, <1>3
  <2> QED BY <2>1 DEF Contract!vars
<1>4. ASSUME NEW x \in Orders, Closes(x), IsOpen(x)
      PROVE  Contract!Close(x)
  <2>1. PICK status \in {"cancelled", "rejected"} : orders' = [orders EXCEPT ![x].status = status]
    BY <1>4 DEF Closes, SetStatus
  <2>2. \A o \in Orders \ {x} : orders'[o] = orders[o]
    BY <1>1, <2>1
  <2>3. /\ orders[x] \in Order /\ orders'[x] # None
        /\ orders'[x].status = status /\ orders'[x].qty = orders[x].qty
    <3> DEFINE closed == [orders[x] EXCEPT !.status = status]
    <3>1. orders[x] \in Order
      BY <1>1, <1>4 DEF IsOpen
    <3>2. closed \in Order /\ closed.status = status /\ closed.qty = orders[x].qty
      BY <3>1 DEF Order, Statuses
    <3>3. orders'[x] = closed
      BY <1>1, <2>1
    <3> HIDE DEF closed
    <3> QED BY <1>1, <3>1, <3>2, <3>3
  <2>4. Asked(x)' = Asked(x) /\ Filled(x)' = Filled(x) /\ IsOpen(x)' = FALSE
    BY <1>1, <1>4, <2>3 DEF Asked, IsOpen, IsFilled, OpenStatuses
  <2>5. /\ [o \in Orders |-> Asked(o)]' = [o \in Orders |-> Asked(o)]
        /\ [o \in Orders |-> Filled(o)]' = [o \in Orders |-> Filled(o)]
        /\ [o \in Orders |-> IsOpen(o)]' = [[o \in Orders |-> IsOpen(o)] EXCEPT ![x] = FALSE]
    BY <1>2, <2>2, <2>4
  <2> QED BY <1>4, <2>5 DEF Contract!Close
<1>5. ASSUME NEW r \in Requests, Insert(r)
      PROVE  Contract!Next
  <2>1. PICK x \in Orders :
          /\ orders[x] = None
          /\ orders' = [orders EXCEPT ![x] =
                [status |-> "submitted", side |-> request[r].ticket.side,
                 ticker |-> request[r].ticket.ticker, qty |-> request[r].ticket.qty,
                 tif |-> request[r].ticket.tif, placed |-> request[r].at, filled |-> None]]
    BY <1>5 DEF Insert
  <2>2. request[r].ticket \in Tickets
    BY <1>5, RequestHolds DEF Insert, Inv
  <2>3. \A o \in Orders \ {x} : orders'[o] = orders[o]
    BY <1>1, <2>1
  <2>4. orders'[x].status = "submitted" /\ orders'[x].qty = request[r].ticket.qty /\ orders'[x] # None
    <3> DEFINE placed == [status |-> "submitted", side |-> request[r].ticket.side,
                 ticker |-> request[r].ticket.ticker, qty |-> request[r].ticket.qty,
                 tif |-> request[r].ticket.tif, placed |-> request[r].at, filled |-> None]
    <3>1. orders'[x] = placed
      BY <1>1, <2>1
    <3>2. placed \in Order
      BY <2>2, <1>5, RequestHolds, PaperAssumption DEF Insert, Inv, Order, Statuses
    <3>3. placed.status = "submitted" /\ placed.qty = request[r].ticket.qty
      OBVIOUS
    <3> HIDE DEF placed
    <3> QED BY <1>1, <3>1, <3>2, <3>3
  <2>5. /\ Asked(x) = 0 /\ Asked(x)' = request[r].ticket.qty
        /\ Filled(x)' = Filled(x)
        /\ IsOpen(x)' = TRUE
    BY <1>1, <2>1, <2>4 DEF Asked, IsOpen, IsFilled, OpenStatuses
  <2>6. /\ [o \in Orders |-> Asked(o)]' = [[o \in Orders |-> Asked(o)] EXCEPT ![x] = request[r].ticket.qty]
        /\ [o \in Orders |-> Filled(o)]' = [o \in Orders |-> Filled(o)]
        /\ [o \in Orders |-> IsOpen(o)]' = [[o \in Orders |-> IsOpen(o)] EXCEPT ![x] = TRUE]
    BY <1>2, <2>3, <2>5
  <2>7. Contract!Place(x, request[r].ticket.qty)
    BY <2>5, <2>6 DEF Contract!Place
  <2> QED BY <2>2, <2>7 DEF Contract!Next
<1>6. ASSUME NEW x \in Orders, NEW at \in Phases, TryFill(x, at, "filled")
      PROVE  Contract!Next
  <2>1. IsOpen(x) /\ orders' = [orders EXCEPT ![x].status = "filled", ![x].filled = at]
    BY <1>6 DEF TryFill
  <2>2. \A o \in Orders \ {x} : orders'[o] = orders[o]
    BY <1>1, <2>1
  <2>3. /\ orders[x] \in Order /\ orders'[x] # None
        /\ orders'[x].status = "filled" /\ orders'[x].qty = orders[x].qty
    <3> DEFINE filled == [orders[x] EXCEPT !.status = "filled", !.filled = at]
    <3>1. orders[x] \in Order
      BY <1>1, <2>1 DEF IsOpen
    <3>2. filled \in Order /\ filled.status = "filled" /\ filled.qty = orders[x].qty
      BY <3>1 DEF Order, Statuses
    <3>3. orders' = [orders EXCEPT ![x] = filled]
      BY <1>1, <2>1, <3>1 DEF Order
    <3> HIDE DEF filled
    <3> QED BY <1>1, <3>1, <3>2, <3>3
  <2>4. orders[x].qty \in Nat \ {0}
    BY <2>3 DEF Order
  <2>5. /\ Asked(x) = orders[x].qty /\ Asked(x)' = Asked(x)
        /\ Filled(x) = 0 /\ Filled(x)' = orders[x].qty
        /\ IsOpen(x)' = FALSE
    BY <1>1, <2>1, <2>3, <2>4 DEF Asked, IsOpen, IsFilled, OpenStatuses
  <2>6. /\ [o \in Orders |-> Asked(o)]' = [o \in Orders |-> Asked(o)]
        /\ [o \in Orders |-> Filled(o)]' = [[o \in Orders |-> Filled(o)] EXCEPT ![x] = orders[x].qty]
        /\ [o \in Orders |-> IsOpen(o)]' = [[o \in Orders |-> IsOpen(o)] EXCEPT ![x] = FALSE]
    BY <1>2, <2>2, <2>5
  <2>7. /\ Filled(x) + orders[x].qty = orders[x].qty
        /\ Filled(x) + orders[x].qty <= Asked(x)
        /\ (Filled(x) + orders[x].qty < Asked(x)) = FALSE
    BY <2>4, <2>5
  <2>8. Contract!Fill(x, orders[x].qty)
    BY <2>1, <2>6, <2>7 DEF Contract!Fill
  <2>9. orders[x].qty \in {ticket.qty : ticket \in Tickets}
    BY <2>1 DEF IsOpen, QuantitiesAsked
  <2> QED BY <2>8, <2>9 DEF Contract!Next
<1>7. ASSUME NEW x \in Orders, Closes(x), ~IsOpen(x)
      PROVE  orders' = orders
  BY <1>7 DEF Closes, SetStatus
<1> QED BY <1>3, <1>4, <1>5, <1>6, <1>7 DEF TableStep, tables, Adjusts, Write, Contract!Next

\* At the start nothing is asked and nothing filled.
LEMMA InitImplementsContract ==
    ASSUME Init
    PROVE  Contract!Init
<1>1. TablesOK
  BY InitHoldsInv DEF Inv
<1>2. \A o \in Orders : Asked(o) = 0 /\ Filled(o) = 0 /\ IsOpen(o) = FALSE
  BY <1>1, FilledIsAllOrNothing DEF Init, Asked, IsOpen, IsFilled
<1> QED BY <1>2 DEF Contract!Init

\* For any orders, requests and moments of the day, the paper broker implements
\* OrderContract: an order is asked once, filled with no more than was asked,
\* and never filled once it is closed.
THEOREM PaperKeepsContract == Spec => ImplementsContract
<1> DEFINE CInv == Inv /\ QuantitiesAsked
<1>1. Init => CInv /\ Contract!Init
  BY InitHoldsInv, InitImplementsContract DEF Init, QuantitiesAsked
<1>2. CInv /\ [Next]_vars => CInv' /\ [Contract!Next]_(Contract!vars)
  BY NextKeepsInv, StepsOfTables, StepKeepsQuantities, StepImplementsContract DEF Inv
<1> QED BY <1>1, <1>2, PTL DEF Spec, ImplementsContract, Contract!Spec

(***************************************************************************)
(* The daily limit, for one request at a time.                             *)
(***************************************************************************)
\* The buys that count for a day, as guardrails counts them.
BuysOn(date) == {o \in OrdersOn(date) : orders[o].side = "BUY"}

\* No day is over the limit, and a buy that passed the check still finds room when it is inserted.
InLimits ==
    /\ IsFiniteSet({o \in Orders : orders[o] # None})
    /\ \A date \in Nat : Cardinality(BuysOn(date)) <= MaxPerDay
    /\ \A r \in Requests :
         request[r] # None /\ request[r].op = "place" /\ request[r].ticket.side = "BUY"
            => Cardinality(BuysOn(Date(request[r].at))) < MaxPerDay

\* Rows are added to the day by inserts only: any other step leaves it no more.
LEMMA DaysOnlyShrink ==
    ASSUME Inv, TableStep, \A r \in Requests : ~Insert(r), NEW date \in Nat
    PROVE  /\ BuysOn(date)' \subseteq BuysOn(date)
           /\ {o \in Orders : orders'[o] # None} = {o \in Orders : orders[o] # None}
<1>1. ASSUME NEW o \in Orders
      PROVE  /\ orders'[o] # None <=> orders[o] # None
             /\ o \in BuysOn(date)' => o \in BuysOn(date)
  <2>1. CASE orders[o] = None
    BY <2>1, OnlyInsertsPlace DEF Inv, BuysOn, OrdersOn
  <2>2. CASE orders[o] # None
    <3>1. Kept(o)
      BY <2>2, OrdersAreKept DEF Inv
    <3>2. orders'[o].status # "rejected" => orders[o].status # "rejected"
      BY <2>2, <3>1 DEF Kept, IsOpen, OpenStatuses
    <3> QED BY <2>2, <3>1, <3>2 DEF Kept, BuysOn, OrdersOn
  <2> QED BY <2>1, <2>2
<1> QED BY <1>1 DEF BuysOn, OrdersOn

\* The day is counted over a finite set of orders.
LEMMA DayIsFinite ==
    ASSUME IsFiniteSet({o \in Orders : orders[o] # None}), NEW date
    PROVE  /\ IsFiniteSet(OrdersOn(date)) /\ IsFiniteSet(BuysOn(date))
           /\ Cardinality(BuysOn(date)) \in Nat /\ Cardinality(OrdersOn(date)) \in Nat
           /\ Cardinality(BuysOn(date)) <= Cardinality(OrdersOn(date))
<1>1. OrdersOn(date) \in SUBSET {o \in Orders : orders[o] # None}
  BY DEF OrdersOn
<1>2. BuysOn(date) \in SUBSET OrdersOn(date)
  BY DEF BuysOn
<1>3. IsFiniteSet(OrdersOn(date))
  BY <1>1, FS_Subset
<1> QED BY <1>2, <1>3, FS_Subset, FS_CardinalityType

\* The one request counted the day before it inserts, and nobody inserted since.
LEMMA InsertKeepsLimits ==
    ASSUME Inv, InLimits, NEW r \in Requests, Insert(r), Requests = {r}
    PROVE  InLimits'
<1> DEFINE Placed == {o \in Orders : orders[o] # None}
<1>1. PICK o \in Orders :
        /\ orders[o] = None
        /\ orders' = [orders EXCEPT ![o] =
              [status |-> "submitted", side |-> request[r].ticket.side,
               ticker |-> request[r].ticket.ticker, qty |-> request[r].ticket.qty,
               tif |-> request[r].ticket.tif, placed |-> request[r].at, filled |-> None]]
        /\ Enter(r, IF Live(request[r].at)
                    THEN [op |-> "fill", order |-> o, at |-> request[r].at] ELSE None)
  BY DEF Insert
<1>2. /\ orders' \in [Orders -> {None} \cup Order]
      /\ orders'[o].side = request[r].ticket.side
      /\ orders'[o].placed = request[r].at
      /\ \A x \in Orders \ {o} : orders'[x] = orders[x]
  <2>1. Inv'
    BY NextKeepsInv DEF Next, Place
  <2> QED BY <1>1, <2>1 DEF Inv, TablesOK
<1>3. {x \in Orders : orders'[x] # None} \in SUBSET (Placed \cup {o})
  BY <1>2
<1>4. IsFiniteSet(Placed')
  BY <1>3, FS_AddElement, FS_Subset DEF InLimits
<1>5. ASSUME NEW date \in Nat
      PROVE  Cardinality(BuysOn(date)') <= MaxPerDay
  <2> DEFINE more == request[r].ticket.side = "BUY" /\ Date(request[r].at) = date
  <2>1. /\ ~more => BuysOn(date)' \in SUBSET BuysOn(date)
        /\ BuysOn(date)' \in SUBSET (BuysOn(date) \cup {o})
    BY <1>2 DEF BuysOn, OrdersOn
  <2>2. /\ IsFiniteSet(BuysOn(date)) /\ Cardinality(BuysOn(date)) \in Nat
        /\ Cardinality(BuysOn(date)) <= MaxPerDay
        /\ more => Cardinality(BuysOn(date)) < MaxPerDay
        /\ MaxPerDay \in Nat
    BY DayIsFinite, PaperAssumption DEF InLimits, Insert
  <2>3. CASE ~more
    <3>1. IsFiniteSet(BuysOn(date)') /\ Cardinality(BuysOn(date)') <= Cardinality(BuysOn(date))
      BY <2>1, <2>2, <2>3, FS_Subset
    <3> QED BY <2>2, <3>1, FS_CardinalityType
  <2>4. CASE more
    <3> HIDE DEF more
    <3>1. /\ IsFiniteSet(BuysOn(date) \cup {o})
          /\ Cardinality(BuysOn(date) \cup {o}) <= Cardinality(BuysOn(date)) + 1
      <4>1. /\ IsFiniteSet(BuysOn(date) \cup {o})
            /\ \/ Cardinality(BuysOn(date) \cup {o}) = Cardinality(BuysOn(date))
               \/ Cardinality(BuysOn(date) \cup {o}) = Cardinality(BuysOn(date)) + 1
        BY <2>2, FS_AddElement
      <4> QED BY <2>2, <4>1
    <3>2. /\ IsFiniteSet(BuysOn(date)')
          /\ Cardinality(BuysOn(date)') <= Cardinality(BuysOn(date) \cup {o})
      BY <2>1, <3>1, FS_Subset
    <3>3. Cardinality(BuysOn(date)') \in Nat /\ Cardinality(BuysOn(date) \cup {o}) \in Nat
      BY <3>1, <3>2, FS_CardinalityType
    <3> QED BY <2>2, <2>4, <3>1, <3>2, <3>3
  <2> QED BY <2>3, <2>4
<1>6. request'[r] = None \/ request'[r].op # "place"
  BY <1>1 DEF Enter, Inv, ThreadsOK
<1> QED BY <1>4, <1>5, <1>6 DEF InLimits

\* A guardrail check leaves the request with room for one; other steps add none.
LEMMA NextKeepsLimits ==
    ASSUME Inv, InLimits, [Next]_vars, NEW r \in Requests, Requests = {r}
    PROVE  InLimits'
<1>1. CASE Insert(r)
  BY <1>1, InsertKeepsLimits
<1>2. CASE ~Insert(r)
  <2>1. \A date \in Nat : BuysOn(date)' \in SUBSET BuysOn(date)
    BY <1>2, StepsOfTables, DaysOnlyShrink
  <2>2. IsFiniteSet({o \in Orders : orders[o] # None})'
    <3>1. 0 \in Nat
      OBVIOUS
    <3> QED BY <1>2, <3>1, StepsOfTables, DaysOnlyShrink DEF InLimits
  <2>3. ASSUME NEW date \in Nat
        PROVE  /\ Cardinality(BuysOn(date)') \in Nat
               /\ Cardinality(BuysOn(date)) \in Nat
               /\ Cardinality(BuysOn(date)') <= Cardinality(BuysOn(date))
    <3>1. IsFiniteSet(BuysOn(date)) /\ Cardinality(BuysOn(date)) \in Nat
      BY DayIsFinite DEF InLimits
    <3>2. IsFiniteSet(BuysOn(date)')
      BY <2>1, <3>1, FS_Subset
    <3> QED BY <2>1, <3>1, <3>2, FS_Subset, FS_CardinalityType
  <2>4. ASSUME request'[r] # None, request'[r].op = "place", request'[r].ticket.side = "BUY"
        PROVE  /\ Date(request'[r].at) \in Nat
               /\ Cardinality(BuysOn(Date(request'[r].at))) < MaxPerDay
    <3>1. CASE Check(r)
      <4>1. PICK ticket \in Tickets :
              /\ Guardrails(ticket, clock)
              /\ Enter(r, [op |-> "place", ticket |-> ticket, at |-> clock])
        BY <3>1 DEF Check
      <4>2. request'[r] = [op |-> "place", ticket |-> ticket, at |-> clock]
        BY <4>1 DEF Enter, Inv, ThreadsOK
      <4>3. Cardinality(OrdersOn(Date(clock))) < MaxPerDay
        BY <2>4, <4>1, <4>2 DEF Guardrails, IsExit
      <4>4. Date(clock) \in Nat
        BY DEF Inv, ThreadsOK, Phases, Date
      <4> QED BY <4>2, <4>3, <4>4, DayIsFinite, PaperAssumption DEF InLimits
    <3>2. CASE request'[r] = request[r]
      <4>1. request[r].at \in Nat
        <5>1. request[r] # None /\ request[r].op = "place"
          BY <2>4, <3>2
        <5>2. request[r].at \in Phases
          BY <5>1, RequestHolds DEF Inv
        <5> QED BY <5>2 DEF Phases
      <4> QED BY <2>4, <3>2, <4>1 DEF InLimits, Date
    <3>3. CASE FillNow(r) \/ RejectNow(r) \/ Reset(r)
      BY <2>4, <3>3, ArrivesElsewhere
    <3>4. CASE Poll \/ Tick \/ UNCHANGED vars \/ Cancel(r)
      BY <3>2, <3>4 DEF Poll, PollStart, PollExpire, PollFill, PollReject, PollEnd, Tick, vars, Cancel
    <3> QED BY <1>2, <3>1, <3>2, <3>3, <3>4 DEF Next, Place
  <2>5. \A date \in Nat : Cardinality(BuysOn(date)') <= MaxPerDay
    BY <2>3, PaperAssumption DEF InLimits
  <2> QED BY <2>2, <2>3, <2>4, <2>5, PaperAssumption DEF InLimits
<1> QED BY <1>1, <1>2

\* With one request at a time the guardrail's count holds: no day takes more
\* than MaxPerDay buys, however the poll closes and fills orders meanwhile.
THEOREM PaperDailyLimit ==
    ASSUME NEW r, Requests = {r}
    PROVE  Spec => []DailyLimitHolds
<1> DEFINE LInv == Inv /\ InLimits
<1>1. Init => LInv
  <2> SUFFICES ASSUME Init PROVE InLimits
    BY InitHoldsInv
  <2>1. {o \in Orders : orders[o] # None} = {} /\ \A date : BuysOn(date) = {}
    BY DEF Init, BuysOn, OrdersOn
  <2>2. \A x \in Requests : request[x] = None
    BY DEF Init
  <2>3. IsFiniteSet({o \in Orders : orders[o] # None}) /\ \A date : Cardinality(BuysOn(date)) = 0
    BY <2>1, FS_EmptySet
  <2> QED BY <2>2, <2>3, PaperAssumption DEF InLimits
<1>2. LInv /\ [Next]_vars => LInv'
  BY NextKeepsInv, NextKeepsLimits
<1>3. LInv => DailyLimitHolds
  <2>1. 0..Date(MaxClock) \subseteq Nat
    BY PaperAssumption DEF Date
  <2> QED BY <2>1 DEF DailyLimitHolds, BuysOn, InLimits
<1> QED BY <1>1, <1>2, <1>3, PTL DEF Spec

(***************************************************************************)
(* A reset starts the account over, where no other request runs.  Its      *)
(* first step leaves no open order, so that the poll has nothing to fill;  *)
(* what it reads of the positions and of the balance stays true until it   *)
(* is written.                                                             *)
(***************************************************************************)
OneCurrency == \A c \in Currencies \ {Currency} : book.cash[c] = 0

Ops == {"clear positions", "clear cash", "deposit"}

Cleared(state) ==
    /\ state.op = "cancel orders" => Submitted \subseteq state.todo
    /\ state.op \in Ops => Submitted = {}
    /\ state.op = "clear positions" => \A t \in Tickers : Held(book, t) => t \in state.todo
    /\ state.op \in {"clear cash", "deposit"} => \A t \in Tickers : ~Held(book, t)
    /\ state.op = "clear cash" => state.balance = book.cash[Currency]
    /\ state.op = "deposit" => book.cash[Currency] = 0

ResetInv(r) == OneCurrency /\ (request[r] # None => Cleared(request[r]))

\* An order that is open rests as submitted.
LEMMA OpenIsSubmitted ==
    ASSUME TablesOK, NEW o \in Orders
    PROVE  IsOpen(o) <=> o \in Submitted
  BY DEF TablesOK, Order, Statuses, IsOpen, OpenStatuses, Submitted

\* db.set_order_status opens no order.
LEMMA StatusOpensNone ==
    ASSUME TablesOK, NEW o \in Orders, NEW status \in {"cancelled", "rejected"}, SetStatus(o, status)
    PROVE  Submitted' \subseteq Submitted \ {o}
<1>1. CASE ~IsOpen(o)
  BY <1>1, OpenIsSubmitted DEF SetStatus, Submitted
<1>2. CASE IsOpen(o)
  <2>1. orders[o] \in Order /\ orders' = [orders EXCEPT ![o] = [orders[o] EXCEPT !.status = status]]
    BY <1>2 DEF SetStatus, IsOpen, TablesOK
  <2>2. orders'[o].status = status /\ \A x \in Orders \ {o} : orders'[x] = orders[x]
    BY <2>1 DEF TablesOK, Order
  <2> QED BY <2>2 DEF Submitted
<1> QED BY <1>1, <1>2

\* db.fill_order opens none either, fills one that was open, and moves the account's currency only.
LEMMA FillOpensNone ==
    ASSUME TablesOK, OneCurrency, NEW o \in Orders, NEW at \in Phases, NEW outcome, TryFill(o, at, outcome)
    PROVE  Submitted' \subseteq Submitted /\ OneCurrency' /\ (Submitted = {} => book' = book)
<1>1. CASE UNCHANGED tables
  BY <1>1 DEF tables, Submitted, OneCurrency
<1>2. CASE ~UNCHANGED tables
  <2>1. PICK price \in Prices :
          /\ IsOpen(o) /\ book' = Booked(book, FillRow(o, price), TRUE)
          /\ orders' = [orders EXCEPT ![o].status = "filled", ![o].filled = at]
    BY <1>2 DEF TryFill
  <2>2. o \in Submitted /\ orders[o] \in Order
    BY <2>1, OpenIsSubmitted DEF TablesOK, IsOpen
  <2>3. /\ orders' = [orders EXCEPT ![o] = [orders[o] EXCEPT !.status = "filled", !.filled = at]]
        /\ orders[o] = [status |-> orders[o].status, side |-> orders[o].side, ticker |-> orders[o].ticker,
                        qty |-> orders[o].qty, tif |-> orders[o].tif, placed |-> orders[o].placed,
                        filled |-> orders[o].filled]
    BY <2>1, <2>2 DEF Order, TablesOK
  <2>4. orders'[o].status = "filled" /\ \A x \in Orders \ {o} : orders'[x] = orders[x]
    BY <2>3 DEF TablesOK
  <2>5. FillRow(o, price).currency = Currency
    BY DEF FillRow, TradeRow
  <2>6. OneCurrency'
    BY <2>1, <2>5 DEF Booked, OneCurrency, TablesOK, Book
  <2> QED BY <2>2, <2>4, <2>6 DEF Submitted
<1> QED BY <1>1, <1>2

\* While the handler waits, the poll and the clock leave what it is to clear.
LEMMA OthersOpenNone ==
    ASSUME Inv, OneCurrency, Poll \/ Tick \/ UNCHANGED vars
    PROVE  /\ Submitted' \subseteq Submitted /\ OneCurrency' /\ (Submitted = {} => book' = book)
           /\ request' = request
<1>1. CASE PollStart \/ PollEnd \/ Tick \/ UNCHANGED vars
  BY <1>1 DEF PollStart, PollEnd, Tick, vars, tables, Submitted, OneCurrency
<1>2. CASE PollExpire
  <2>1. PICK o \in Orders : SetStatus(o, "cancelled")
    BY <1>2 DEF PollExpire, Inv, ThreadsOK
  <2> QED BY <1>2, <2>1, StatusOpensNone DEF PollExpire, Inv, OneCurrency
<1>3. CASE PollFill
  <2>1. poll \in [at : Phases, todo : SUBSET Orders, refused : Orders \cup {None}]
    BY <1>3 DEF PollFill, Inv, ThreadsOK
  <2>2. PICK o \in poll.todo, outcome \in {"resting", "gone", "filled", "refused"} :
           TryFill(o, poll.at, outcome)
    BY <1>3 DEF PollFill
  <2>3. o \in Orders /\ poll.at \in Phases
    BY <2>1
  <2> QED BY <1>3, <2>2, <2>3, FillOpensNone DEF PollFill, Inv
<1>4. CASE PollReject
  <2>1. poll.refused \in Orders
    BY <1>4 DEF PollReject, Inv, ThreadsOK
  <2>2. SetStatus(poll.refused, "rejected")
    BY <1>4 DEF PollReject, RejectFill
  <2> QED BY <1>4, <2>1, <2>2, StatusOpensNone DEF PollReject, RejectFill, Inv, OneCurrency
<1> QED BY <1>1, <1>2, <1>3, <1>4 DEF Poll

\* What the handler of r has read stays so.
LEMMA OthersKeepReset ==
    ASSUME Inv, NEW r \in Requests, ResetInv(r), Poll \/ Tick \/ UNCHANGED vars
    PROVE  ResetInv(r)' /\ ResetStep(r)
<1>1. /\ Submitted' \subseteq Submitted /\ OneCurrency' /\ (Submitted = {} => book' = book)
      /\ request' = request
  BY OthersOpenNone DEF ResetInv
<1>2. ASSUME request[r] # None
      PROVE  Cleared(request[r])'
  <2>1. CASE request[r].op = "cancel orders"
    BY <1>1, <1>2, <2>1 DEF ResetInv, Cleared, Ops
  <2>2. CASE request[r].op \in Ops
    <3>1. Submitted' = {} /\ book' = book
      BY <1>1, <1>2, <2>2 DEF ResetInv, Cleared
    <3> QED BY <1>1, <1>2, <2>2, <3>1 DEF ResetInv, Cleared, Ops
  <2>3. CASE request[r].op \notin Ops \cup {"cancel orders"}
    BY <1>1, <2>3 DEF Cleared, Ops
  <2> QED BY <2>1, <2>2, <2>3
<1> QED BY <1>1, <1>2 DEF ResetInv, ResetStep

\* A request that is not a reset has nothing to keep but the account's one currency.
LEMMA OtherRequestsKeepReset ==
    ASSUME Inv, NEW r \in Requests, ResetInv(r), Place(r) \/ Cancel(r)
    PROVE  ResetInv(r)' /\ ResetStep(r)
<1> DEFINE Away == request[r] = None \/ request[r].op \notin Ops \cup {"cancel orders"}
<1>1. Away
  BY DEF Place, Check, Insert, FillNow, RejectNow, Cancel, Ops
<1>3. \A state : Enter(r, state) => request'[r] = state
  BY DEF Enter, Inv, ThreadsOK
<1>4. Away'
  <2>1. CASE Check(r)
    <3>1. request'[r].op = "place"
      BY <1>3, <2>1 DEF Check
    <3> QED BY <3>1 DEF Ops
  <2>2. CASE Insert(r)
    <3>1. request'[r] = None \/ request'[r].op = "fill"
      BY <1>3, <2>2 DEF Insert
    <3> QED BY <3>1 DEF Ops
  <2>3. CASE FillNow(r)
    <3>1. request'[r] = None \/ request'[r].op = "reject"
      BY <1>3, <2>3 DEF FillNow
    <3> QED BY <3>1 DEF Ops
  <2>4. CASE RejectNow(r)
    BY <1>3, <2>4 DEF RejectNow
  <2>5. CASE Cancel(r)
    BY <1>1, <2>5 DEF Cancel
  <2> QED BY <2>1, <2>2, <2>3, <2>4, <2>5 DEF Place
<1>2. OneCurrency'
  <2>1. CASE FillNow(r)
    <3>1. request[r].order \in Orders /\ request[r].at \in Phases
      BY <2>1, RequestHolds DEF FillNow, Inv
    <3>2. PICK outcome : TryFill(request[r].order, request[r].at, outcome)
      BY <2>1 DEF FillNow
    <3> QED BY <3>1, <3>2, FillOpensNone DEF ResetInv, Inv
  <2>2. CASE ~FillNow(r)
    BY <2>2 DEF Place, Check, Insert, RejectNow, RejectFill, Cancel, tables, ResetInv, OneCurrency
  <2> QED BY <2>1, <2>2
<1> QED BY <1>1, <1>2, <1>4 DEF ResetInv, Cleared, ResetStep, Resetting, Ops

\* Where the handler stands after it moved on.
LEMMA Entered ==
    ASSUME ThreadsOK, NEW r \in Requests, NEW state, Enter(r, state)
    PROVE  request'[r] = state
  BY DEF ThreadsOK, Enter

\* The fields of where it stands.
LEMMA FieldsOfState ==
    ASSUME NEW state, NEW op, NEW x
    PROVE  /\ state = [op |-> op, todo |-> x] => state.op = op /\ state.todo = x
           /\ state = [op |-> op, balance |-> x] => state.op = op /\ state.balance = x
  OBVIOUS

\* reset_paper's own steps.
LEMMA ResetKeepsReset ==
    ASSUME Inv, NEW r \in Requests, ResetInv(r), Reset(r)
    PROVE  ResetInv(r)' /\ ResetStep(r)
<1>1. CASE ResetBegin(r)
  <2>1. request'[r] = [op |-> "cancel orders", todo |-> Submitted]
    BY <1>1, Entered DEF ResetBegin, Inv
  <2>2. Submitted' = Submitted /\ OneCurrency'
    BY <1>1 DEF ResetBegin, tables, Submitted, ResetInv, OneCurrency
  <2>3. request'[r].op = "cancel orders" /\ request'[r].todo = Submitted
    BY <2>1, FieldsOfState
  <2>4. Cleared(request[r])'
    BY <2>2, <2>3 DEF Cleared, Ops
  <2> QED BY <1>1, <2>2, <2>4 DEF ResetBegin, ResetInv, ResetStep, Resetting
<1>2. CASE ResetOrders(r)
  <2>1. /\ request[r] # None /\ request[r].op = "cancel orders"
        /\ request[r] \in [op : {"cancel orders"}, todo : SUBSET Orders]
        /\ Submitted \subseteq request[r].todo
    BY <1>2, RequestHolds DEF ResetOrders, Resetting, Inv, ResetInv, Cleared
  <2>2. ASSUME NEW o \in request[r].todo, SetStatus(o, "cancelled"), UNCHANGED <<book, transactions>>,
               Enter(r, [request[r] EXCEPT !.todo = @ \ {o}])
        PROVE  ResetInv(r)'
    <3>1. request'[r] = [request[r] EXCEPT !.todo = @ \ {o}]
      BY <2>2 DEF Enter, Inv, ThreadsOK
    <3>2. request'[r].op = "cancel orders" /\ request'[r].todo = request[r].todo \ {o}
      BY <2>1, <3>1
    <3>3. Submitted' \subseteq request'[r].todo
      BY <2>1, <2>2, <3>2, StatusOpensNone DEF Inv
    <3> QED BY <2>2, <3>2, <3>3 DEF ResetInv, OneCurrency, Cleared, Ops
  <2>3. ASSUME request[r].todo = {}, UNCHANGED tables,
               Enter(r, [op |-> "clear positions", todo |-> {t \in Tickers : Held(book, t)}])
        PROVE  ResetInv(r)'
    <3> DEFINE held == {t \in Tickers : Held(book, t)}
    <3>0. request'[r] = [op |-> "clear positions", todo |-> held]
      BY <2>3, Entered DEF Inv
    <3> HIDE DEF held
    <3>1. request'[r].op = "clear positions" /\ request'[r].todo = held
      BY <3>0, FieldsOfState
    <3>2. Submitted' = {} /\ OneCurrency' /\ book' = book
      BY <2>1, <2>3 DEF tables, Submitted, ResetInv, OneCurrency
    <3>3. /\ request'[r].op = "clear positions"
          /\ \A t \in Tickers : Held(book', t) => t \in request'[r].todo
      BY <3>1, <3>2 DEF held
    <3>4. Cleared(request[r])'
      BY <3>2, <3>3 DEF Cleared, Ops
    <3> QED BY <3>2, <3>4 DEF ResetInv
  <2> QED BY <1>2, <2>1, <2>2, <2>3 DEF ResetOrders, ResetStep, Resetting
<1>3. CASE ResetPositions(r)
  <2>1. /\ request[r] # None /\ request[r].op = "clear positions" /\ Submitted = {}
        /\ request[r] \in [op : {"clear positions"}, todo : SUBSET Tickers]
        /\ \A t \in Tickers : Held(book, t) => t \in request[r].todo
    BY <1>3, RequestHolds DEF ResetPositions, Resetting, Inv, ResetInv, Cleared, Ops
  <2>2. ASSUME NEW t \in request[r].todo, Write(TradeRow("ADJUST", t, 0, 1, 0, Currency, None)),
               Enter(r, [request[r] EXCEPT !.todo = @ \ {t}])
        PROVE  ResetInv(r)'
    <3>1. request'[r] = [request[r] EXCEPT !.todo = @ \ {t}]
      BY <2>2 DEF Enter, Inv, ThreadsOK
    <3>2. request'[r].op = "clear positions" /\ request'[r].todo = request[r].todo \ {t}
      BY <2>1, <3>1
    <3> DEFINE tx == TradeRow("ADJUST", t, 0, 1, 0, Currency, None)
    <3>a. /\ tx.side = "ADJUST" /\ tx.ticker = t /\ tx.qty = 0 /\ tx.currency = Currency
          /\ book' = Booked(book, tx, FALSE) /\ orders' = orders
      BY <2>2 DEF Write, TradeRow
    <3> HIDE DEF tx
    <3>b. ~IsCash(tx) /\ CashDelta(tx, FALSE) = 0 /\ \A p : PositionAfter(p, tx) = NotHeld
      BY <3>a DEF IsCash, CashSides, CashDelta, PositionAfter, SharesAfter
    <3>3. /\ book'.cash = [book.cash EXCEPT ![Currency] = @ + 0]
          /\ book'.portfolio = [book.portfolio EXCEPT ![t] = NotHeld]
          /\ orders' = orders
      BY <3>a, <3>b DEF Booked, WithPosition
    <3>4. ASSUME NEW u \in Tickers, Held(book', u)
          PROVE  Held(book, u) /\ u # t
      <4>1. book.portfolio \in [Tickers -> Position] /\ NotHeld.shares = 0
        BY DEF Inv, TablesOK, Book, NotHeld
      <4>2. t \in Tickers
        BY <2>1, <2>2
      <4>3. u # t
        BY <3>3, <3>4, <4>1, <4>2 DEF Held
      <4> QED BY <3>3, <3>4, <4>1, <4>3 DEF Held
    <3>5. OneCurrency' /\ Submitted' = {}
      BY <2>1, <3>3 DEF ResetInv, OneCurrency, Submitted, Inv, TablesOK, Book
    <3> QED BY <2>1, <3>2, <3>4, <3>5 DEF ResetInv, Cleared, Ops
  <2>3. ASSUME request[r].todo = {}, UNCHANGED tables,
               Enter(r, [op |-> "clear cash", balance |-> book.cash[Currency]])
        PROVE  ResetInv(r)'
    <3> DEFINE balance == book.cash[Currency]
    <3>0. request'[r] = [op |-> "clear cash", balance |-> balance]
      BY <2>3, Entered DEF Inv
    <3> HIDE DEF balance
    <3>1. request'[r].op = "clear cash" /\ request'[r].balance = balance
      BY <3>0, FieldsOfState
    <3> USE DEF balance
    <3>2. Submitted' = {} /\ OneCurrency' /\ book' = book
      BY <2>1, <2>3 DEF tables, Submitted, ResetInv, OneCurrency
    <3>3. \A t \in Tickers : ~Held(book, t)
      BY <2>1, <2>3
    <3>4. Cleared(request[r])'
      BY <3>1, <3>2, <3>3 DEF Cleared, Ops
    <3> QED BY <3>2, <3>4 DEF ResetInv
  <2> QED BY <1>3, <2>1, <2>2, <2>3 DEF ResetPositions, ResetStep, Resetting
<1>4. ASSUME Resetting(r, "clear cash")
      PROVE  /\ Submitted = {} /\ \A t \in Tickers : ~Held(book, t)
             /\ request[r].balance = book.cash[Currency] /\ request[r].balance \in Nat
             /\ Currency \in Currencies
  BY <1>4, RequestHolds, PaperAssumption DEF Resetting, ResetInv, Cleared, Ops, Inv
<1>5. CASE ResetCash(r)
  <2>0. request'[r] = [op |-> "deposit"]
    BY <1>5, Entered DEF ResetCash, Inv
  <2>1. Resetting(r, "clear cash") /\ orders' = orders
    BY <1>5 DEF ResetCash, tables, Write
  <2>2. book'.portfolio = book.portfolio /\ book'.cash[Currency] = 0 /\ OneCurrency'
    <3>1. CASE request[r].balance = 0
      BY <1>4, <1>5, <2>1, <3>1 DEF ResetCash, tables, ResetInv, OneCurrency
    <3>2. CASE request[r].balance # 0
      <4> DEFINE tx == CashRow("WITHDRAW", request[r].balance, Currency)
      <4>1. /\ tx.side = "WITHDRAW" /\ tx.qty = request[r].balance /\ tx.currency = Currency
            /\ book' = Booked(book, tx, FALSE)
        BY <1>5, <3>2 DEF ResetCash, Write, CashRow
      <4> HIDE DEF tx
      <4>2. IsCash(tx) /\ CashDelta(tx, FALSE) = -request[r].balance
        BY <4>1 DEF IsCash, CashSides, CashDelta
      <4>3. /\ book'.cash = [book.cash EXCEPT ![Currency] = @ + -request[r].balance]
            /\ book'.portfolio = book.portfolio
        BY <4>1, <4>2 DEF Booked, WithPosition
      <4>4. book.cash \in [Currencies -> Int]
        BY DEF Inv, TablesOK, Book
      <4>5. book'.cash[Currency] = book.cash[Currency] + -request[r].balance
        BY <1>4, <2>1, <4>3, <4>4
      <4>6. request[r].balance = book.cash[Currency] /\ request[r].balance \in Nat
        BY <1>4, <2>1
      <4>7. book'.cash[Currency] = 0
        BY <4>5, <4>6
      <4>8. OneCurrency'
        BY <4>3, <4>4 DEF ResetInv, OneCurrency
      <4> QED BY <4>3, <4>7, <4>8
    <3> QED BY <3>1, <3>2
  <2>3. Submitted' = {} /\ \A t \in Tickers : ~Held(book', t)
    BY <1>4, <2>1, <2>2 DEF Submitted, Held
  <2>4. request'[r].op = "deposit"
    BY <2>0
  <2>5. Cleared(request[r])'
    BY <2>2, <2>3, <2>4 DEF Cleared, Ops
  <2> QED BY <2>0, <2>1, <2>2, <2>5 DEF ResetInv, ResetStep, Resetting
<1>6. CASE ResetFails(r)
  <2>1. Resetting(r, "clear cash") /\ ~Accepts(book, CashRow("WITHDRAW", request[r].balance, Currency), FALSE)
    BY <1>6 DEF ResetFails
  <2> DEFINE tx == CashRow("WITHDRAW", request[r].balance, Currency)
  <2>2. tx.side = "WITHDRAW" /\ tx.qty = request[r].balance /\ tx.currency = Currency
    BY DEF CashRow
  <2> HIDE DEF tx
  <2>3. CashDelta(tx, FALSE) = -request[r].balance
    BY <2>2 DEF IsCash, CashSides, CashDelta
  <2>4. book.cash[Currency] + CashDelta(tx, FALSE) >= 0
    <3>1. request[r].balance = book.cash[Currency] /\ request[r].balance \in Nat
      BY <1>4, <2>1
    <3>2. \A n \in Nat : n + -n >= 0
      OBVIOUS
    <3> QED BY <2>3, <3>1, <3>2, Zenon
  <2>5. Accepts(book, tx, FALSE)
    BY <2>2, <2>4 DEF Accepts, SameCurrency, NoShortSale, NoOverdraft, TradeSides
  <2> QED BY <2>1, <2>5 DEF tx
<1>7. CASE ResetDeposit(r)
  <2>1. /\ Resetting(r, "deposit") /\ Submitted = {} /\ \A t \in Tickers : ~Held(book, t)
        /\ book.cash[Currency] = 0 /\ request'[r] = None /\ orders' = orders
    BY <1>7 DEF ResetDeposit, Write, Enter, Inv, ThreadsOK, Resetting, ResetInv, Cleared, Ops
  <2>2. /\ book' = [cash |-> [book.cash EXCEPT ![Currency] = @ + StartCash], portfolio |-> book.portfolio]
        /\ StartCash \in Nat /\ Currency \in Currencies
    BY <1>7, PaperAssumption
       DEF ResetDeposit, Write, Booked, WithPosition, IsCash, CashSides, CashRow, CashDelta
  <2>3. \A t \in Tickers : book.portfolio[t] = NotHeld
    BY <2>1 DEF Held, NotHeld, Inv, TablesOK, Book, Position, AccountSolvent, Solvent
  <2>4. book.portfolio = EmptyBook.portfolio
    BY <2>3 DEF EmptyBook, Inv, TablesOK, Book
  <2>5. [book.cash EXCEPT ![Currency] = @ + StartCash] = [EmptyBook.cash EXCEPT ![Currency] = StartCash]
    BY <2>1, <2>2 DEF EmptyBook, ResetInv, OneCurrency, Inv, TablesOK, Book
  <2>6. book' = StartedOver
    BY <2>2, <2>4, <2>5 DEF StartedOver, EmptyBook
  <2>7. OneCurrency'
    BY <2>2 DEF ResetInv, OneCurrency, Inv, TablesOK, Book
  <2>8. \A o \in Orders : ~IsOpen(o)'
    BY <2>1, OpenIsSubmitted DEF IsOpen, Inv
  <2> QED BY <2>1, <2>6, <2>7, <2>8 DEF ResetInv, ResetStep, Resetting
<1> QED BY <1>1, <1>2, <1>3, <1>5, <1>6, <1>7 DEF Reset

\* With one request at a time a reset is never refused, and starts the account over: no position, no
\* open order and no cash but its deposit, whatever the poll was filling when it began.
THEOREM PaperStartsOver ==
    ASSUME NEW q, Requests = {q}
    PROVE  Spec => ResetStartsOver
<1>1. Init => ResetInv(q)
  BY PaperAssumption DEF Init, StartedOver, EmptyBook, ResetInv, OneCurrency
<1>2. Inv /\ ResetInv(q) /\ [Next]_vars => ResetInv(q)'
  BY OthersKeepReset, OtherRequestsKeepReset, ResetKeepsReset DEF Next
<1>3. Inv /\ ResetInv(q) /\ [Next]_vars => [\A r \in Requests : ResetStep(r)]_vars
  BY OthersKeepReset, OtherRequestsKeepReset, ResetKeepsReset DEF Next
<1> QED BY <1>1, <1>2, <1>3, InvHolds, PTL DEF Spec, ResetStartsOver
=============================================================================
