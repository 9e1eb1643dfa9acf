------------------------------- MODULE Ledger -------------------------------
(***************************************************************************)
(* The hand-kept account: the portfolio and cash routes of                 *)
(* backend/app/main.py over the ledger.  Requests run on a thread pool     *)
(* and share one database; each database call is atomic, a handler is not. *)
(* A handler first reads the tables to decide which row to write, then     *)
(* writes it with ledger.record; other requests may commit in between.     *)
(***************************************************************************)
EXTENDS LedgerRules

CONSTANTS Requests,    \* concurrent requests of the user (tabs, retries)
          Quantities,  \* share counts a form may carry
          Prices,      \* trade prices
          Fees,        \* trade fees
          Balances,    \* cash amounts a form may carry
          MaxRows      \* bound: rows in the ledger

ASSUME LedgerAssumption ==
    /\ Quantities \subseteq Nat \ {0}
    /\ Prices \subseteq Nat
    /\ Fees \subseteq Nat
    /\ Balances \subseteq Nat
    /\ MaxRows \in Nat

VARIABLES book,          \* portfolio and cash_balances
          transactions,  \* the ledger, oldest first
          request        \* what each request has decided to write

vars == <<book, transactions, request>>

\* A handler past its reads will record tx; `asked` is the balance the user
\* asked for when the handler is set_cash.
Decisions == [tx : Rows({}), funded : BOOLEAN, asked : Nat \cup {None}]

Pending(r) == request[r] # None

\* Bound: every pending request must still have room for its row.
Room == Len(transactions) + Cardinality({r \in Requests : Pending(r)}) < MaxRows

Decide(r, tx, funded, asked) ==
    /\ request' = [request EXCEPT ![r] = [tx |-> tx, funded |-> funded, asked |-> asked]]
    /\ UNCHANGED <<book, transactions>>

Free(r) == ~Pending(r) /\ Room

(***************************************************************************)
(* POST /api/portfolio: a BUY in the currency of the held position, or in  *)
(* the requested one when the ticker is not held.  A different requested   *)
(* currency is refused before anything is written.                         *)
(***************************************************************************)
AddHolding(r) ==
    /\ Free(r)
    /\ \E t \in Tickers, qty \in Quantities, price \in Prices, fees \in Fees,
          requested \in Currencies, payFromCash \in BOOLEAN :
         /\ Held(book, t) => requested = book.portfolio[t].currency
         /\ Decide(r, TradeRow("BUY", t, qty, price, fees, requested, None),
                   payFromCash, None)

\* An ADJUST sets the position outright; its price only sets the average cost.
Correction(t, qty, ccy) == TradeRow("ADJUST", t, qty, 1, 0, ccy, None)

\* PUT /api/portfolio/{ticker}: no requested currency keeps the stored one.
EditHolding(r) ==
    /\ Free(r)
    /\ \E t \in Tickers, qty \in Quantities, requested \in Currencies \cup {None} :
         /\ Held(book, t)
         /\ LET ccy == IF requested = None THEN book.portfolio[t].currency ELSE requested
            IN  Decide(r, Correction(t, qty, ccy), FALSE, None)

\* POST /api/portfolio/{ticker}/sell, in the currency read with the holding.
SellHolding(r) ==
    /\ Free(r)
    /\ \E t \in Tickers, qty \in Quantities, price \in Prices, fees \in Fees,
          toCash \in BOOLEAN :
         /\ Held(book, t)
         /\ Decide(r, TradeRow("SELL", t, qty, price, fees, book.portfolio[t].currency, None),
                   toCash, None)

\* DELETE /api/portfolio/{ticker}: an ADJUST to zero.
DeleteHolding(r) ==
    /\ Free(r)
    /\ \E t \in Tickers :
         /\ Held(book, t)
         /\ Decide(r, Correction(t, 0, book.portfolio[t].currency), FALSE, None)

\* POST /api/portfolio/cash.
MoveCash(r) ==
    /\ Free(r)
    /\ \E side \in CashSides, amount \in Balances \ {0}, ccy \in Currencies :
         Decide(r, CashRow(side, amount, ccy), FALSE, None)

(***************************************************************************)
(* PUT /api/portfolio/cash/{code}: read the balance, then record the gap   *)
(* to the one asked for; nothing when there is no gap.                     *)
(***************************************************************************)
SetCash(r) ==
    /\ Free(r)
    /\ \E balance \in Balances, ccy \in Currencies :
         LET gap == balance - book.cash[ccy]
         IN  /\ gap # 0
             /\ Decide(r, IF gap > 0 THEN CashRow("DEPOSIT", gap, ccy)
                                     ELSE CashRow("WITHDRAW", -gap, ccy), FALSE, balance)

\* ledger.record: the row and both tables in one transaction ...
Record(r) ==
    /\ Pending(r)
    /\ LET tx == request[r].tx  funded == request[r].funded
       IN  /\ Accepts(book, tx, funded)
           /\ book' = Booked(book, tx, funded)
           /\ transactions' = Append(transactions, Stored(tx, funded))
    /\ request' = [request EXCEPT ![r] = None]

\* ... or a LedgerError (HTTP 400) and nothing written.
Refuse(r) ==
    /\ Pending(r)
    /\ ~Accepts(book, request[r].tx, request[r].funded)
    /\ request' = [request EXCEPT ![r] = None]
    /\ UNCHANGED <<book, transactions>>

Init ==
    /\ book = EmptyBook
    /\ transactions = <<>>
    /\ request = [r \in Requests |-> None]

Next == \E r \in Requests :
    \/ AddHolding(r) \/ EditHolding(r) \/ SellHolding(r) \/ DeleteHolding(r)
    \/ MoveCash(r) \/ SetCash(r) \/ Record(r) \/ Refuse(r)

Spec == Init /\ [][Next]_vars
-----------------------------------------------------------------------------
(***************************************************************************)
(* Properties.                                                             *)
(***************************************************************************)
\* Every pending request carries a row ledger.build would let through.
TypeOK ==
    /\ book \in Book
    /\ \A i \in DOMAIN transactions : transactions[i].cash_delta \in Int
    /\ request \in [Requests -> {None} \cup Decisions]

\* However handlers that read first and write later interleave, the account
\* is never overdrawn and never short, and no row is left without shares.
TablesSolvent == Solvent(book)

\* ledger.replay over the stored rows gives exactly the materialized tables
\* (what test_ledger.py asserts after single calls, here after any
\* interleaving of handlers).
LedgerReplays == Replay(transactions) = book

\* A position's share count mixes one currency only: since the last ADJUST
\* (which sets position and currency outright) or the last time it was flat,
\* every BUY and SELL of the ticker was in the currency it is held in.  The
\* handlers' own check reads the table too early to guarantee this.
Since(t, i) == \A j \in i..Len(transactions) :
    transactions[j].ticker = t => transactions[j].side \in TradeSides

OpenedAt(t, i) == Held(Replay(SubSeq(transactions, 1, i)), t)

OneCurrencyPerPosition ==
    \A t \in Tickers, i \in DOMAIN transactions :
        /\ transactions[i].ticker = t
        /\ Since(t, i)
        /\ \A k \in i..Len(transactions) : OpenedAt(t, k)
        => transactions[i].currency = book.portfolio[t].currency

\* The tables and the rows tell one story, whatever handlers interleave.
BooksAgree == TypeOK /\ LedgerReplays /\ OneCurrencyPerPosition

\* "Set a balance outright" (main.py:1642): once the handler has recorded
\* its gap, the balance is the one the user asked for.
SetCashSetsTheBalance ==
    [][\A r \in Requests :
         /\ Pending(r)
         /\ request[r].asked # None
         /\ Len(transactions') > Len(transactions)
         /\ request'[r] = None
         => book'.cash[request[r].tx.currency] = request[r].asked]_vars
=============================================================================
