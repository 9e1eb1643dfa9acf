---------------------------- MODULE LedgerRules ----------------------------
(***************************************************************************)
(* The bookkeeping rules of backend/app/ledger.py and of the one write     *)
(* path in backend/app/db.py (_record_transaction): what one ledger row    *)
(* does to the two materialized tables of an account, and when the rules   *)
(* refuse it.  Everything here is a pure operator; the modules that own    *)
(* an account apply Booked inside one atomic action, as the code does      *)
(* inside one BEGIN IMMEDIATE transaction.                                 *)
(*                                                                         *)
(* Money and shares are integers: the 1e-9 tolerance of the code (EPS) is  *)
(* there to absorb floating-point noise and is zero here.  The average     *)
(* cost of a position, the realized profit and the external flow of a row  *)
(* are left out: no rule below reads them.                                 *)
(***************************************************************************)
EXTENDS Integers, SequencesExt

CONSTANTS Tickers,     \* symbols that can be held
          Currencies,  \* ISO currencies of cash and positions
          None         \* "no row", "no order", "no currency"

ASSUME NoneAssumption == None \notin Tickers \cup Currencies

CashSides  == {"DEPOSIT", "WITHDRAW"}
TradeSides == {"BUY", "SELL"}
Sides      == TradeSides \cup CashSides \cup {"ADJUST"}

\* A portfolio row.  The table has no row for a position of zero shares.
NotHeld  == [shares |-> 0, currency |-> None]
Position == [shares : Int, currency : Currencies \cup {None}]

\* The two materialized tables of one account.
Book      == [cash : [Currencies -> Int], portfolio : [Tickers -> Position]]
EmptyBook == [cash      |-> [c \in Currencies |-> 0],
              portfolio |-> [t \in Tickers |-> NotHeld]]

Held(book, t) == book.portfolio[t].shares > 0

\* No overdraft, no short position, and a row of the portfolio table exactly
\* when shares are held, naming the currency they are held in.
Solvent(book) ==
    /\ \A c \in Currencies : book.cash[c] >= 0
    /\ \A t \in Tickers : /\ book.portfolio[t].shares >= 0
                          /\ Held(book, t) <=> book.portfolio[t].currency # None

(***************************************************************************)
(* ledger.build normalizes a cash row to ticker = its currency, price 1.   *)
(***************************************************************************)
CashRow(side, amount, ccy) ==
    [side |-> side, ticker |-> ccy, qty |-> amount, price |-> 1, fees |-> 0,
     currency |-> ccy, order |-> None]

TradeRow(side, t, qty, price, fees, ccy, order) ==
    [side |-> side, ticker |-> t, qty |-> qty, price |-> price, fees |-> fees,
     currency |-> ccy, order |-> order]

IsCash(tx) == tx.side \in CashSides

\* What ledger.build lets through, for rows that name one of `orders` or none.
Rows(orders) ==
    {tx \in [side : Sides, ticker : Tickers \cup Currencies, qty : Nat, price : Nat,
             fees : Nat, currency : Currencies, order : orders \cup {None}] :
        /\ IsCash(tx) => tx.ticker = tx.currency
        /\ ~IsCash(tx) => tx.ticker \in Tickers
        /\ tx.side # "ADJUST" => tx.qty > 0}

(***************************************************************************)
(* ledger.apply.  `funded` says a BUY is paid from the account's cash and  *)
(* a SELL's proceeds go to it; otherwise the money moved outside.          *)
(***************************************************************************)
Gross(tx) == tx.qty * tx.price

CashDelta(tx, funded) ==
    IF IsCash(tx) THEN IF tx.side = "DEPOSIT" THEN tx.qty ELSE -tx.qty
    ELSE IF ~funded \/ tx.side = "ADJUST" THEN 0
    ELSE IF tx.side = "BUY" THEN -(Gross(tx) + tx.fees) ELSE Gross(tx) - tx.fees

SharesAfter(shares, tx) ==
    IF tx.side = "ADJUST" THEN tx.qty
    ELSE IF tx.side = "BUY" THEN shares + tx.qty ELSE shares - tx.qty

PositionAfter(position, tx) ==
    IF SharesAfter(position.shares, tx) > 0
    THEN [shares |-> SharesAfter(position.shares, tx), currency |-> tx.currency]
    ELSE NotHeld

(***************************************************************************)
(* The refusals of _record_transaction and ledger.apply: one currency per  *)
(* position, no short sale, no overdraft.                                  *)
(***************************************************************************)
SameCurrency(book, tx) ==
    tx.side \in TradeSides /\ Held(book, tx.ticker)
        => book.portfolio[tx.ticker].currency = tx.currency

NoShortSale(book, tx) ==
    tx.side = "SELL" => tx.qty <= book.portfolio[tx.ticker].shares

\* Mutant: the balance is not checked.
NoOverdraft_dropped(book, tx, funded) == TRUE

NoOverdraft(book, tx, funded) ==
    book.cash[tx.currency] + CashDelta(tx, funded) >= 0

Accepts(book, tx, funded) ==
    /\ SameCurrency(book, tx)
    /\ NoShortSale(book, tx)
    /\ NoOverdraft(book, tx, funded)

(***************************************************************************)
(* The tables after an accepted row, and the row as it is stored.          *)
(***************************************************************************)
WithPosition(book, tx) ==
    IF IsCash(tx) THEN book.portfolio
    ELSE [book.portfolio EXCEPT ![tx.ticker] = PositionAfter(@, tx)]

Booked(book, tx, funded) ==
    [cash      |-> [book.cash EXCEPT ![tx.currency] = @ + CashDelta(tx, funded)],
     portfolio |-> WithPosition(book, tx)]

\* Mutant: the row is stored as if its money had moved outside the account.
Stored_unfunded(tx, funded) ==
    [side |-> tx.side, ticker |-> tx.ticker, qty |-> tx.qty, price |-> tx.price,
     fees |-> tx.fees, currency |-> tx.currency, order |-> tx.order,
     cash_delta |-> CashDelta(tx, FALSE)]

Stored(tx, funded) ==
    [side |-> tx.side, ticker |-> tx.ticker, qty |-> tx.qty, price |-> tx.price,
     fees |-> tx.fees, currency |-> tx.currency, order |-> tx.order,
     cash_delta |-> CashDelta(tx, funded)]

(***************************************************************************)
(* ledger.replay: the tables rebuilt from the rows alone, oldest first.    *)
(***************************************************************************)
Replayed(book, row) ==
    [cash      |-> [book.cash EXCEPT ![row.currency] = @ + row.cash_delta],
     portfolio |-> WithPosition(book, row)]

\* The tables after each of the rows, from a book on.
AfterEach(book, rows) ==
    LET after[n \in 0..Len(rows)] == IF n = 0 THEN book ELSE Replayed(after[n - 1], rows[n])
    IN  after

Replay(rows) == AfterEach(EmptyBook, rows)[Len(rows)]
=============================================================================
