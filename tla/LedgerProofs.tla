---------------------------- MODULE LedgerProofs ----------------------------
(***************************************************************************)
(* Proofs about the hand-kept account.                                     *)
(***************************************************************************)
EXTENDS Ledger, LedgerRulesProofs

Inv == TypeOK /\ TablesSolvent

\* No handler changes a table by deciding what to write.
LEMMA DecideKeepsInv ==
    ASSUME Inv, NEW r \in Requests, NEW tx \in Rows({}), NEW funded \in BOOLEAN,
           NEW asked \in Nat \cup {None}, Decide(r, tx, funded, asked)
    PROVE  Inv'
<1>1. [tx |-> tx, funded |-> funded, asked |-> asked] \in Decisions
  BY DEF Decisions
<1> QED BY <1>1 DEF Inv, TypeOK, TablesSolvent, Decide

\* The rows the forms build are rows ledger.build lets through.
LEMMA FormsBuildRows ==
    /\ \A side \in TradeSides, t \in Tickers, qty \in Quantities, price \in Prices,
          fees \in Fees, ccy \in Currencies :
         TradeRow(side, t, qty, price, fees, ccy, None) \in Rows({})
    /\ \A t \in Tickers, qty \in Nat, ccy \in Currencies : Correction(t, qty, ccy) \in Rows({})
    /\ \A side \in CashSides, amount \in Nat \ {0}, ccy \in Currencies :
         CashRow(side, amount, ccy) \in Rows({})
  BY LedgerAssumption DEF TradeRow, Correction, CashRow, Rows, IsCash, Sides, TradeSides, CashSides

\* Recording a row keeps the account solvent; a refusal changes no table.
LEMMA RecordKeepsInv ==
    ASSUME Inv, NEW r \in Requests, Record(r)
    PROVE  Inv'
<1> DEFINE tx == request[r].tx
           funded == request[r].funded
<1>1. tx \in Rows({}) /\ funded \in BOOLEAN
  BY DEF Inv, TypeOK, Record, Pending, Decisions
<1>2. Accepts(book, tx, funded) /\ book' = Booked(book, tx, funded)
  BY DEF Record
<1>3. book' \in Book /\ Solvent(book')
  BY <1>1, <1>2, BookedKeepsSolvent DEF Inv, TypeOK, TablesSolvent
<1>4. TablesSolvent'
  BY <1>3 DEF TablesSolvent
<1>5. request' \in [Requests -> {None} \cup Decisions]
  BY DEF Inv, TypeOK, Record
<1>6. \A i \in DOMAIN transactions' : transactions'[i].cash_delta \in Int
  <2>1. Stored(tx, funded).cash_delta \in Int
    BY <1>1, CashDeltaIsInt DEF Stored
  <2> QED BY <2>1 DEF Record, Inv, TypeOK
<1> QED BY <1>3, <1>4, <1>5, <1>6 DEF Inv, TypeOK

\* A handler decides without writing; only Record writes, one accepted row.
LEMMA NextKeepsInv ==
    ASSUME Inv, [Next]_vars
    PROVE  Inv'
<1>1. CASE UNCHANGED vars
  BY <1>1 DEF vars, Inv, TypeOK, TablesSolvent
<1>2. ASSUME NEW r \in Requests, AddHolding(r)
      PROVE  Inv'
  BY <1>2, FormsBuildRows, DecideKeepsInv DEF AddHolding, TradeSides
<1>3. ASSUME NEW r \in Requests, EditHolding(r)
      PROVE  Inv'
  <2>1. PICK t \in Tickers, qty \in Quantities, requested \in Currencies \cup {None} :
           /\ Held(book, t)
           /\ Decide(r, Correction(t, qty, IF requested = None THEN book.portfolio[t].currency
                                                              ELSE requested), FALSE, None)
    BY <1>3 DEF EditHolding
  <2>2. book.portfolio[t].currency \in Currencies
    BY <2>1 DEF Inv, TypeOK, Book, Position, TablesSolvent, Solvent
  <2>3. Correction(t, qty, IF requested = None THEN book.portfolio[t].currency
                                               ELSE requested) \in Rows({})
    BY <2>2, FormsBuildRows, LedgerAssumption
  <2> QED BY <2>1, <2>3, DecideKeepsInv
<1>4. ASSUME NEW r \in Requests, SellHolding(r)
      PROVE  Inv'
  <2>1. PICK t \in Tickers, qty \in Quantities, price \in Prices, fees \in Fees,
             toCash \in BOOLEAN :
           /\ Held(book, t)
           /\ Decide(r, TradeRow("SELL", t, qty, price, fees, book.portfolio[t].currency, None),
                     toCash, None)
    BY <1>4 DEF SellHolding
  <2>2. book.portfolio[t].currency \in Currencies
    BY <2>1 DEF Inv, TypeOK, Book, Position, TablesSolvent, Solvent
  <2> QED BY <2>1, <2>2, FormsBuildRows, DecideKeepsInv DEF TradeSides
<1>5. ASSUME NEW r \in Requests, DeleteHolding(r)
      PROVE  Inv'
  <2>1. PICK t \in Tickers :
           /\ Held(book, t)
           /\ Decide(r, Correction(t, 0, book.portfolio[t].currency), FALSE, None)
    BY <1>5 DEF DeleteHolding
  <2>2. book.portfolio[t].currency \in Currencies
    BY <2>1 DEF Inv, TypeOK, Book, Position, TablesSolvent, Solvent
  <2> QED BY <2>1, <2>2, FormsBuildRows, DecideKeepsInv
<1>6. ASSUME NEW r \in Requests, MoveCash(r)
      PROVE  Inv'
  BY <1>6, FormsBuildRows, DecideKeepsInv, LedgerAssumption DEF MoveCash
<1>7. ASSUME NEW r \in Requests, SetCash(r)
      PROVE  Inv'
  <2>1. PICK balance \in Balances, ccy \in Currencies :
           LET gap == balance - book.cash[ccy]
           IN  /\ gap # 0
               /\ Decide(r, IF gap > 0 THEN CashRow("DEPOSIT", gap, ccy)
                                       ELSE CashRow("WITHDRAW", -gap, ccy), FALSE, balance)
    BY <1>7 DEF SetCash
  <2> DEFINE gap == balance - book.cash[ccy]
  <2>2. gap \in Int /\ gap # 0 /\ balance \in Nat
    BY <2>1, LedgerAssumption DEF Inv, TypeOK, Book
  <2>3. /\ gap > 0 => CashRow("DEPOSIT", gap, ccy) \in Rows({})
        /\ gap < 0 => CashRow("WITHDRAW", -gap, ccy) \in Rows({})
    BY <2>2, FormsBuildRows DEF CashSides
  <2>4. Decide(r, IF gap > 0 THEN CashRow("DEPOSIT", gap, ccy)
                             ELSE CashRow("WITHDRAW", -gap, ccy), FALSE, balance)
    BY <2>1
  <2> HIDE DEF gap
  <2>5. CASE gap > 0
    BY <2>2, <2>3, <2>4, <2>5, DecideKeepsInv
  <2>6. CASE gap < 0
    BY <2>2, <2>3, <2>4, <2>6, DecideKeepsInv
  <2> QED BY <2>2, <2>5, <2>6
<1>8. ASSUME NEW r \in Requests, Record(r)
      PROVE  Inv'
  BY <1>8, RecordKeepsInv
<1>9. ASSUME NEW r \in Requests, Refuse(r)
      PROVE  Inv'
  BY <1>9 DEF Refuse, Inv, TypeOK, TablesSolvent
<1> QED
  BY <1>1, <1>2, <1>3, <1>4, <1>5, <1>6, <1>7, <1>8, <1>9 DEF Next

\* For any number of concurrent handlers: the tables never show a negative
\* balance, a short position or a stray row.
THEOREM LedgerSolvent == Spec => [](TypeOK /\ TablesSolvent)
<1>1. Init => Inv
  BY DEF Init, Inv, TypeOK, TablesSolvent, Solvent, Held, EmptyBook, NotHeld, Book, Position
<1>2. Inv /\ [Next]_vars => Inv'
  BY NextKeepsInv
<1> QED
  BY <1>1, <1>2, PTL DEF Spec, Inv

(***************************************************************************)
(* The tables and the rows.                                                *)
(***************************************************************************)
StoredRows == {Stored(tx, funded) : tx \in Rows({}), funded \in BOOLEAN}

Agreement ==
    /\ transactions \in Seq(StoredRows)
    /\ LedgerReplays
    /\ OneCurrencyPerPosition

\* What is stored of a row keeps its side, account and amounts.
LEMMA StoredRowIs ==
    ASSUME NEW tx \in Rows({}), NEW funded \in BOOLEAN
    PROVE  /\ Stored(tx, funded) \in StoredRows
           /\ Stored(tx, funded).ticker = tx.ticker
           /\ Stored(tx, funded).side = tx.side
           /\ Stored(tx, funded).currency = tx.currency
  BY DEF Stored, StoredRows

\* A row leaves the other positions as they are, and a trade leaves its position in its currency.
LEMMA BookedPosition ==
    ASSUME NEW tx \in Rows({}), NEW funded \in BOOLEAN, NEW b \in Book, NEW t \in Tickers,
           tx.ticker = t => tx.side \in TradeSides
    PROVE  /\ tx.ticker # t => Booked(b, tx, funded).portfolio[t] = b.portfolio[t]
           /\ tx.ticker = t /\ Held(Booked(b, tx, funded), t) =>
                 Booked(b, tx, funded).portfolio[t].currency = tx.currency
<1>1. Booked(b, tx, funded).portfolio = WithPosition(b, tx) /\ b.portfolio \in [Tickers -> Position]
  BY DEF Booked, Book
<1>2. CASE IsCash(tx)
  BY <1>1, <1>2 DEF WithPosition, IsCash, CashSides, TradeSides
<1>3. CASE ~IsCash(tx)
  <2> DEFINE p == PositionAfter(b.portfolio[tx.ticker], tx)
  <2>1. Booked(b, tx, funded).portfolio = [b.portfolio EXCEPT ![tx.ticker] = p]
    BY <1>1, <1>3 DEF WithPosition
  <2>2. p.shares > 0 => p.currency = tx.currency
    BY DEF PositionAfter, NotHeld
  <2> HIDE DEF p
  <2> QED BY <1>1, <2>1, <2>2 DEF Held
<1> QED BY <1>2, <1>3

\* Recording appends a row the tables agree with.  A position that stays open through it keeps its
\* currency, because the rules look at the position again inside the transaction.
LEMMA RecordKeepsAgreement ==
    ASSUME Inv, Agreement, NEW r \in Requests, Record(r)
    PROVE  Agreement'
<1> DEFINE tx == request[r].tx
           funded == request[r].funded
           row == Stored(tx, funded)
           n == Len(transactions)
<1>1. tx \in Rows({}) /\ funded \in BOOLEAN /\ book \in Book
  BY DEF Inv, TypeOK, Record, Pending, Decisions
<1>2. /\ Accepts(book, tx, funded)
      /\ book' = Booked(book, tx, funded)
      /\ transactions' = Append(transactions, row)
  BY DEF Record
<1>3. row \in StoredRows /\ row.ticker = tx.ticker /\ row.side = tx.side /\ row.currency = tx.currency
  BY <1>1, StoredRowIs
<1>4. book' = Replayed(book, row)
  BY <1>2, BookedIsReplayed
<1> HIDE DEF tx, funded, row
<1>5. transactions' \in Seq(StoredRows) /\ n \in Nat /\ Len(transactions') = n + 1
  BY <1>2, <1>3 DEF Agreement
<1>6. LedgerReplays'
  BY <1>2, <1>3, <1>4, ReplayOfAppend DEF Agreement, LedgerReplays
<1>7. /\ \A i \in 1..n : transactions'[i] = transactions[i]
      /\ transactions'[n + 1] = row
      /\ DOMAIN transactions = 1..n /\ DOMAIN transactions' = 1..(n + 1)
  BY <1>2, <1>3 DEF Agreement
<1> DEFINE Opened(rows, t, k) == Held(Replay(SubSeq(rows, 1, k)), t)
<1>8. ASSUME NEW t \in Tickers
      PROVE  /\ \A k \in 1..n : Opened(transactions', t, k) <=> Opened(transactions, t, k)
             /\ Opened(transactions, t, n) <=> Held(book, t)
             /\ Opened(transactions', t, n + 1) <=> Held(book', t)
  <2>1. /\ SubSeq(transactions, 1, n) = transactions
        /\ \A k \in 1..n : SubSeq(transactions', 1, k) = SubSeq(transactions, 1, k)
    BY <1>2, <1>3, ReplayOfBeginning DEF Agreement
  <2>2. SubSeq(transactions', 1, n + 1) = transactions'
    BY <1>5
  <2>3. Replay(transactions) = book /\ Replay(transactions') = book'
    BY <1>6 DEF LedgerReplays, Agreement
  <2> QED BY <2>1, <2>2, <2>3
<1>9. OneCurrencyPerPosition'
  <2> SUFFICES ASSUME NEW t \in Tickers, NEW i \in 1..(n + 1),
                      transactions'[i].ticker = t, Since(t, i)',
                      \A k \in i..(n + 1) : Opened(transactions', t, k)
               PROVE  transactions'[i].currency = book'.portfolio[t].currency
    BY <1>5, <1>7 DEF OneCurrencyPerPosition, OpenedAt
  <2>1. \A j \in i..(n + 1) : transactions'[j].ticker = t => transactions'[j].side \in TradeSides
    BY <1>5 DEF Since
  <2>2. tx.ticker = t => tx.side \in TradeSides
    BY <1>3, <1>5, <1>7, <2>1
  <2> HIDE DEF Opened
  <2>3. Held(book', t)
    BY <1>5, <1>8
  <2>4. tx.ticker = t => book'.portfolio[t].currency = tx.currency
    BY <1>1, <1>2, <2>2, <2>3, BookedPosition
  <2>5. CASE i = n + 1
    BY <1>3, <1>7, <2>4, <2>5
  <2>6. CASE i \in 1..n
    <3>1. Since(t, i)
      BY <1>5, <1>7, <2>1, <2>6 DEF Since
    <3>2. \A k \in i..n : OpenedAt(t, k) /\ Opened(transactions, t, k)
      BY <1>5, <1>8, <2>6 DEF OpenedAt, Opened
    <3>3. transactions[i].currency = book.portfolio[t].currency /\ transactions'[i] = transactions[i]
      BY <1>7, <2>6, <3>1, <3>2 DEF Agreement, OneCurrencyPerPosition
    <3>4. Held(book, t)
      BY <1>5, <1>8, <2>6, <3>2
    <3>5. CASE tx.ticker = t
      BY <1>2, <2>2, <2>4, <3>3, <3>4, <3>5 DEF Accepts, SameCurrency
    <3>6. CASE tx.ticker # t
      BY <1>1, <1>2, <2>2, <3>3, <3>6, BookedPosition
    <3> QED BY <3>5, <3>6
  <2> QED BY <1>5, <2>5, <2>6
<1> QED BY <1>5, <1>6, <1>9 DEF Agreement

\* Deciding and refusing leave tables and rows alone.
LEMMA OthersKeepAgreement ==
    ASSUME Agreement, UNCHANGED <<book, transactions>>
    PROVE  Agreement'
  BY DEF Agreement, LedgerReplays, OneCurrencyPerPosition, Since, OpenedAt

\* Every step but a record leaves the ledger and the tables alone.
LEMMA OnlyRecordWrites ==
    ASSUME [Next]_vars
    PROVE  UNCHANGED <<book, transactions>> \/ \E r \in Requests : Record(r)
  BY DEF Next, vars, AddHolding, EditHolding, SellHolding, DeleteHolding, MoveCash, SetCash, Decide, Refuse

\* For any number of concurrent handlers: the tables are the replay of the rows, and no position mixes
\* two currencies although every handler decides on a currency before it writes.
THEOREM LedgerBooksAgree == Spec => []BooksAgree
<1>1. Init => Agreement
  BY ReplayOfNone DEF Init, Agreement, LedgerReplays, OneCurrencyPerPosition
<1>2. Inv /\ Agreement /\ [Next]_vars => Agreement'
  BY OnlyRecordWrites, RecordKeepsAgreement, OthersKeepAgreement
<1>3. Inv /\ Agreement => BooksAgree
  BY DEF Inv, Agreement, BooksAgree
<1>4. Spec => []Inv
  BY LedgerSolvent DEF Inv
<1> QED BY <1>1, <1>2, <1>3, <1>4, PTL DEF Spec
=============================================================================
