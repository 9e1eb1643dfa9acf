----------------------------- MODULE BotProofs -----------------------------
(***************************************************************************)
(* Proofs about the demo bots: no account goes short or overdrawn, what    *)
(* the engine read of a running bot stays what the tables say, a stopped   *)
(* bot keeps no cash; and no step makes or loses money, changes a stopped  *)
(* bot or buys back what was sold that day.                                *)
(***************************************************************************)
EXTENDS BotEngine, LedgerRulesProofs, FiniteSetTheorems

Statuses == {"none", "active", "paused", "stopped"}

(***************************************************************************)
(* What the database calls do to the tables.                               *)
(***************************************************************************)
\* A transfer of no more than the payer has: the two balances move, no
\* position and no other account does.
LEMMA TransferMovesCash ==
    ASSUME NEW bs \in [Accounts -> Book], \A a \in Accounts : Solvent(bs[a]),
           NEW from \in Accounts, NEW to \in Accounts, from # to,
           NEW amount \in Nat, amount <= bs[from].cash[Currency]
    PROVE  LET after == Transferred(bs, from, to, amount)
           IN  /\ after \in [Accounts -> Book]
               /\ \A a \in Accounts : Solvent(after[a]) /\ after[a].portfolio = bs[a].portfolio
               /\ after[from].cash[Currency] = bs[from].cash[Currency] - amount
               /\ after[to].cash[Currency] = bs[to].cash[Currency] + amount
               /\ \A a \in Accounts \ {from, to} : after[a] = bs[a]
<1> DEFINE out == CashRow("WITHDRAW", amount, Currency)
           in == CashRow("DEPOSIT", amount, Currency)
           moved(b, d) == [cash |-> [b.cash EXCEPT ![Currency] = @ + d], portfolio |-> b.portfolio]
<1>1. Currency \in Currencies /\ amount \in Int
  BY BotAssumption
<1>2. \A b : Booked(b, out, TRUE) = moved(b, -amount) /\ Booked(b, in, TRUE) = moved(b, amount)
  BY DEF Booked, WithPosition, CashDelta, CashRow, IsCash, CashSides
<1>3. ASSUME NEW b \in Book, Solvent(b), NEW d \in Int, b.cash[Currency] + d >= 0
      PROVE  /\ moved(b, d) \in Book /\ Solvent(moved(b, d))
             /\ moved(b, d).portfolio = b.portfolio
             /\ moved(b, d).cash[Currency] = b.cash[Currency] + d
  BY <1>1, <1>3 DEF Book, Solvent, Held
<1>4. Transferred(bs, from, to, amount)
         = [bs EXCEPT ![from] = moved(bs[from], -amount), ![to] = moved(bs[to], amount)]
  BY <1>2 DEF Transferred
<1>5. bs[from].cash[Currency] + (-amount) >= 0 /\ bs[to].cash[Currency] + amount >= 0
      /\ bs[from].cash[Currency] \in Int
  BY <1>1 DEF Book, Solvent
<1> HIDE DEF out, in, moved
<1>6. /\ moved(bs[from], -amount) \in Book /\ Solvent(moved(bs[from], -amount))
      /\ moved(bs[from], -amount).portfolio = bs[from].portfolio
      /\ moved(bs[from], -amount).cash[Currency] = bs[from].cash[Currency] + (-amount)
  BY <1>1, <1>3, <1>5
<1>7. /\ moved(bs[to], amount) \in Book /\ Solvent(moved(bs[to], amount))
      /\ moved(bs[to], amount).portfolio = bs[to].portfolio
      /\ moved(bs[to], amount).cash[Currency] = bs[to].cash[Currency] + amount
  BY <1>1, <1>3, <1>5
<1> QED BY <1>1, <1>4, <1>5, <1>6, <1>7

\* A trade of the engine, as it is booked.
LEMMA TradeIsRow ==
    ASSUME NEW side \in TradeSides, NEW t \in Tickers, NEW qty \in Nat \ {0}, NEW price \in Prices
    PROVE  Trade(side, t, qty, price) \in Rows({})
  BY BotAssumption DEF Trade, TradeRow, Rows, IsCash, Sides, TradeSides, CashSides

\* Selling what is held leaves nothing of it and adds its price; nothing else moves.
LEMMA SellAll ==
    ASSUME NEW b \in Book, Solvent(b), NEW t \in Tickers, Held(b, t), NEW price \in Prices
    PROVE  LET row == Trade("SELL", t, b.portfolio[t].shares, price)
           IN  /\ Booked(b, row, TRUE).portfolio = [b.portfolio EXCEPT ![t] = NotHeld]
               /\ Booked(b, row, TRUE).cash[Currency] = b.cash[Currency] + CashDelta(row, TRUE)
<1> DEFINE row == Trade("SELL", t, b.portfolio[t].shares, price)
<1>1. b.portfolio[t].shares \in Nat /\ b.portfolio[t].shares - b.portfolio[t].shares = 0
  BY DEF Book, Position, Solvent
<1>2. PositionAfter(b.portfolio[t], row) = NotHeld
  BY <1>1 DEF PositionAfter, SharesAfter, Trade, TradeRow
<1> QED BY <1>2, BotAssumption DEF Booked, WithPosition, Trade, TradeRow, IsCash, CashSides, Book

\* Buying what is not held.
WithBought(portfolio, t, qty) == [portfolio EXCEPT ![t] = [shares |-> qty, currency |-> Currency]]

\* A purchase of a symbol not held opens a position in the account's currency.
LEMMA BuyNew ==
    ASSUME NEW b \in Book, Solvent(b), NEW t \in Tickers, ~Held(b, t),
           NEW qty \in Nat \ {0}, NEW price \in Prices
    PROVE  LET row == Trade("BUY", t, qty, price)
           IN  /\ Booked(b, row, TRUE).portfolio = WithBought(b.portfolio, t, qty)
               /\ Booked(b, row, TRUE).cash[Currency] = b.cash[Currency] + CashDelta(row, TRUE)
<1> DEFINE row == Trade("BUY", t, qty, price)
<1>1. b.portfolio[t].shares = 0
  BY DEF Book, Position, Solvent, Held
<1>2. PositionAfter(b.portfolio[t], row) = [shares |-> qty, currency |-> Currency]
  BY <1>1 DEF PositionAfter, SharesAfter, Trade, TradeRow
<1> QED BY <1>2, BotAssumption
        DEF WithBought, Booked, WithPosition, Trade, TradeRow, IsCash, CashSides, Book

\* A sequence of rows, each accepted on the tables the last one left.
LEMMA RowsKeepSolvent ==
    ASSUME NEW b \in Book, Solvent(b), NEW rows, Len(rows) \in Nat, DOMAIN rows = 1..Len(rows),
           \A i \in DOMAIN rows : \E tx \in Rows({}) : rows[i] = Stored(tx, TRUE),
           StopAccepted(AfterEach(b, rows), rows)
    PROVE  \A n \in 0..Len(rows) : AfterEach(b, rows)[n] \in Book /\ Solvent(AfterEach(b, rows)[n])
<1> DEFINE f == AfterEach(b, rows)
           S == {n \in Nat : n <= Len(rows) => f[n] \in Book /\ Solvent(f[n])}
<1>1. After(f, b, rows, Len(rows)) /\ StopAccepted(f, rows)
  BY AfterEachIsAfter
<1> HIDE DEF f
<1>2. 0 \in S
  BY <1>1 DEF After
<1>3. ASSUME NEW n \in S
      PROVE  n + 1 \in S
  <2> SUFFICES ASSUME n + 1 <= Len(rows) PROVE f[n + 1] \in Book /\ Solvent(f[n + 1])
    OBVIOUS
  <2>1. n + 1 \in 1..Len(rows) /\ n + 1 \in 0..Len(rows) /\ n + 1 # 0 /\ (n + 1) - 1 = n
    OBVIOUS
  <2>2. PICK tx \in Rows({}) : rows[n + 1] = Stored(tx, TRUE)
    BY <2>1
  <2>3. Accepts(f[n], tx, TRUE)
    <3>1. Accepts(f[n], Stored(tx, TRUE), TRUE)
      BY <1>1, <2>1, <2>2 DEF StopAccepted
    <3> QED BY <3>1 DEF Accepts, SameCurrency, NoShortSale, NoOverdraft, CashDelta, Gross, IsCash, Stored
  <2>4. f[n + 1] = Booked(f[n], tx, TRUE)
    <3>1. f[n + 1] = Replayed(f[n], rows[n + 1])
      BY <1>1, <2>1 DEF After
    <3> QED BY <2>2, <3>1, BookedIsReplayed
  <2>5. f[n] \in Book /\ Solvent(f[n])
    OBVIOUS
  <2>6. Booked(f[n], tx, TRUE) \in Book /\ Solvent(Booked(f[n], tx, TRUE))
    BY <2>3, <2>5, BookedKeepsSolvent
  <2> QED BY <2>4, <2>6
<1> HIDE DEF S
<1>4. S = Nat
  BY <1>2, <1>3, Induction DEF S
<1> QED BY <1>4 DEF S, f

\* Sales leave no symbol with more shares, and the one last sold with fewer.
LEMMA SalesReduce ==
    ASSUME NEW b \in Book, Solvent(b), NEW rows, Len(rows) \in Nat, DOMAIN rows = 1..Len(rows),
           \A i \in DOMAIN rows : \E tx \in Rows({}) : rows[i] = Stored(tx, TRUE),
           \A i \in DOMAIN rows : rows[i].side = "SELL",
           StopAccepted(AfterEach(b, rows), rows)
    PROVE  \A n \in 0..Len(rows) :
              LET after == AfterEach(b, rows)[n].portfolio
              IN  /\ \A t \in Tickers : after[t].shares <= b.portfolio[t].shares
                  /\ n > 0 => /\ rows[n].ticker \in Tickers
                              /\ after[rows[n].ticker].shares < b.portfolio[rows[n].ticker].shares
<1> DEFINE f == AfterEach(b, rows)
           Less(n) == /\ \A t \in Tickers : f[n].portfolio[t].shares <= b.portfolio[t].shares
                      /\ n > 0 => /\ rows[n].ticker \in Tickers
                                  /\ f[n].portfolio[rows[n].ticker].shares
                                       < b.portfolio[rows[n].ticker].shares
           S == {n \in Nat : n <= Len(rows) => Less(n)}
<1>1. After(f, b, rows, Len(rows)) /\ \A n \in 0..Len(rows) : f[n] \in Book
  BY AfterEachIsAfter, RowsKeepSolvent
<1> HIDE DEF f
<1>2. 0 \in S
  <2>1. f[0] = b
    BY <1>1 DEF After
  <2>2. \A t \in Tickers : b.portfolio[t].shares \in Int
    BY DEF Book, Position
  <2>3. \A t \in Tickers : b.portfolio[t].shares <= b.portfolio[t].shares
    BY <2>2
  <2>4. Less(0)
    BY <2>1, <2>3
  <2> QED BY <2>4
<1>3. ASSUME NEW n \in S
      PROVE  n + 1 \in S
  <2> SUFFICES ASSUME n + 1 <= Len(rows) PROVE Less(n + 1)
    OBVIOUS
  <2>1. /\ n + 1 \in 1..Len(rows) /\ n + 1 \in 0..Len(rows) /\ n \in 0..Len(rows)
        /\ n + 1 # 0 /\ (n + 1) - 1 = n
    OBVIOUS
  <2>2. PICK tx \in Rows({}) : rows[n + 1] = Stored(tx, TRUE)
    BY <2>1
  <2>3. /\ tx.side = "SELL" /\ tx.qty \in Nat \ {0} /\ tx.ticker \in Tickers
        /\ rows[n + 1].ticker = tx.ticker
    <3>1. rows[n + 1].side = "SELL"
      BY <2>1
    <3> QED BY <2>2, <3>1 DEF Stored, Rows, IsCash, CashSides
  <2>4. f[n + 1] = Booked(f[n], tx, TRUE)
    <3>1. f[n + 1] = Replayed(f[n], rows[n + 1])
      BY <1>1, <2>1 DEF After
    <3> QED BY <2>2, <3>1, BookedIsReplayed
  <2> DEFINE left == PositionAfter(f[n].portfolio[tx.ticker], tx)
  <2>5. f[n + 1].portfolio = [f[n].portfolio EXCEPT ![tx.ticker] = left]
    BY <2>3, <2>4 DEF Booked, WithPosition, IsCash, CashSides
  <2>6. f[n].portfolio \in [Tickers -> Position] /\ f[n].portfolio[tx.ticker].shares \in Int
    BY <1>1, <2>1, <2>3 DEF Book, Position
  <2>7. StopAccepted(f, rows)
    BY DEF f
  <2>8. tx.qty <= f[n].portfolio[tx.ticker].shares
    <3>1. Accepts(f[n], Stored(tx, TRUE), TRUE)
      BY <2>1, <2>2, <2>7 DEF StopAccepted
    <3> QED BY <2>3, <3>1 DEF Accepts, NoShortSale, Stored
  <2>9. left.shares \in Int /\ left.shares < f[n].portfolio[tx.ticker].shares
    BY <2>3, <2>6, <2>8 DEF PositionAfter, SharesAfter, NotHeld
  <2> HIDE DEF left
  <2>10. \A t \in Tickers : f[n].portfolio[t].shares <= b.portfolio[t].shares
    OBVIOUS
  <2>11. \A t \in Tickers : f[n].portfolio[t].shares \in Int /\ b.portfolio[t].shares \in Int
    BY <2>6 DEF Book, Position
  <2> QED BY <2>3, <2>5, <2>6, <2>9, <2>10, <2>11
<1> HIDE DEF S
<1>4. S = Nat
  BY <1>2, <1>3, Induction DEF S
<1> QED BY <1>4 DEF S, f

\* The order in which a finite set is listed.
LEMMA ListsASet ==
    ASSUME NEW S, IsFiniteSet(S)
    PROVE  /\ SetToSeq(S) \in [1..Cardinality(S) -> S]
           /\ Cardinality(S) \in Nat
           /\ Len(SetToSeq(S)) = Cardinality(S)
           /\ S # {} => Cardinality(S) # 0
<1>1. Cardinality(S) \in Nat /\ \E f \in [1..Cardinality(S) -> S] : IsInjective(f)
  BY FS_CardinalityType DEF ExistsBijection, Bijection, Injection, IsInjective
<1>2. SetToSeq(S) \in [1..Cardinality(S) -> S]
  BY <1>1 DEF SetToSeq
<1>3. SetToSeq(S) \in Seq(S) /\ DOMAIN SetToSeq(S) = 1..Cardinality(S)
  BY <1>1, <1>2
<1>4. Len(SetToSeq(S)) = Cardinality(S)
  BY <1>1, <1>3
<1> QED BY <1>1, <1>2, <1>4, FS_EmptySet

(***************************************************************************)
(* The inductive invariant.  What a bot's saved state, the engine's list   *)
(* and the engine's run say of its positions is what it holds, as long as  *)
(* it is not stopped; a thread only ever works on a bot that was created.  *)
(***************************************************************************)
Alive(b) == bots[b] # "stopped"

InStep ==
    /\ \A b \in Bots : IsFiniteSet(HeldIn(b)) /\ (Alive(b) => plan[b].pos = HeldIn(b))
    /\ engine # None => \A b \in DOMAIN engine.todo :
         bots[b] # "none" /\ (Alive(b) => engine.todo[b].pos = HeldIn(b))
    /\ view # None => /\ bots[view.bot] # "none"
                      /\ view.bot \notin DOMAIN engine.todo
                      /\ Alive(view.bot) => view.state.pos = HeldIn(view.bot)
    /\ \A r \in Requests : request[r] # None =>
         bots[request[r].bot] # "none" /\ IsFiniteSet(DOMAIN request[r].fills)

BotInv == EngineAgrees /\ StoppedBotHasNoCash /\ InStep

\* What changes when a live bot's tables do not.
SameHoldings(b) == books'[b].portfolio = books[b].portfolio

\* A trade of one symbol leaves what the account holds of the others.
LEMMA HoldingsFollow ==
    ASSUME NEW b, SameHoldings(b)
    PROVE  HeldIn(b)' = HeldIn(b)
  BY DEF SameHoldings, HeldIn, Held

\* What the engine read stays current while its bot's tables do not change.
LEMMA ViewFollows ==
    ASSUME EngineViewIsCurrent, UNCHANGED view,
           view # None => \/ bots'[view.bot] = "stopped"
                          \/ books'[view.bot] = books[view.bot] /\ bots[view.bot] # "stopped"
    PROVE  EngineViewIsCurrent'
<1> SUFFICES ASSUME view # None, books'[view.bot] = books[view.bot], bots[view.bot] # "stopped"
             PROVE  /\ view.cash = Cash(view.bot)'
                    /\ view.shares = [t \in HeldIn(view.bot)' |-> books'[view.bot].portfolio[t].shares]
  BY DEF EngineViewIsCurrent
<1>1. HeldIn(view.bot)' = HeldIn(view.bot)
  BY HoldingsFollow DEF SameHoldings
<1> QED BY <1>1 DEF EngineViewIsCurrent, Cash

(***************************************************************************)
(* The requests.                                                           *)
(***************************************************************************)
LEMMA CreateKeepsInv ==
    ASSUME BotInv, Create
    PROVE  BotInv'
<1> USE DEF BotInv, EngineAgrees
<1>1. PICK b \in Bots :
        /\ bots[b] = "none"
        /\ Accepts(books[Manual], CashRow("WITHDRAW", Allocation, Currency), TRUE)
        /\ bots' = [bots EXCEPT ![b] = "active"]
        /\ books' = Transferred(books, Manual, b, Allocation)
  BY DEF Create
<1>2. UNCHANGED <<plan, engine, view, sold, request, day>>
  BY DEF Create
<1>3. Allocation \in Nat /\ Allocation <= books[Manual].cash[Currency]
  <2>1. books[Manual].cash[Currency] \in Int
    BY BotAssumption DEF TypeOK, Accounts, Book
  <2> QED BY <1>1, <2>1, BotAssumption DEF Accepts, NoOverdraft, CashDelta, CashRow, IsCash, CashSides
<1>4. /\ books' \in [Accounts -> Book]
      /\ \A a \in Accounts : Solvent(books'[a]) /\ SameHoldings(a)
      /\ \A a \in Bots \ {b} : books'[a] = books[a]
  <2>1. Manual \in Accounts /\ b \in Accounts /\ Manual # b /\ Bots \subseteq Accounts
    BY BotAssumption DEF Accounts
  <2>2. books \in [Accounts -> Book] /\ \A a \in Accounts : Solvent(books[a])
    BY DEF TypeOK, AccountsSolvent
  <2>3. /\ books' \in [Accounts -> Book]
        /\ \A a \in Accounts : Solvent(books'[a]) /\ books'[a].portfolio = books[a].portfolio
        /\ \A a \in Accounts \ {Manual, b} : books'[a] = books[a]
    BY <1>1, <1>3, <2>1, <2>2, TransferMovesCash
  <2> QED BY <2>1, <2>3, BotAssumption DEF SameHoldings
<1>5. \A x \in Bots : HeldIn(x)' = HeldIn(x)
  BY <1>4, HoldingsFollow DEF Accounts
<1>6. /\ bots' \in [Bots -> Statuses] /\ bots'[b] = "active"
      /\ \A x \in Bots \ {b} : bots'[x] = bots[x]
  BY <1>1 DEF TypeOK, Statuses
<1>7. TypeOK'
  BY <1>2, <1>4, <1>6 DEF TypeOK, Statuses, ArePositions
<1>8. AccountsSolvent' /\ AtMostMaxPositions'
  BY <1>4, <1>5 DEF AccountsSolvent, AtMostMaxPositions
<1>9. StoppedBotHasNoCash'
  BY <1>4, <1>6 DEF StoppedBotHasNoCash, Cash
<1>10. InStep' /\ PlanMatchesPositions'
  BY <1>1, <1>2, <1>5, <1>6 DEF InStep, PlanMatchesPositions, Alive, TypeOK
<1>11. EngineViewIsCurrent'
  <2>1. view # None => view.bot \in Bots \ {b}
    BY <1>1 DEF TypeOK, InStep
  <2> QED BY <1>2, <1>4, <1>6, <2>1, ViewFollows
<1> QED BY <1>7, <1>8, <1>9, <1>10, <1>11

\* The status alone moves, of a bot that exists and does not stop.
LEMMA PauseKeepsInv ==
    ASSUME BotInv, Pause \/ Resume
    PROVE  BotInv'
<1> USE DEF BotInv, EngineAgrees
<1>1. PICK b \in Bots, status \in {"active", "paused"} :
        bots[b] \in {"active", "paused"} /\ bots' = [bots EXCEPT ![b] = status]
  BY DEF Pause, Resume
<1>2. UNCHANGED <<books, plan, engine, view, sold, request, day>>
  BY DEF Pause, Resume
<1>3. /\ bots' \in [Bots -> Statuses]
      /\ \A x \in Bots : bots'[x] = "none" <=> bots[x] = "none"
      /\ \A x \in Bots : bots'[x] = "stopped" <=> bots[x] = "stopped"
  BY <1>1 DEF TypeOK, Statuses
<1>4. TypeOK'
  BY <1>2, <1>3 DEF TypeOK, Statuses, ArePositions
<1>5. /\ \A x \in Bots : HeldIn(x)' = HeldIn(x)
      /\ AccountsSolvent' /\ AtMostMaxPositions' /\ StoppedBotHasNoCash'
  BY <1>2, <1>3 DEF AccountsSolvent, AtMostMaxPositions, StoppedBotHasNoCash, Cash, HeldIn, Held
<1>6. InStep'
  BY <1>2, <1>3, <1>5 DEF InStep, Alive, TypeOK
<1>7. PlanMatchesPositions'
  BY <1>4, <1>6 DEF InStep, Alive, PlanMatchesPositions
<1>8. EngineViewIsCurrent'
  <2>1. view # None => view.bot \in Bots
    BY DEF TypeOK
  <2> QED BY <1>2, <1>3, <2>1, ViewFollows
<1> QED BY <1>4, <1>5, <1>6, <1>7, <1>8

\* Reading the positions to close writes nothing.
LEMMA StopReadKeepsInv ==
    ASSUME BotInv, NEW r \in Requests, StopRead(r)
    PROVE  BotInv'
<1> USE DEF BotInv, EngineAgrees
<1>1. PICK b \in Bots :
        /\ bots[b] # "none"
        /\ request' = [request EXCEPT ![r] =
              [bot |-> b, fills |-> [t \in HeldIn(b) |-> books[b].portfolio[t].shares]]]
  BY DEF StopRead
<1>2. UNCHANGED <<books, bots, plan, engine, view, sold, day>>
  BY DEF StopRead
<1> DEFINE fills == [t \in HeldIn(b) |-> books[b].portfolio[t].shares]
<1>3. ArePositions(fills) /\ DOMAIN fills = HeldIn(b)
  <2>1. \A t \in HeldIn(b) : books[b].portfolio[t].shares \in Nat \ {0}
    BY DEF HeldIn, Held, TypeOK, Accounts, Book, Position
  <2>2. HeldIn(b) \subseteq Tickers
    BY DEF HeldIn
  <2> QED BY <2>1, <2>2 DEF ArePositions
<1> HIDE DEF fills
<1>4. /\ request'[r] = [bot |-> b, fills |-> fills]
      /\ request' = [x \in Requests |-> request'[x]]
      /\ \A x \in Requests \ {r} : request'[x] = request[x]
  BY <1>1 DEF TypeOK, fills
<1>5. TypeOK'
  BY <1>2, <1>3, <1>4 DEF TypeOK, ArePositions
<1>6. \A x : HeldIn(x)' = HeldIn(x)
  BY <1>2 DEF HeldIn, Held
<1>7. InStep'
  BY <1>1, <1>2, <1>3, <1>4, <1>6 DEF InStep, Alive
<1>8. AccountsSolvent' /\ EngineViewIsCurrent' /\ PlanMatchesPositions' /\ AtMostMaxPositions'
      /\ StoppedBotHasNoCash'
  BY <1>2, <1>6 DEF AccountsSolvent, EngineViewIsCurrent, PlanMatchesPositions, AtMostMaxPositions,
                   StoppedBotHasNoCash, Cash
<1> QED BY <1>5, <1>7, <1>8

\* A request that gives up.
LEMMA StopEndsKeepInv ==
    ASSUME BotInv, NEW r \in Requests, StopFails(r) \/ StopRefused(r)
    PROVE  BotInv'
<1> USE DEF BotInv, EngineAgrees
<1>1. /\ request' = [request EXCEPT ![r] = None]
      /\ UNCHANGED <<books, bots, plan, engine, view, sold, day>>
  BY DEF StopFails, StopRefused
<1>2. /\ request' = [x \in Requests |-> request'[x]]
      /\ \A x \in Requests : request'[x] # None => request'[x] = request[x]
  BY <1>1 DEF TypeOK
<1>3. \A x : HeldIn(x)' = HeldIn(x)
  BY <1>1 DEF HeldIn, Held
<1>4. TypeOK' /\ InStep'
  BY <1>1, <1>2, <1>3 DEF TypeOK, ArePositions, InStep, Alive
<1> QED BY <1>1, <1>3, <1>4 DEF AccountsSolvent, EngineViewIsCurrent, PlanMatchesPositions,
                              AtMostMaxPositions, StoppedBotHasNoCash, Cash

\* The rows of a stop are well-formed sales of what the request read.
LEMMA ClosingRows ==
    ASSUME NEW fills, ArePositions(fills), IsFiniteSet(DOMAIN fills),
           NEW prices \in [DOMAIN fills -> Prices]
    PROVE  LET rows == Closing(fills, prices)
           IN  /\ Len(rows) \in Nat /\ DOMAIN rows = 1..Len(rows)
               /\ \A i \in DOMAIN rows : \E tx \in Rows({}) : rows[i] = Stored(tx, TRUE)
               /\ \A i \in DOMAIN rows : rows[i].side = "SELL"
<1> DEFINE ts == SetToSeq(DOMAIN fills)
           n == Cardinality(DOMAIN fills)
           sale(i) == Trade("SELL", ts[i], fills[ts[i]], prices[ts[i]])
           rows == Closing(fills, prices)
<1>1. ts \in [1..n -> DOMAIN fills] /\ n \in Nat /\ Len(ts) = n
  BY ListsASet
<1>2. rows = [i \in 1..n |-> Stored(sale(i), TRUE)]
  BY <1>1 DEF Closing
<1>3. ASSUME NEW i \in 1..n
      PROVE  sale(i) \in Rows({}) /\ Stored(sale(i), TRUE).side = "SELL"
  <2>1. ts[i] \in DOMAIN fills
    BY <1>1
  <2>2. ts[i] \in Tickers /\ fills[ts[i]] \in Nat \ {0} /\ prices[ts[i]] \in Prices
    BY <2>1 DEF ArePositions
  <2>3. sale(i) \in Rows({})
    BY <2>2, TradeIsRow DEF TradeSides
  <2> QED BY <2>3 DEF Stored, Trade, TradeRow
<1> HIDE DEF n, ts, rows, sale
<1>4. DOMAIN rows = 1..n /\ Len(rows) = n
  <2> DEFINE T == {Stored(sale(i), TRUE) : i \in 1..n}
  <2>1. \A i \in 1..n : Stored(sale(i), TRUE) \in T
    OBVIOUS
  <2> HIDE DEF T
  <2>2. rows \in [1..n -> T]
    BY <1>2, <2>1
  <2>3. rows \in Seq(T) /\ DOMAIN rows = 1..n
    BY <1>1, <2>2
  <2> QED BY <1>1, <2>3
<1>5. \A i \in 1..n : rows[i] = Stored(sale(i), TRUE)
  BY <1>2
<1> QED BY <1>1, <1>3, <1>4, <1>5 DEF rows

\* db.stop_bot: the sales leave tables of no more positions than the bot had,
\* and of fewer unless nothing was sold; all the cash in them is handed back.
ClosesFrom(b, closed) ==
    /\ closed \in Book /\ Solvent(closed)
    /\ \A t \in Tickers : closed.portfolio[t].shares <= books[b].portfolio[t].shares
    /\ closed = books[b]
         \/ \E t \in Tickers : closed.portfolio[t].shares < books[b].portfolio[t].shares
    /\ books' = Transferred([books EXCEPT ![b] = closed], b, Manual, closed.cash[Currency])

\* What a stop books in turn leaves solvent tables with no more of any symbol.
LEMMA StopCloses ==
    ASSUME BotInv, NEW r \in Requests, Stop(r), NEW b, b = request[r].bot
    PROVE  /\ b \in Bots /\ bots[b] \notin {"none", "stopped"}
           /\ b \in Accounts /\ Manual \in Accounts /\ b # Manual
           /\ \E closed : ClosesFrom(b, closed)
<1> USE DEF BotInv, EngineAgrees
<1> DEFINE fills == request[r].fills
<1>1. b \in Bots /\ bots[b] \notin {"none", "stopped"} /\ ArePositions(fills) /\ IsFiniteSet(DOMAIN fills)
  BY DEF Stop, TypeOK, InStep
<1>2. b \in Accounts /\ Manual \in Accounts /\ b # Manual
  BY <1>1, BotAssumption DEF Accounts
<1>3. PICK prices \in [DOMAIN fills -> Prices] :
        LET rows == Closing(fills, prices)
            tables == AfterEach(books[b], rows)
            closed == tables[Len(rows)]
        IN  /\ StopAccepted(tables, rows)
            /\ books' = Transferred([books EXCEPT ![b] = closed], b, Manual, closed.cash[Currency])
  BY DEF Stop
<1> DEFINE rows == Closing(fills, prices)
           closed == AfterEach(books[b], rows)[Len(rows)]
<1>4. books[b] \in Book /\ Solvent(books[b])
  BY <1>2 DEF TypeOK, AccountsSolvent
<1>5. /\ Len(rows) \in Nat /\ DOMAIN rows = 1..Len(rows)
      /\ \A i \in DOMAIN rows : \E tx \in Rows({}) : rows[i] = Stored(tx, TRUE)
      /\ \A i \in DOMAIN rows : rows[i].side = "SELL"
  BY <1>1, ClosingRows
<1>6. StopAccepted(AfterEach(books[b], rows), rows)
  BY <1>3
<1>7. books' = Transferred([books EXCEPT ![b] = closed], b, Manual, closed.cash[Currency])
  BY <1>3
<1> HIDE DEF rows
<1>8. Len(rows) \in 0..Len(rows)
  BY <1>5
<1>9. closed \in Book /\ Solvent(closed)
  BY <1>4, <1>5, <1>6, <1>8, RowsKeepSolvent
<1>10. /\ \A t \in Tickers : closed.portfolio[t].shares <= books[b].portfolio[t].shares
       /\ Len(rows) > 0 => /\ rows[Len(rows)].ticker \in Tickers
                           /\ closed.portfolio[rows[Len(rows)].ticker].shares
                                < books[b].portfolio[rows[Len(rows)].ticker].shares
  BY <1>4, <1>5, <1>6, <1>8, SalesReduce
<1>11. Len(rows) = 0 => closed = books[b]
  BY AfterEachIsAfter DEF After
<1> HIDE DEF closed
<1>12. ClosesFrom(b, closed)
  <2>1. closed = books[b] \/ \E t \in Tickers : closed.portfolio[t].shares < books[b].portfolio[t].shares
    <3>1. Len(rows) = 0 \/ Len(rows) > 0
      BY <1>5
    <3>2. CASE Len(rows) = 0
      BY <1>11, <3>2
    <3>3. CASE Len(rows) > 0
      BY <1>10, <3>3
    <3> QED BY <3>1, <3>2, <3>3
  <2> QED BY <1>7, <1>9, <1>10, <2>1 DEF ClosesFrom
<1> QED BY <1>1, <1>2, <1>12

\* A stop moves the bot's account and the cash it came from, no other.
LEMMA StopMovesBooks ==
    ASSUME BotInv, NEW r \in Requests, Stop(r), NEW b, b = request[r].bot
    PROVE  /\ b \in Bots /\ bots[b] \notin {"none", "stopped"}
           /\ books' \in [Accounts -> Book]
           /\ \A a \in Accounts : Solvent(books'[a])
           /\ \A a \in Bots \ {b} : books'[a] = books[a]
           /\ HeldIn(b)' \subseteq HeldIn(b)
           /\ books'[b].cash[Currency] = 0
<1> USE DEF BotInv, EngineAgrees
<1>1. /\ b \in Bots /\ bots[b] \notin {"none", "stopped"}
      /\ b \in Accounts /\ Manual \in Accounts /\ b # Manual
      /\ Bots \subseteq Accounts
  BY StopCloses DEF Accounts
<1>2. PICK closed : ClosesFrom(b, closed)
  BY StopCloses
<1> DEFINE bs == [books EXCEPT ![b] = closed]
<1>3. closed \in Book /\ Solvent(closed) /\ books' = Transferred(bs, b, Manual, closed.cash[Currency])
  BY <1>2 DEF ClosesFrom
<1>4. /\ bs \in [Accounts -> Book] /\ bs[b] = closed
      /\ \A a \in Accounts \ {b} : bs[a] = books[a]
      /\ \A a \in Accounts : Solvent(bs[a])
  BY <1>1, <1>3 DEF TypeOK, AccountsSolvent
<1>5. closed.cash[Currency] \in Nat
  BY <1>3, BotAssumption DEF Book, Solvent
<1> HIDE DEF bs
<1>6. /\ books' \in [Accounts -> Book]
      /\ \A a \in Accounts : Solvent(books'[a]) /\ books'[a].portfolio = bs[a].portfolio
      /\ books'[b].cash[Currency] = bs[b].cash[Currency] - closed.cash[Currency]
      /\ \A a \in Accounts \ {b, Manual} : books'[a] = bs[a]
  BY <1>1, <1>3, <1>4, <1>5, TransferMovesCash
<1>7. HeldIn(b)' \subseteq HeldIn(b)
  <2>1. /\ \A t \in Tickers : books[b].portfolio[t].shares \in Int /\ closed.portfolio[t].shares \in Int
        /\ \A t \in Tickers : closed.portfolio[t].shares <= books[b].portfolio[t].shares
    <3>1. books[b] \in Book /\ closed \in Book
      BY <1>1, <1>3 DEF TypeOK
    <3>2. \A t \in Tickers : books[b].portfolio[t].shares \in Int /\ closed.portfolio[t].shares \in Int
      BY <3>1 DEF Book, Position
    <3>3. \A t \in Tickers : closed.portfolio[t].shares <= books[b].portfolio[t].shares
      BY <1>2 DEF ClosesFrom
    <3> QED BY <3>2, <3>3
  <2>2. books'[b].portfolio = closed.portfolio
    BY <1>1, <1>4, <1>6
  <2>3. \A t \in Tickers : Held(books'[b], t) => Held(books[b], t)
    <3> SUFFICES ASSUME NEW t \in Tickers, closed.portfolio[t].shares > 0
                 PROVE  books[b].portfolio[t].shares > 0
      BY <2>2 DEF Held
    <3>1. /\ books[b].portfolio[t].shares \in Int /\ closed.portfolio[t].shares \in Int
          /\ closed.portfolio[t].shares <= books[b].portfolio[t].shares
      BY <2>1
    <3> QED BY <3>1
  <2> QED BY <2>3 DEF HeldIn
<1> QED BY <1>1, <1>4, <1>5, <1>6, <1>7, BotAssumption

\* A stop empties the bot in one step of the database.
LEMMA StopKeepsInv ==
    ASSUME BotInv, NEW r \in Requests, Stop(r)
    PROVE  BotInv'
<1> USE DEF BotInv, EngineAgrees
<1> PICK b : b = request[r].bot
  OBVIOUS
<1>1. /\ b \in Bots /\ bots[b] \notin {"none", "stopped"}
      /\ books' \in [Accounts -> Book]
      /\ \A a \in Accounts : Solvent(books'[a])
      /\ \A a \in Bots \ {b} : books'[a] = books[a]
      /\ HeldIn(b)' \subseteq HeldIn(b)
      /\ books'[b].cash[Currency] = 0
  BY StopMovesBooks
<1>2. /\ bots' = [bots EXCEPT ![b] = "stopped"]
      /\ request' = [request EXCEPT ![r] = None]
      /\ UNCHANGED <<plan, engine, view, sold, day>>
  BY DEF Stop
<1>3. /\ bots' \in [Bots -> Statuses] /\ bots'[b] = "stopped"
      /\ \A x \in Bots \ {b} : bots'[x] = bots[x]
      /\ \A x \in Bots : bots'[x] = "none" => bots[x] = "none"
      /\ \A x \in Bots : bots[x] # "none" => bots'[x] # "none"
  BY <1>1, <1>2 DEF TypeOK, Statuses
<1>4. /\ request' = [x \in Requests |-> request'[x]]
      /\ \A x \in Requests : request'[x] # None => request'[x] = request[x]
  BY <1>2 DEF TypeOK
<1>5. \A x \in Bots \ {b} : HeldIn(x)' = HeldIn(x)
  BY <1>1, HoldingsFollow DEF SameHoldings
<1>6. TypeOK'
  BY <1>1, <1>2, <1>3, <1>4 DEF TypeOK, Statuses, ArePositions
<1>7. ASSUME NEW x \in Bots
      PROVE  IsFiniteSet(HeldIn(x)') /\ Cardinality(HeldIn(x)') <= MaxPositions
  <2>1. IsFiniteSet(HeldIn(x)) /\ Cardinality(HeldIn(x)) <= MaxPositions
    BY DEF InStep, AtMostMaxPositions
  <2>2. HeldIn(x)' \in SUBSET HeldIn(x)
    BY <1>1, <1>5
  <2>3. IsFiniteSet(HeldIn(x)') /\ Cardinality(HeldIn(x)') <= Cardinality(HeldIn(x))
    BY <2>1, <2>2, FS_Subset
  <2> QED BY <2>1, <2>3, FS_CardinalityType, BotAssumption
<1>8. AccountsSolvent' /\ AtMostMaxPositions'
  BY <1>1, <1>7 DEF AccountsSolvent, AtMostMaxPositions
<1>9. StoppedBotHasNoCash'
  BY <1>1, <1>3 DEF StoppedBotHasNoCash, Cash
<1>10. InStep'
  BY <1>2, <1>3, <1>4, <1>5, <1>7 DEF InStep, Alive, TypeOK
<1>11. PlanMatchesPositions'
  BY <1>2, <1>3, <1>5 DEF PlanMatchesPositions
<1>12. EngineViewIsCurrent'
  <2>1. view # None => view.bot \in Bots
    BY DEF TypeOK
  <2>2. view # None /\ bots[view.bot] = "stopped" => bots'[view.bot] = "stopped"
    BY <1>1, <1>3, <2>1
  <2> QED BY <1>1, <1>2, <1>3, <2>1, <2>2, ViewFollows
<1> QED BY <1>6, <1>8, <1>9, <1>10, <1>11, <1>12

(***************************************************************************)
(* The engine.                                                             *)
(***************************************************************************)
LEMMA BeginKeepsInv ==
    ASSUME BotInv, EngineBegin \/ EngineEnd
    PROVE  BotInv'
<1> USE DEF BotInv, EngineAgrees
<1>1. UNCHANGED <<books, bots, plan, view, sold, request, day>>
  BY DEF EngineBegin, EngineEnd
<1>2. view = None
  BY DEF EngineBegin, EngineEnd, TypeOK
<1>3. \A x : HeldIn(x)' = HeldIn(x)
  BY <1>1 DEF HeldIn, Held
<1>4. engine' # None => /\ engine' \in [today : Days, todo : {engine'.todo}]
                        /\ DOMAIN engine'.todo \subseteq Bots
                        /\ engine'.todo \in [DOMAIN engine'.todo -> Plans]
                        /\ \A b \in DOMAIN engine'.todo :
                              bots[b] = "active" /\ engine'.todo[b] = plan[b]
  BY DEF EngineBegin, EngineEnd, TypeOK, Active
<1>5. TypeOK'
  BY <1>1, <1>2, <1>4 DEF TypeOK, ArePositions
<1>6. InStep'
  BY <1>1, <1>2, <1>3, <1>4 DEF InStep, Alive, TypeOK
<1> QED BY <1>1, <1>2, <1>3, <1>5, <1>6 DEF AccountsSolvent, EngineViewIsCurrent, AtMostMaxPositions,
             PlanMatchesPositions, StoppedBotHasNoCash, Cash

\* The engine begins a pass with what the tables say.
LEMMA ReadKeepsInv ==
    ASSUME BotInv, EngineRead
    PROVE  BotInv'
<1> USE DEF BotInv, EngineAgrees
<1>1. PICK b \in DOMAIN engine.todo :
        /\ view' = [bot |-> b, phase |-> "exits", cash |-> Cash(b),
                    shares |-> [t \in HeldIn(b) |-> books[b].portfolio[t].shares],
                    state |-> [pos |-> engine.todo[b].pos \cup HeldIn(b),
                               cooldown |-> Pruned(engine.todo[b].cooldown, engine.today)]]
        /\ engine' = [engine EXCEPT !.todo = Restrict(@, DOMAIN @ \ {b})]
  BY DEF EngineRead
<1>2. UNCHANGED <<books, bots, plan, sold, request, day>>
  BY DEF EngineRead
<1>3. \A x : HeldIn(x)' = HeldIn(x)
  BY <1>2 DEF HeldIn, Held
<1>4. /\ engine # None /\ engine \in [today : Days, todo : {engine.todo}]
      /\ DOMAIN engine.todo \subseteq Bots
      /\ engine.todo \in [DOMAIN engine.todo -> Plans]
      /\ b \in Bots /\ bots[b] # "none"
  BY DEF EngineRead, TypeOK, InStep
<1> DEFINE rest == Restrict(engine.todo, DOMAIN engine.todo \ {b})
           shares == [t \in HeldIn(b) |-> books[b].portfolio[t].shares]
           state == [pos |-> engine.todo[b].pos \cup HeldIn(b),
                     cooldown |-> Pruned(engine.todo[b].cooldown, engine.today)]
<1>5. /\ DOMAIN rest = DOMAIN engine.todo \ {b}
      /\ rest \in [DOMAIN rest -> Plans]
      /\ \A x \in DOMAIN rest : rest[x] = engine.todo[x]
  BY <1>4 DEF Restrict
<1>6. ArePositions(shares)
  <2>1. \A t \in HeldIn(b) : books[b].portfolio[t].shares \in Nat \ {0}
    BY <1>4 DEF HeldIn, Held, TypeOK, Accounts, Book, Position
  <2>2. HeldIn(b) \subseteq Tickers
    BY DEF HeldIn
  <2> QED BY <2>1, <2>2 DEF ArePositions
<1>7. state \in Plans /\ (Alive(b) => state.pos = HeldIn(b))
  <2>1. engine.todo[b] \in Plans
    BY <1>4
  <2>2. Pruned(engine.todo[b].cooldown, engine.today) \in [Tickers -> 0..MaxDay]
    BY <2>1, BotAssumption DEF Pruned, Plans
  <2>3. HeldIn(b) \subseteq Tickers
    BY DEF HeldIn
  <2>4. Alive(b) => engine.todo[b].pos = HeldIn(b)
    BY <1>4 DEF InStep
  <2> QED BY <2>1, <2>2, <2>3, <2>4 DEF Plans
<1>8. Cash(b) \in Int
  BY <1>4, BotAssumption DEF Cash, TypeOK, Accounts, Book
<1> HIDE DEF rest, shares, state
<1>9. view' = [bot |-> b, phase |-> "exits", cash |-> Cash(b), shares |-> shares, state |-> state]
      /\ engine' = [today |-> engine.today, todo |-> rest]
  BY <1>1, <1>4 DEF rest, shares, state
<1>10. engine' # None
  BY <1>4, <1>5, <1>9, NoPassAssumption
<1>11. TypeOK'
  BY <1>2, <1>4, <1>5, <1>6, <1>7, <1>8, <1>9, <1>10 DEF TypeOK, ArePositions
<1>12. InStep'
  BY <1>2, <1>3, <1>4, <1>5, <1>7, <1>9 DEF InStep, Alive
<1>13. EngineViewIsCurrent'
  BY <1>2, <1>3, <1>9 DEF EngineViewIsCurrent, Cash, shares
<1> QED BY <1>2, <1>3, <1>11, <1>12, <1>13 DEF AccountsSolvent, AtMostMaxPositions,
             PlanMatchesPositions, StoppedBotHasNoCash, Cash

\* The engine turns to the entries, or another day comes.
LEMMA TurnKeepsInv ==
    ASSUME BotInv, EngineTurnsToEntries \/ NextDay
    PROVE  BotInv'
<1> USE DEF BotInv, EngineAgrees
<1>1. UNCHANGED <<books, bots, plan, engine, sold, request>>
  BY DEF EngineTurnsToEntries, NextDay
<1>2. \A x : HeldIn(x)' = HeldIn(x)
  BY <1>1 DEF HeldIn, Held
<1>3. day' \in Days
  BY BotAssumption DEF EngineTurnsToEntries, NextDay, TypeOK, Days
<1>4. /\ view' # None => view # None
      /\ view # None => /\ view.bot \in Bots
                        /\ view'.bot = view.bot /\ view'.shares = view.shares
                        /\ view'.cash = view.cash /\ view'.state = view.state
                        /\ view' \in [bot : Bots, phase : {"exits", "entries"}, cash : Int,
                                      shares : {view'.shares}, state : Plans]
  BY DEF EngineTurnsToEntries, NextDay, TypeOK
<1>5. TypeOK'
  BY <1>1, <1>3, <1>4 DEF TypeOK, ArePositions
<1>6. InStep' /\ EngineViewIsCurrent'
  BY <1>1, <1>2, <1>4 DEF InStep, Alive, EngineViewIsCurrent, Cash
<1> QED BY <1>1, <1>2, <1>5, <1>6 DEF AccountsSolvent, AtMostMaxPositions,
             PlanMatchesPositions, StoppedBotHasNoCash, Cash

\* The end of a pass writes the row of the bot, unless the bot was stopped.
LEMMA LeaveKeepsInv ==
    ASSUME BotInv, EngineLeave
    PROVE  BotInv'
<1> USE DEF BotInv, EngineAgrees
<1>1. /\ view # None /\ view' = None
      /\ UNCHANGED <<books, bots, engine, sold, request, day>>
      /\ \/ plan' = plan
         \/ bots[view.bot] = "active" /\ plan' = [plan EXCEPT ![view.bot] = view.state]
  <2>1. plan = [plan EXCEPT ![view.bot] = plan[view.bot]]
    BY DEF EngineLeave, TypeOK
  <2> QED BY <2>1 DEF EngineLeave, MayTrade
<1>2. view.bot \in Bots /\ view.state \in Plans
  BY <1>1 DEF TypeOK
<1>3. plan' \in [Bots -> Plans]
  BY <1>1, <1>2 DEF TypeOK
<1>4. \A x : HeldIn(x)' = HeldIn(x)
  BY <1>1 DEF HeldIn, Held
<1>5. \A b \in Bots : plan'[b].pos = plan[b].pos \/ (bots[b] # "stopped" /\ plan'[b].pos = HeldIn(b))
  BY <1>1, <1>2 DEF TypeOK, InStep, Alive
<1>6. TypeOK' /\ InStep'
  BY <1>1, <1>3, <1>4, <1>5 DEF TypeOK, ArePositions, InStep, Alive
<1> QED BY <1>1, <1>4, <1>5, <1>6 DEF AccountsSolvent, AtMostMaxPositions, EngineViewIsCurrent,
             PlanMatchesPositions, StoppedBotHasNoCash, Cash

\* An engine fill: the ledger's row, the bot's new state and the engine's own
\* count of cash and shares, for one bot that is still active.
EngineFills(b, row, state, shares) ==
    /\ bots[b] = "active"
    /\ Accepts(books[b], row, TRUE)
    /\ books' = [books EXCEPT ![b] = Booked(@, row, TRUE)]
    /\ plan' = [plan EXCEPT ![b] = state]
    /\ view' = [view EXCEPT !.state = state, !.cash = CashLeft(@, row), !.shares = shares]
    /\ UNCHANGED <<bots, engine, request, day>>

\* The row of a fill is a proper one, and moves the cash by what it costs or brings.
IsFill(b, row) ==
    /\ row \in Rows({})
    /\ Booked(books[b], row, TRUE).cash[Currency] = Cash(b) + CashDelta(row, TRUE)

\* Both kinds of trade keep the picture the engine has of the bot.
LEMMA FillKeepsInv ==
    ASSUME BotInv, view # None, NEW b, b = view.bot,
           NEW row, IsFill(b, row), NEW state \in Plans, NEW shares,
           EngineFills(b, row, state, shares),
           sold' \subseteq Bots \X Tickers \X Days,
           ArePositions(shares),
           shares = [t \in HeldIn(b)' |-> books'[b].portfolio[t].shares],
           state.pos = HeldIn(b)',
           IsFiniteSet(HeldIn(b)'), Cardinality(HeldIn(b)') <= MaxPositions
    PROVE  BotInv'
<1> USE DEF BotInv, EngineAgrees, IsFill
<1>1. /\ b \in Bots /\ b \in Accounts /\ Bots \subseteq Accounts /\ b \notin DOMAIN engine.todo
      /\ bots[b] = "active"
      /\ UNCHANGED <<bots, engine, request, day>>
  BY DEF TypeOK, Accounts, InStep, EngineFills
<1>2. /\ Booked(books[b], row, TRUE) \in Book /\ Solvent(Booked(books[b], row, TRUE))
  <2>1. books[b] \in Book /\ Solvent(books[b]) /\ Accepts(books[b], row, TRUE) /\ TRUE \in BOOLEAN
    BY <1>1 DEF TypeOK, AccountsSolvent, EngineFills
  <2> QED BY <2>1, BookedKeepsSolvent
<1>3. books' = [books EXCEPT ![b] = Booked(books[b], row, TRUE)]
  BY DEF EngineFills
<1>4. /\ books' \in [Accounts -> Book] /\ books'[b] = Booked(books[b], row, TRUE)
      /\ \A a \in Accounts : Solvent(books'[a])
      /\ \A a \in Accounts \ {b} : books'[a] = books[a]
  BY <1>1, <1>2, <1>3 DEF TypeOK, AccountsSolvent
<1>5. CashDelta(row, TRUE) \in Int
  BY CashDeltaIsInt
<1>6. /\ view'.bot = b /\ view'.state = state /\ view'.shares = shares
      /\ view'.cash = Cash(b) + CashDelta(row, TRUE)
      /\ view' \in [bot : Bots, phase : {"exits", "entries"}, cash : Int,
                    shares : {view'.shares}, state : Plans]
  <2>1. view.cash = Cash(b) /\ Cash(b) \in Int
    BY <1>1, BotAssumption DEF EngineViewIsCurrent, TypeOK, Accounts, Book, Cash
  <2>2. view' = [view EXCEPT !.state = state, !.cash = CashLeft(view.cash, row), !.shares = shares]
    BY DEF EngineFills
  <2>3. CashLeft(view.cash, row) = Cash(b) + CashDelta(row, TRUE)
    BY <2>1 DEF CashLeft
  <2>4. view \in [bot : Bots, phase : {"exits", "entries"}, cash : Int, shares : {view.shares}, state : Plans]
    BY DEF TypeOK
  <2> DEFINE cash == Cash(b) + CashDelta(row, TRUE)
  <2>5. cash \in Int
    <3>1. \A x, y \in Int : x + y \in Int
      OBVIOUS
    <3> QED BY <1>5, <2>1, <3>1, Zenon
  <2>6. view.phase \in {"exits", "entries"}
    BY <2>4
  <2>7. view' = [view EXCEPT !.state = state, !.cash = cash, !.shares = shares]
    BY <2>2, <2>3
  <2> HIDE DEF cash
  <2>8. view' = [bot |-> b, phase |-> view.phase, cash |-> cash, shares |-> shares, state |-> state]
    BY <2>4, <2>7
  <2>9. view' \in [bot : Bots, phase : {"exits", "entries"}, cash : Int,
                   shares : {shares}, state : Plans]
    BY <1>1, <2>5, <2>6, <2>8
  <2> QED BY <2>8, <2>9 DEF cash
<1>7. plan' \in [Bots -> Plans] /\ plan'[b] = state /\ \A x \in Bots \ {b} : plan'[x] = plan[x]
  BY <1>1 DEF EngineFills, TypeOK
<1>8. \A x \in Bots \ {b} : HeldIn(x)' = HeldIn(x)
  BY <1>1, <1>4, HoldingsFollow DEF SameHoldings
<1>9. TypeOK'
  BY <1>1, <1>4, <1>6, <1>7 DEF TypeOK, ArePositions
<1>10. AccountsSolvent' /\ AtMostMaxPositions'
  BY <1>4, <1>8 DEF AccountsSolvent, AtMostMaxPositions
<1>11. StoppedBotHasNoCash'
  BY <1>1, <1>4 DEF StoppedBotHasNoCash, Cash
<1>12. PlanMatchesPositions'
  BY <1>1, <1>7, <1>8 DEF PlanMatchesPositions
<1>13. InStep'
  <2>1. \A x \in DOMAIN engine.todo : engine # None => x \in Bots \ {b}
    BY <1>1 DEF TypeOK
  <2>2. UNCHANGED <<bots, engine, request>> /\ InStep
    BY <1>1
  <2>3. \A x \in Bots : IsFiniteSet(HeldIn(x)') /\ (Alive(x) => plan'[x].pos = HeldIn(x)')
    <3>1. IsFiniteSet(HeldIn(b)') /\ plan'[b].pos = HeldIn(b)'
      BY <1>7
    <3>2. ASSUME NEW x \in Bots \ {b}
          PROVE  IsFiniteSet(HeldIn(x)') /\ (Alive(x) => plan'[x].pos = HeldIn(x)')
      <4>1. HeldIn(x)' = HeldIn(x) /\ plan'[x] = plan[x]
        BY <1>7, <1>8
      <4>2. IsFiniteSet(HeldIn(x)) /\ (Alive(x) => plan[x].pos = HeldIn(x))
        BY <2>2 DEF InStep
      <4> QED BY <4>1, <4>2
    <3> QED BY <3>1, <3>2
  <2>4. engine # None => \A x \in DOMAIN engine.todo :
          bots[x] # "none" /\ (Alive(x) => engine.todo[x].pos = HeldIn(x)')
    BY <1>8, <2>1, <2>2 DEF InStep
  <2>5. view'.bot = b /\ view'.state.pos = HeldIn(b)' /\ bots[b] # "none" /\ b \notin DOMAIN engine.todo
    BY <1>1, <1>6
  <2>6. \A r \in Requests : request[r] # None =>
          bots[request[r].bot] # "none" /\ IsFiniteSet(DOMAIN request[r].fills)
    BY <2>2 DEF InStep
  <2> QED BY <2>2, <2>3, <2>4, <2>5, <2>6 DEF InStep, Alive
<1>14. EngineViewIsCurrent'
  <2>1. Cash(b)' = Cash(b) + CashDelta(row, TRUE)
    BY <1>4 DEF Cash
  <2> QED BY <1>6, <2>1 DEF EngineViewIsCurrent
<1> QED BY <1>9, <1>10, <1>11, <1>12, <1>13, <1>14

\* An exit sells all of a position and forgets it.
Exits(b, t, price) ==
    LET row == Trade("SELL", t, view.shares[t], price)
        state == AfterExit(view.state, t)
    IN  /\ view # None
        /\ EngineFills(b, row, state, Restrict(view.shares, DOMAIN view.shares \ {t}))
        /\ sold' = sold \cup {<<b, t, engine.today>>}

\* What the engine read is current, and what the exit leaves of the tables.
ExitIsCurrent(b, t) ==
    /\ b \in Bots /\ b \in Accounts /\ bots[b] = "active"
    /\ engine.today \in Days /\ view.state \in Plans /\ ArePositions(view.shares)
    /\ view.shares = [x \in HeldIn(b) |-> books[b].portfolio[x].shares]
    /\ view.state.pos = HeldIn(b)
    /\ t \in HeldIn(b) /\ t \in Tickers /\ books[b] \in Book

ExitLeaves(b, t) ==
    /\ books'[b].portfolio = [books[b].portfolio EXCEPT ![t] = NotHeld]
    /\ \A a \in Accounts \ {b} : books'[a] = books[a]
    /\ HeldIn(b)' = HeldIn(b) \ {t}

\* An exit takes a whole position out of the bot's account.
LEMMA ExitMovesBooks ==
    ASSUME BotInv, NEW b, b = view.bot, NEW t \in DOMAIN view.shares, NEW price \in Prices,
           Exits(b, t, price)
    PROVE  /\ ExitIsCurrent(b, t) /\ ExitLeaves(b, t)
           /\ IsFill(b, Trade("SELL", t, view.shares[t], price))
<1> USE DEF BotInv, EngineAgrees
<1> DEFINE row == Trade("SELL", t, view.shares[t], price)
<1>1. EngineFills(b, row, AfterExit(view.state, t), Restrict(view.shares, DOMAIN view.shares \ {t}))
      /\ view # None /\ sold' = sold \cup {<<b, t, engine.today>>}
  BY DEF Exits
<1>2. /\ b \in Bots /\ b \in Accounts /\ bots[b] = "active"
      /\ engine.today \in Days /\ view.state \in Plans /\ ArePositions(view.shares)
  BY <1>1 DEF EngineFills, TypeOK, Accounts
<1>3. /\ view.shares = [x \in HeldIn(b) |-> books[b].portfolio[x].shares]
      /\ view.state.pos = HeldIn(b)
  BY <1>1, <1>2 DEF EngineViewIsCurrent, InStep, Alive
<1>4. t \in HeldIn(b) /\ t \in Tickers /\ view.shares[t] = books[b].portfolio[t].shares
      /\ view.shares[t] \in Nat \ {0}
  BY <1>2, <1>3 DEF ArePositions
<1>5. books[b] \in Book /\ Solvent(books[b]) /\ Held(books[b], t)
  BY <1>2, <1>4 DEF TypeOK, AccountsSolvent, HeldIn
<1>6. row \in Rows({})
  BY <1>4, TradeIsRow DEF TradeSides
<1>7. /\ Booked(books[b], row, TRUE).portfolio = [books[b].portfolio EXCEPT ![t] = NotHeld]
      /\ Booked(books[b], row, TRUE).cash[Currency] = Cash(b) + CashDelta(row, TRUE)
  <2>1. row = Trade("SELL", t, books[b].portfolio[t].shares, price)
    BY <1>4
  <2> DEFINE after(x) == Booked(books[b], x, TRUE)
             all == Trade("SELL", t, books[b].portfolio[t].shares, price)
  <2>2. /\ after(all).portfolio = [books[b].portfolio EXCEPT ![t] = NotHeld]
        /\ after(all).cash[Currency] = books[b].cash[Currency] + CashDelta(all, TRUE)
    BY <1>4, <1>5, SellAll
  <2>3. row = all
    BY <2>1
  <2> HIDE DEF after, all
  <2>4. books[b].cash[Currency] = Cash(b)
    BY DEF Cash
  <2> QED BY <2>2, <2>3, <2>4 DEF after
<1>8. books'[b].portfolio = [books[b].portfolio EXCEPT ![t] = NotHeld]
  BY <1>1, <1>2, <1>7 DEF EngineFills, TypeOK
<1>9. HeldIn(b)' = HeldIn(b) \ {t}
  BY <1>5, <1>8 DEF HeldIn, Held, NotHeld, Book
<1>10. \A a \in Accounts \ {b} : books'[a] = books[a]
  BY <1>1, <1>2 DEF EngineFills, TypeOK
<1>11. IsFill(b, row)
  BY <1>6, <1>7 DEF IsFill
<1> HIDE DEF row
<1>12. ExitIsCurrent(b, t) /\ ExitLeaves(b, t)
  BY <1>2, <1>3, <1>4, <1>5, <1>8, <1>9, <1>10 DEF ExitIsCurrent, ExitLeaves
<1> QED BY <1>11, <1>12 DEF row

\* After an exit the engine forgets the position it sold.
LEMMA SellKeepsInv ==
    ASSUME BotInv, EngineSell
    PROVE  BotInv'
<1> USE DEF BotInv, EngineAgrees
<1> PICK b : b = view.bot
  OBVIOUS
<1>1. PICK t \in DOMAIN view.shares, price \in Prices : Exits(b, t, price)
  BY DEF EngineSell, Exits, EngineFills, MayTrade
<1> DEFINE row == Trade("SELL", t, view.shares[t], price)
           state == AfterExit(view.state, t)
           shares == Restrict(view.shares, DOMAIN view.shares \ {t})
<1>2. /\ view # None /\ EngineFills(b, row, state, shares)
      /\ sold' = sold \cup {<<b, t, engine.today>>}
  BY <1>1 DEF Exits
<1>3. ExitIsCurrent(b, t) /\ ExitLeaves(b, t) /\ IsFill(b, row)
  BY <1>1, ExitMovesBooks
<1>4. state \in Plans /\ state.pos = HeldIn(b) \ {t}
  <2>1. engine.today \in 0..MaxDay
    BY <1>3, BotAssumption DEF ExitIsCurrent, Days
  <2>2. view.state.cooldown \in [Tickers -> 0..MaxDay] /\ view.state.pos \subseteq Tickers
    BY <1>3 DEF ExitIsCurrent, Plans
  <2>3. [view.state.cooldown EXCEPT ![t] = engine.today] \in [Tickers -> 0..MaxDay]
    BY <1>3, <2>1, <2>2 DEF ExitIsCurrent
  <2> QED BY <1>3, <2>2, <2>3 DEF ExitIsCurrent, AfterExit, Plans
<1>5. /\ shares = [x \in HeldIn(b) \ {t} |-> books[b].portfolio[x].shares]
      /\ ArePositions(shares)
  BY <1>3 DEF ExitIsCurrent, Restrict, ArePositions
<1>6. shares = [x \in HeldIn(b)' |-> books'[b].portfolio[x].shares]
  <2>1. \A x \in HeldIn(b) \ {t} : books'[b].portfolio[x] = books[b].portfolio[x]
    BY <1>3 DEF ExitIsCurrent, ExitLeaves, HeldIn, Book
  <2> QED BY <1>3, <1>5, <2>1 DEF ExitLeaves
<1>7. sold' \subseteq Bots \X Tickers \X Days
  <2>1. b \in Bots /\ t \in Tickers /\ engine.today \in Days
    BY <1>3 DEF ExitIsCurrent
  <2>2. sold \subseteq Bots \X Tickers \X Days
    BY DEF TypeOK
  <2>3. <<b, t, engine.today>> \in Bots \X Tickers \X Days
    BY <2>1
  <2> QED BY <1>2, <2>2, <2>3
<1>8. IsFiniteSet(HeldIn(b)') /\ Cardinality(HeldIn(b)') <= MaxPositions
  <2>1. IsFiniteSet(HeldIn(b)) /\ Cardinality(HeldIn(b)) <= MaxPositions
    BY <1>3 DEF ExitIsCurrent, InStep, AtMostMaxPositions
  <2>2. HeldIn(b)' \in SUBSET HeldIn(b)
    BY <1>3 DEF ExitLeaves
  <2>3. IsFiniteSet(HeldIn(b)') /\ Cardinality(HeldIn(b)') <= Cardinality(HeldIn(b))
    BY <2>1, <2>2, FS_Subset
  <2> QED BY <2>1, <2>3, FS_CardinalityType, BotAssumption
<1>9. state.pos = HeldIn(b)'
  BY <1>3, <1>4 DEF ExitLeaves
<1> HIDE DEF row, state, shares
<1> QED BY <1>2, <1>3, <1>4, <1>5, <1>6, <1>7, <1>8, <1>9, FillKeepsInv

\* An entry buys a symbol the bot does not hold, while there is room for it.
Enters(b, t, qty, price) ==
    LET row == Trade("BUY", t, qty, price)
        state == AfterEntry(view.state, t)
    IN  /\ view # None /\ MayEnter(t) /\ UNCHANGED sold
        /\ EngineFills(b, row, state, [x \in DOMAIN view.shares \cup {t} |->
                                          IF x = t THEN qty ELSE view.shares[x]])

\* What the engine read is current, and what the entry leaves of the tables.
EntryIsCurrent(b, t, qty) ==
    /\ b \in Bots /\ b \in Accounts /\ bots[b] = "active"
    /\ view.state \in Plans /\ ArePositions(view.shares) /\ qty \in Nat \ {0}
    /\ view.shares = [x \in HeldIn(b) |-> books[b].portfolio[x].shares]
    /\ view.state.pos = HeldIn(b)
    /\ t \notin HeldIn(b) /\ Cardinality(HeldIn(b)) < MaxPositions
    /\ books[b] \in Book

EntryLeaves(b, t, qty) ==
    /\ books'[b].portfolio = WithBought(books[b].portfolio, t, qty)
    /\ \A a \in Accounts \ {b} : books'[a] = books[a]
    /\ HeldIn(b)' = HeldIn(b) \cup {t}

\* An entry is paid for by the bot's own cash.
LEMMA EntryMovesBooks ==
    ASSUME BotInv, NEW b, b = view.bot, NEW t \in Tickers, NEW qty \in Quantities,
           NEW price \in Prices, Enters(b, t, qty, price)
    PROVE  /\ EntryIsCurrent(b, t, qty) /\ EntryLeaves(b, t, qty)
           /\ IsFill(b, Trade("BUY", t, qty, price))
<1> USE DEF BotInv, EngineAgrees
<1> DEFINE row == Trade("BUY", t, qty, price)
           shares == [x \in DOMAIN view.shares \cup {t} |-> IF x = t THEN qty ELSE view.shares[x]]
<1>1. EngineFills(b, row, AfterEntry(view.state, t), shares) /\ view # None /\ MayEnter(t)
  BY DEF Enters
<1>2. /\ b \in Bots /\ b \in Accounts /\ bots[b] = "active"
      /\ view.state \in Plans /\ ArePositions(view.shares) /\ qty \in Nat \ {0}
  BY <1>1, BotAssumption DEF EngineFills, TypeOK, Accounts
<1>3. /\ view.shares = [x \in HeldIn(b) |-> books[b].portfolio[x].shares]
      /\ view.state.pos = HeldIn(b)
  BY <1>1, <1>2 DEF EngineViewIsCurrent, InStep, Alive
<1>4. t \notin HeldIn(b) /\ Cardinality(HeldIn(b)) < MaxPositions
  BY <1>1, <1>3 DEF MayEnter
<1>5. books[b] \in Book /\ Solvent(books[b]) /\ ~Held(books[b], t)
  BY <1>2, <1>4 DEF TypeOK, AccountsSolvent, HeldIn
<1>6. row \in Rows({})
  BY <1>2, TradeIsRow DEF TradeSides
<1>7. /\ Booked(books[b], row, TRUE).portfolio = WithBought(books[b].portfolio, t, qty)
      /\ Booked(books[b], row, TRUE).cash[Currency] = Cash(b) + CashDelta(row, TRUE)
  <2>1. Cash(b) = books[b].cash[Currency]
    BY DEF Cash
  <2>2. /\ books[b] \in Book /\ Solvent(books[b]) /\ ~Held(books[b], t)
        /\ t \in Tickers /\ qty \in Nat \ {0} /\ price \in Prices
    BY <1>2, <1>5
  <2>3. /\ Booked(books[b], row, TRUE).portfolio = WithBought(books[b].portfolio, t, qty)
        /\ Booked(books[b], row, TRUE).cash[Currency] = books[b].cash[Currency] + CashDelta(row, TRUE)
    BY <2>2, BuyNew, Zenon
  <2> QED BY <2>1, <2>3
<1>8. books'[b].portfolio = WithBought(books[b].portfolio, t, qty)
  BY <1>1, <1>2, <1>7 DEF EngineFills, TypeOK
<1>9. HeldIn(b)' = HeldIn(b) \cup {t}
  BY <1>2, <1>5, <1>8 DEF WithBought, HeldIn, Held, Book
<1>10. \A a \in Accounts \ {b} : books'[a] = books[a]
  BY <1>1, <1>2 DEF EngineFills, TypeOK
<1>11. IsFill(b, row)
  BY <1>6, <1>7 DEF IsFill
<1> HIDE DEF row
<1>12. EntryIsCurrent(b, t, qty) /\ EntryLeaves(b, t, qty)
  BY <1>2, <1>3, <1>4, <1>5, <1>8, <1>9, <1>10 DEF EntryIsCurrent, EntryLeaves
<1> QED BY <1>11, <1>12 DEF row

\* After an entry the engine's picture has the position it bought.
LEMMA BuyKeepsInv ==
    ASSUME BotInv, EngineBuy
    PROVE  BotInv'
<1> USE DEF BotInv, EngineAgrees
<1> PICK b : b = view.bot
  OBVIOUS
<1>1. PICK t \in Tickers, qty \in Quantities, price \in Prices : Enters(b, t, qty, price)
  BY DEF EngineBuy, Enters, EngineFills, MayTrade
<1> DEFINE row == Trade("BUY", t, qty, price)
           state == AfterEntry(view.state, t)
           shares == [x \in DOMAIN view.shares \cup {t} |-> IF x = t THEN qty ELSE view.shares[x]]
<1>2. view # None /\ MayEnter(t) /\ UNCHANGED sold /\ EngineFills(b, row, state, shares)
  BY <1>1 DEF Enters
<1>3. EntryIsCurrent(b, t, qty) /\ EntryLeaves(b, t, qty) /\ IsFill(b, row)
  BY <1>1, EntryMovesBooks
<1>4. state \in Plans /\ state.pos = HeldIn(b) \cup {t}
  BY <1>3 DEF EntryIsCurrent, AfterEntry, Plans
<1>5. /\ shares = [x \in HeldIn(b) \cup {t} |-> IF x = t THEN qty ELSE books[b].portfolio[x].shares]
      /\ ArePositions(shares)
  <2>1. DOMAIN view.shares = HeldIn(b)
    BY <1>3 DEF EntryIsCurrent
  <2>2. shares = [x \in HeldIn(b) \cup {t} |-> IF x = t THEN qty ELSE books[b].portfolio[x].shares]
    BY <1>3, <2>1 DEF EntryIsCurrent
  <2>3. \A x \in HeldIn(b) : x \in Tickers /\ books[b].portfolio[x].shares \in Nat \ {0}
    BY <1>3, <2>1 DEF EntryIsCurrent, ArePositions
  <2> HIDE DEF shares
  <2> QED BY <1>3, <2>2, <2>3 DEF EntryIsCurrent, ArePositions
<1>6. shares = [x \in HeldIn(b)' |-> books'[b].portfolio[x].shares]
  <2>1. /\ \A x \in HeldIn(b) : x # t /\ books'[b].portfolio[x] = books[b].portfolio[x]
        /\ books'[b].portfolio[t].shares = qty
    BY <1>3 DEF EntryIsCurrent, EntryLeaves, WithBought, HeldIn, Book
  <2> QED BY <1>3, <1>5, <2>1 DEF EntryLeaves
<1>7. sold' \subseteq Bots \X Tickers \X Days
  BY <1>2 DEF TypeOK
<1>8. IsFiniteSet(HeldIn(b)') /\ Cardinality(HeldIn(b)') <= MaxPositions
  <2>1. IsFiniteSet(HeldIn(b)) /\ Cardinality(HeldIn(b)) \in Nat
    BY <1>3, FS_CardinalityType DEF EntryIsCurrent, InStep
  <2>2. IsFiniteSet(HeldIn(b)') /\ Cardinality(HeldIn(b)') = Cardinality(HeldIn(b)) + 1
    <3>1. t \notin HeldIn(b) /\ HeldIn(b)' = HeldIn(b) \cup {t}
      BY <1>3 DEF EntryIsCurrent, EntryLeaves
    <3>2. IsFiniteSet(HeldIn(b) \cup {t}) /\ Cardinality(HeldIn(b) \cup {t}) = Cardinality(HeldIn(b)) + 1
      BY <2>1, <3>1, FS_AddElement
    <3> QED BY <3>1, <3>2
  <2> QED BY <1>3, <2>1, <2>2, BotAssumption DEF EntryIsCurrent
<1>9. state.pos = HeldIn(b)'
  BY <1>3, <1>4 DEF EntryLeaves
<1> HIDE DEF row, state, shares
<1> QED BY <1>2, <1>3, <1>4, <1>5, <1>6, <1>7, <1>8, <1>9, FillKeepsInv

(***************************************************************************)
(* The invariant holds.                                                    *)
(***************************************************************************)
LEMMA InitHasInv == Init => BotInv
<1> SUFFICES ASSUME Init PROVE BotInv
  OBVIOUS
<1> USE DEF Init
<1> DEFINE opening == [EmptyBook EXCEPT !.cash[Currency] = ManualCash]
<1>1. EmptyBook \in Book /\ Solvent(EmptyBook) /\ \A t \in Tickers : ~Held(EmptyBook, t)
  BY DEF EmptyBook, Book, Position, NotHeld, Solvent, Held
<1>2. opening \in Book /\ Solvent(opening)
  <2>1. opening = [cash |-> [c \in Currencies |-> IF c = Currency THEN ManualCash ELSE 0],
                   portfolio |-> [t \in Tickers |-> NotHeld]]
    BY DEF EmptyBook
  <2>2. ManualCash \in Nat
    BY BotAssumption
  <2> HIDE DEF opening
  <2> QED BY <2>1, <2>2 DEF Book, Position, NotHeld, Solvent, Held
<1> HIDE DEF opening
<1>3. /\ books = [a \in Accounts |-> IF a = Manual THEN opening ELSE EmptyBook]
      /\ \A b \in Bots : b \in Accounts /\ books[b] = EmptyBook
  BY BotAssumption DEF Accounts, opening
<1>4. \A b \in Bots : HeldIn(b) = {}
  BY <1>1, <1>3 DEF HeldIn
<1>5. NoPlan \in Plans /\ NoPlan.pos = {}
  BY BotAssumption DEF NoPlan, Plans
<1>6. TypeOK
  BY <1>1, <1>2, <1>3, <1>5, BotAssumption DEF TypeOK, Days
<1>7. \A b \in Bots : IsFiniteSet(HeldIn(b)) /\ Cardinality(HeldIn(b)) <= MaxPositions
  BY <1>4, FS_EmptySet, BotAssumption
<1>8. AccountsSolvent
  BY <1>1, <1>2, <1>3 DEF AccountsSolvent
<1> QED BY <1>4, <1>5, <1>6, <1>7, <1>8
        DEF BotInv, EngineAgrees, InStep, EngineViewIsCurrent, PlanMatchesPositions,
            AtMostMaxPositions, StoppedBotHasNoCash

\* One case for each request of the user and each step of the engine.
LEMMA NextKeepsInv == BotInv /\ [Next]_vars => BotInv'
<1> SUFFICES ASSUME BotInv, [Next]_vars PROVE BotInv'
  OBVIOUS
<1>1. CASE Create BY <1>1, CreateKeepsInv
<1>2. CASE Pause \/ Resume BY <1>2, PauseKeepsInv
<1>3. CASE \E r \in Requests : StopRead(r) BY <1>3, StopReadKeepsInv
<1>4. CASE \E r \in Requests : Stop(r) BY <1>4, StopKeepsInv
<1>5. CASE \E r \in Requests : StopFails(r) \/ StopRefused(r) BY <1>5, StopEndsKeepInv
<1>6. CASE EngineBegin \/ EngineEnd BY <1>6, BeginKeepsInv
<1>7. CASE EngineRead BY <1>7, ReadKeepsInv
<1>8. CASE EngineSell BY <1>8, SellKeepsInv
<1>9. CASE EngineTurnsToEntries \/ NextDay BY <1>9, TurnKeepsInv
<1>10. CASE EngineBuy BY <1>10, BuyKeepsInv
<1>11. CASE EngineLeave BY <1>11, LeaveKeepsInv
<1>12. CASE UNCHANGED vars
  <2>1. UNCHANGED <<books, bots, plan, engine, view, sold, request, day>>
    BY <1>12 DEF vars
  <2>2. \A x : HeldIn(x)' = HeldIn(x)
    BY <2>1 DEF HeldIn, Held
  <2> QED BY <2>1, <2>2 DEF BotInv, EngineAgrees, TypeOK, ArePositions, AccountsSolvent,
             EngineViewIsCurrent, PlanMatchesPositions, AtMostMaxPositions, StoppedBotHasNoCash,
             InStep, Alive, Cash
<1> QED BY <1>1, <1>2, <1>3, <1>4, <1>5, <1>6, <1>7, <1>8, <1>9, <1>10, <1>11, <1>12 DEF Next

\* The inductive invariant holds throughout.
LEMMA BotInvHolds == Spec => []BotInv
  BY InitHasInv, NextKeepsInv, PTL DEF Spec

\* Whatever the requests do to a bot while the engine runs it, no account is
\* short or overdrawn, the engine's picture of a bot that is not stopped is
\* what the tables say, and its plan names the positions it holds.
THEOREM BotsAgree == Spec => []EngineAgrees
  BY BotInvHolds, PTL DEF BotInv

\* All of a stopped bot's cash was handed back, and none reaches it later.
THEOREM StoppedBotsAreEmptied == Spec => []StoppedBotHasNoCash
  BY BotInvHolds, PTL DEF BotInv

(***************************************************************************)
(* What each step does to the tables.                                      *)
(***************************************************************************)
\* A request or an entry or exit of the engine is the only writer of tables.
LEMMA WhoWrites ==
    ASSUME BotInv, [Next]_vars
    PROVE  \/ UNCHANGED books
           \/ Create
           \/ \E r \in Requests : Stop(r)
           \/ EngineSell
           \/ EngineBuy
  BY DEF Next, vars, Pause, Resume, StopRead, StopFails, StopRefused, EngineBegin, EngineRead,
         EngineTurnsToEntries, EngineLeave, EngineEnd, NextDay

\* What the writers leave alone, and what they take from a bot.
LEMMA CreateTouches ==
    ASSUME BotInv, Create
    PROVE  \E b \in Bots : /\ bots[b] = "none"
                           /\ bots' = [bots EXCEPT ![b] = "active"]
                           /\ Allocation \in Nat /\ Allocation <= books[Manual].cash[Currency]
                           /\ books' = Transferred(books, Manual, b, Allocation)
<1>1. PICK b \in Bots :
        /\ bots[b] = "none"
        /\ Accepts(books[Manual], CashRow("WITHDRAW", Allocation, Currency), TRUE)
        /\ bots' = [bots EXCEPT ![b] = "active"]
        /\ books' = Transferred(books, Manual, b, Allocation)
  BY DEF Create
<1>2. books[Manual].cash[Currency] \in Int
  BY BotAssumption DEF BotInv, EngineAgrees, TypeOK, Accounts, Book
<1>3. Allocation \in Nat /\ Allocation <= books[Manual].cash[Currency]
  BY <1>1, <1>2, BotAssumption DEF Accepts, NoOverdraft, CashDelta, CashRow, IsCash, CashSides
<1> QED BY <1>1, <1>3

\* No step of a bot touches the account of another.
LEMMA StepsLeaveOthers ==
    ASSUME BotInv, [Next]_vars, NEW b \in Bots
    PROVE  /\ bots[b] = "stopped" => bots'[b] = "stopped" /\ books'[b] = books[b]
           /\ ~EngineBuy => HeldIn(b)' \subseteq HeldIn(b)
<1> USE DEF BotInv, EngineAgrees
<1>1. CASE Create
  <2>1. PICK x \in Bots : /\ bots[x] = "none"
                          /\ bots' = [bots EXCEPT ![x] = "active"]
                          /\ Allocation \in Nat /\ Allocation <= books[Manual].cash[Currency]
                          /\ books' = Transferred(books, Manual, x, Allocation)
    BY <1>1, CreateTouches
  <2>2. Manual \in Accounts /\ x \in Accounts /\ Manual # x /\ b \in Accounts /\ b # Manual
    BY BotAssumption DEF Accounts
  <2>3. books \in [Accounts -> Book] /\ \A a \in Accounts : Solvent(books[a])
    BY DEF TypeOK, AccountsSolvent
  <2>4. /\ \A a \in Accounts : books'[a].portfolio = books[a].portfolio
        /\ \A a \in Accounts \ {Manual, x} : books'[a] = books[a]
    BY <2>1, <2>2, <2>3, TransferMovesCash
  <2>5. bots \in [Bots -> Statuses]
    BY DEF TypeOK, Statuses
  <2>6. HeldIn(b)' = HeldIn(b)
    BY <2>2, <2>4, HoldingsFollow DEF SameHoldings
  <2> QED BY <2>1, <2>2, <2>4, <2>5, <2>6
<1>2. CASE \E r \in Requests : Stop(r)
  <2>1. PICK r \in Requests : Stop(r)
    BY <1>2
  <2> PICK x : x = request[r].bot
    OBVIOUS
  <2>2. /\ x \in Bots /\ bots[x] # "stopped" /\ HeldIn(x)' \subseteq HeldIn(x)
        /\ \A a \in Bots \ {x} : books'[a] = books[a]
    BY <2>1, StopMovesBooks
  <2>3. bots' = [bots EXCEPT ![x] = "stopped"] /\ bots \in [Bots -> Statuses]
    BY <2>1 DEF Stop, TypeOK, Statuses
  <2>4. b # x => HeldIn(b)' = HeldIn(b)
    BY <2>2, HoldingsFollow DEF SameHoldings
  <2> QED BY <2>2, <2>3, <2>4
<1>3. CASE EngineSell
  <2> PICK x : x = view.bot
    OBVIOUS
  <2>1. PICK t \in DOMAIN view.shares, price \in Prices : Exits(x, t, price)
    BY <1>3 DEF EngineSell, Exits, EngineFills, MayTrade
  <2>2. ExitIsCurrent(x, t) /\ ExitLeaves(x, t) /\ UNCHANGED bots
    BY <1>3, <2>1, ExitMovesBooks DEF EngineSell
  <2>3. b # x => HeldIn(b)' = HeldIn(b)
    BY <2>2, HoldingsFollow DEF ExitLeaves, SameHoldings, Accounts
  <2> QED BY <2>2, <2>3 DEF ExitIsCurrent, ExitLeaves, Accounts
<1>4. CASE EngineBuy
  <2> PICK x : x = view.bot
    OBVIOUS
  <2>1. PICK t \in Tickers, qty \in Quantities, price \in Prices : Enters(x, t, qty, price)
    BY <1>4 DEF EngineBuy, Enters, EngineFills, MayTrade
  <2>2. EntryIsCurrent(x, t, qty) /\ EntryLeaves(x, t, qty) /\ UNCHANGED bots
    BY <1>4, <2>1, EntryMovesBooks DEF EngineBuy
  <2> QED BY <1>4, <2>2 DEF EntryIsCurrent, EntryLeaves, Accounts
<1>5. CASE UNCHANGED books /\ ~Create /\ ~EngineSell /\ ~EngineBuy /\ ~\E r \in Requests : Stop(r)
  <2>1. HeldIn(b)' = HeldIn(b)
    BY <1>5, HoldingsFollow DEF SameHoldings
  <2>2. bots[b] = "stopped" => bots'[b] = "stopped"
    <3>1. CASE Pause \/ Resume
      BY <3>1 DEF Pause, Resume, TypeOK
    <3>2. CASE UNCHANGED bots
      BY <3>2
    <3> QED BY <1>5, <3>1, <3>2 DEF Next, vars, StopRead, StopFails, StopRefused, EngineBegin,
               EngineRead, EngineTurnsToEntries, EngineLeave, EngineEnd, NextDay
  <2> QED BY <1>5, <2>1, <2>2
<1> QED BY <1>1, <1>2, <1>3, <1>4, <1>5, WhoWrites

(***************************************************************************)
(* The cooldowns.  Whatever copy of a bot's state the engine works on, the *)
(* cooldown of a symbol is no earlier than the last exit of it, until the  *)
(* day of the pass has left that exit behind.                              *)
(***************************************************************************)
Today == IF engine # None THEN engine.today ELSE day

Remembers(b, cooldown, today, exits) ==
    /\ \A t \in Tickers : cooldown[t] <= today
    /\ \A x \in exits : x[1] = b => x[3] <= cooldown[x[2]] \/ x[3] < today

Cooling ==
    /\ Today <= day
    /\ \A x \in sold : x[3] <= Today
    /\ \A b \in Bots : Alive(b) => Remembers(b, plan[b].cooldown, Today, sold)
    /\ engine # None => \A b \in DOMAIN engine.todo :
         Alive(b) => Remembers(b, engine.todo[b].cooldown, Today, sold)
    /\ view # None /\ Alive(view.bot) => Remembers(view.bot, view.state.cooldown, Today, sold)

\* A later day keeps what is remembered; dropping the older cooldowns does too.
LEMMA DaysPass ==
    ASSUME NEW exits \in SUBSET (Bots \X Tickers \X Days), NEW b, NEW p \in Plans,
           NEW today \in Days, NEW later \in Days, today <= later,
           Remembers(b, p.cooldown, today, exits)
    PROVE  Remembers(b, p.cooldown, later, exits)
<1>1. \A t \in Tickers : p.cooldown[t] \in Int
  BY DEF Plans
<1>2. \A x \in exits : x[2] \in Tickers /\ x[3] \in Int
  BY BotAssumption DEF Days
<1>3. today \in Int /\ later \in Int
  BY BotAssumption DEF Days
<1> QED BY <1>1, <1>2, <1>3 DEF Remembers

\* Pruning keeps the cooldown of every symbol sold today.
LEMMA PruningRemembers ==
    ASSUME NEW exits \in SUBSET (Bots \X Tickers \X Days), NEW b, NEW p \in Plans,
           NEW today \in Days, Remembers(b, p.cooldown, today, exits)
    PROVE  Remembers(b, Pruned(p.cooldown, today), today, exits)
<1>1. \A t \in Tickers : p.cooldown[t] \in Nat
  BY BotAssumption DEF Plans
<1>2. \A x \in exits : x[2] \in Tickers /\ x[3] \in Nat
  BY BotAssumption DEF Days
<1>3. today \in Nat
  BY BotAssumption DEF Days
<1> QED BY <1>1, <1>2, <1>3 DEF Remembers, Pruned

\* An exit is remembered by the bot that made it, whatever it remembered before.
LEMMA ExitRemembered ==
    ASSUME NEW exits \in SUBSET (Bots \X Tickers \X Days), NEW b \in Bots, NEW p \in Plans,
           NEW today \in Days, NEW t \in Tickers, Remembers(b, p.cooldown, today, exits),
           \A x \in exits : x[3] <= today,
           NEW after, after = [p.cooldown EXCEPT ![t] = today],
           NEW more, more = exits \cup {<<b, t, today>>}
    PROVE  /\ Remembers(b, after, today, more)
           /\ \A other, cooldown : other # b /\ Remembers(other, cooldown, today, exits)
                => Remembers(other, cooldown, today, more)
<1>1. p.cooldown \in [Tickers -> Int]
  BY DEF Plans
<1>2. \A x \in exits : x[2] \in Tickers /\ x[3] \in Int
  BY BotAssumption DEF Days
<1>3. today \in Int
  BY BotAssumption DEF Days
<1> QED BY <1>1, <1>2, <1>3 DEF Remembers

\* Nothing was sold before the start.
LEMMA InitCools == Init => Cooling
<1>1. Init => \A t \in Tickers : NoPlan.cooldown[t] = 0
  BY DEF NoPlan
<1> QED BY <1>1 DEF Init, Cooling, Today, Remembers

\* What was sold today is in the cooldowns, stored or in the engine's hands.
LEMMA NextCools ==
    ASSUME BotInv, Cooling, [Next]_vars
    PROVE  Cooling'
<1> USE DEF BotInv, EngineAgrees
<1>1. \A b \in Bots : Alive(b)' => Alive(b)
  BY StepsLeaveOthers DEF Alive
<1>2. /\ Today \in Days /\ day \in Days /\ sold \in SUBSET (Bots \X Tickers \X Days)
      /\ \A b \in Bots : plan[b] \in Plans
      /\ engine # None => \A b \in DOMAIN engine.todo : b \in Bots /\ engine.todo[b] \in Plans
      /\ view # None => view.bot \in Bots /\ view.state \in Plans /\ engine # None
                        /\ view.bot \notin DOMAIN engine.todo
  BY DEF TypeOK, Today, InStep
<1>3. \A x \in sold : x[3] \in Int
  BY <1>2, BotAssumption DEF Days
<1>4. Today \in Int /\ day \in Int
  BY <1>2, BotAssumption DEF Days
<1>5. CASE Create \/ Pause \/ Resume \/ EngineTurnsToEntries
           \/ (\E r \in Requests : StopRead(r) \/ Stop(r) \/ StopFails(r) \/ StopRefused(r))
           \/ UNCHANGED vars
  <2>1. /\ UNCHANGED <<plan, engine, sold, day>>
        /\ view' # None => view # None /\ view'.bot = view.bot /\ view'.state = view.state
    BY <1>5 DEF Create, Pause, Resume, EngineTurnsToEntries, StopRead, Stop, StopFails, StopRefused,
                vars, TypeOK
  <2>2. UNCHANGED Today
    BY <2>1 DEF Today
  <2>3. view' # None => (bots'[view'.bot] # "stopped" => Alive(view.bot))
    BY <1>1, <1>2, <2>1 DEF Alive
  <2> QED BY <1>1, <1>2, <2>1, <2>2, <2>3 DEF Cooling, Alive
<1>6. CASE EngineBegin
  <2>1. /\ engine = None /\ view = None
        /\ engine' = [today |-> day, todo |-> [b \in Active |-> plan[b]]]
        /\ UNCHANGED <<bots, plan, view, sold, day>>
    BY <1>6 DEF EngineBegin, TypeOK
  <2>2. Today = day /\ Today' = day /\ \A b \in Active : b \in Bots /\ bots[b] = "active"
    BY <2>1 DEF Today, Active
  <2> QED BY <2>1, <2>2 DEF Cooling, Alive
<1>7. CASE EngineEnd
  <2>1. engine' = None /\ view' = None /\ UNCHANGED <<bots, plan, sold, day>>
    BY <1>7 DEF EngineEnd
  <2>2. Today' = day /\ Today <= day
    BY <2>1 DEF Today, Cooling
  <2>3. \A b \in Bots : Alive(b) => Remembers(b, plan[b].cooldown, day, sold)
    BY <1>2, <2>2, DaysPass DEF Cooling
  <2> QED BY <1>3, <1>4, <2>1, <2>2, <2>3 DEF Cooling, Alive
<1>8. CASE NextDay
  <2>1. day' = day + 1 /\ UNCHANGED <<bots, plan, engine, view, sold>>
    BY <1>8 DEF NextDay
  <2>2. Today <= Today' /\ Today' \in Days /\ Today' <= day'
    BY <1>4, <1>8, <2>1, BotAssumption DEF Today, NextDay, Days, Cooling, TypeOK
  <2>3. engine # None => Today' = Today
    BY <2>1 DEF Today
  <2>4. \A b \in Bots : Alive(b) => Remembers(b, plan[b].cooldown, Today', sold)
    BY <1>2, <2>2, DaysPass DEF Cooling
  <2>5. \A x \in sold : x[3] <= Today'
    <3>1. Today' \in Int
      BY <2>2, BotAssumption DEF Days
    <3> QED BY <1>3, <1>4, <2>2, <3>1 DEF Cooling
  <2>6. view # None => engine # None
    BY <1>2
  <2> QED BY <1>2, <2>1, <2>2, <2>3, <2>4, <2>5, <2>6 DEF Cooling, Alive
<1>9. CASE EngineRead
  <2> PICK b \in DOMAIN engine.todo :
        /\ view' = [bot |-> b, phase |-> "exits", cash |-> Cash(b),
                    shares |-> [t \in HeldIn(b) |-> books[b].portfolio[t].shares],
                    state |-> [pos |-> engine.todo[b].pos \cup HeldIn(b),
                               cooldown |-> Pruned(engine.todo[b].cooldown, engine.today)]]
        /\ engine' = [engine EXCEPT !.todo = Restrict(@, DOMAIN @ \ {b})]
    BY <1>9 DEF EngineRead
  <2>1. /\ view'.bot = b
        /\ view'.state.cooldown = Pruned(engine.todo[b].cooldown, engine.today)
        /\ engine' = [engine EXCEPT !.todo = Restrict(@, DOMAIN @ \ {b})]
    OBVIOUS
  <2>2. engine # None /\ UNCHANGED <<bots, plan, sold, day>>
    BY <1>9 DEF EngineRead
  <2> DEFINE rest == Restrict(engine.todo, DOMAIN engine.todo \ {b})
  <2>3. DOMAIN rest = DOMAIN engine.todo \ {b} /\ \A x \in DOMAIN rest : rest[x] = engine.todo[x]
    BY DEF Restrict
  <2>4. engine' = [today |-> engine.today, todo |-> rest]
    BY <2>1, <2>2 DEF TypeOK
  <2> HIDE DEF rest
  <2>5. engine' # None
    <3>1. rest \in [DOMAIN rest -> Plans] /\ DOMAIN rest \subseteq Bots
      <4>1. rest = [x \in DOMAIN rest |-> rest[x]]
        BY DEF rest, Restrict
      <4> QED BY <1>2, <2>2, <2>3, <4>1
    <3>2. engine.today \in Days
      BY <2>2 DEF TypeOK
    <3> QED BY <2>4, <3>1, <3>2, NoPassAssumption
  <2>6. Today = engine.today /\ Today' = engine.today
    BY <2>2, <2>4, <2>5 DEF Today
  <2>7. Alive(b) => Remembers(b, view'.state.cooldown, Today, sold)
    BY <1>2, <2>1, <2>2, <2>6, PruningRemembers DEF Cooling
  <2>8. \A x \in DOMAIN rest : Alive(x) => Remembers(x, rest[x].cooldown, Today, sold)
    BY <2>2, <2>3 DEF Cooling
  <2>9. engine'.todo = rest /\ Today' = Today
    BY <2>4, <2>6
  <2> QED BY ONLY Cooling, <2>1, <2>2, <2>7, <2>8, <2>9 DEF Cooling, Alive
<1>10. CASE EngineSell
  <2> PICK b : b = view.bot
    OBVIOUS
  <2>1. PICK t \in DOMAIN view.shares, price \in Prices : Exits(b, t, price)
    BY <1>10 DEF EngineSell, Exits, EngineFills, MayTrade
  <2>2. ExitIsCurrent(b, t)
    BY <2>1, ExitMovesBooks
  <2>3. /\ view # None /\ b \in Bots /\ t \in Tickers /\ Alive(b) /\ Today = engine.today
        /\ view.state \in Plans
    BY <1>2, <2>1, <2>2 DEF Exits, ExitIsCurrent, Alive, Today
  <2> DEFINE state == AfterExit(view.state, t)
  <2>4. /\ UNCHANGED <<bots, engine, day>> /\ sold' = sold \cup {<<b, t, Today>>}
        /\ plan' = [plan EXCEPT ![b] = state]
        /\ view'.bot = b /\ view'.state = state
    BY <2>1, <2>3 DEF Exits, EngineFills, TypeOK
  <2>5. state.cooldown = [view.state.cooldown EXCEPT ![t] = Today]
    BY <2>3 DEF AfterExit
  <2>6. Remembers(b, view.state.cooldown, Today, sold) /\ \A x \in sold : x[3] <= Today
    BY <2>3 DEF Cooling
  <2>7. /\ Remembers(b, state.cooldown, Today, sold')
        /\ \A other, cooldown : other # b /\ Remembers(other, cooldown, Today, sold)
             => Remembers(other, cooldown, Today, sold')
    <3> PICK after : after = state.cooldown
      OBVIOUS
    <3> PICK exits : exits = sold
      OBVIOUS
    <3> PICK p : p = view.state
      OBVIOUS
    <3> PICK today : today = Today
      OBVIOUS
    <3> HIDE DEF state
    <3>1. /\ exits \in SUBSET (Bots \X Tickers \X Days) /\ p \in Plans /\ today \in Days
          /\ b \in Bots /\ t \in Tickers
          /\ Remembers(b, p.cooldown, today, exits) /\ \A x \in exits : x[3] <= today
          /\ after = [p.cooldown EXCEPT ![t] = today]
      BY <1>2, <2>3, <2>5, <2>6
    <3> PICK more : more = exits \cup {<<b, t, today>>}
      OBVIOUS
    <3>2. /\ Remembers(b, after, today, more)
          /\ \A other, cooldown : other # b /\ Remembers(other, cooldown, today, exits)
               => Remembers(other, cooldown, today, more)
      BY <3>1, ExitRemembered
    <3>3. more = sold' /\ exits = sold /\ today = Today /\ after = state.cooldown
      BY <2>4
    <3> QED BY <3>2, <3>3
  <2> HIDE DEF state
  <2>8. Today' = Today /\ plan'[b] = state /\ \A x \in Bots \ {b} : plan'[x] = plan[x]
    BY <2>3, <2>4 DEF Today, TypeOK
  <2>9. \A x \in sold' : x[3] <= Today
    BY <1>4, <2>4, <2>6
  <2>10. \A x \in Bots : Alive(x) => Remembers(x, plan'[x].cooldown, Today, sold')
    BY <2>7, <2>8 DEF Cooling
  <2>11. \A x \in DOMAIN engine.todo : engine # None /\ Alive(x)
           => Remembers(x, engine.todo[x].cooldown, Today, sold')
    BY <1>2, <2>3, <2>7 DEF Cooling
  <2> QED BY <2>4, <2>7, <2>8, <2>9, <2>10, <2>11 DEF Cooling, Alive
<1>11. CASE EngineBuy
  <2> PICK b : b = view.bot
    OBVIOUS
  <2>1. PICK t \in Tickers, qty \in Quantities, price \in Prices : Enters(b, t, qty, price)
    BY <1>11 DEF EngineBuy, Enters, EngineFills, MayTrade
  <2>2. EntryIsCurrent(b, t, qty)
    BY <2>1, EntryMovesBooks
  <2>3. view # None /\ b \in Bots /\ Alive(b) /\ view.state \in Plans
    BY <2>1, <2>2 DEF Enters, EntryIsCurrent, Alive
  <2> DEFINE state == AfterEntry(view.state, t)
  <2>4. /\ UNCHANGED <<bots, engine, day, sold>>
        /\ plan' = [plan EXCEPT ![b] = state]
        /\ view'.bot = b /\ view'.state = state
    BY <2>1, <2>3 DEF Enters, EngineFills, TypeOK
  <2>5. state.cooldown = view.state.cooldown
    BY <2>3 DEF AfterEntry, Plans
  <2> HIDE DEF state
  <2>6. Today' = Today /\ plan'[b] = state /\ \A x \in Bots \ {b} : plan'[x] = plan[x]
    BY <2>3, <2>4 DEF Today, TypeOK
  <2> QED BY <2>3, <2>4, <2>5, <2>6 DEF Cooling, Alive
<1>12. CASE EngineLeave
  <2>1. /\ view # None /\ view' = None /\ UNCHANGED <<bots, engine, sold, day>>
        /\ plan' = plan \/ plan' = [plan EXCEPT ![view.bot] =
                                      IF MayTrade(view.bot) THEN view.state ELSE @]
    BY <1>12 DEF EngineLeave
  <2>2. Today' = Today
    BY <2>1 DEF Today
  <2>3. \A x \in Bots : plan'[x] = plan[x] \/ (x = view.bot /\ plan'[x] = view.state)
    BY <2>1 DEF TypeOK
  <2> QED BY <1>2, <2>1, <2>2, <2>3 DEF Cooling, Alive
<1> QED BY <1>5, <1>6, <1>7, <1>8, <1>9, <1>10, <1>11, <1>12 DEF Next

(***************************************************************************)
(* Sums over a finite set.  IsSum says what the function is that           *)
(* MapThenSumSet defines by recursion on the subsets; that there is one,   *)
(* and what it gives when money moves between two members, is by induction *)
(* on their size.                                                          *)
(***************************************************************************)
One(s) == CHOOSE x \in s : TRUE

IsSum(g, f, D) == g = [s \in D |-> IF s = {} THEN 0 ELSE f[One(s)] + g[s \ {One(s)}]]

SmallSubsets(S, n) == {s \in SUBSET S : Cardinality(s) <= n}

\* Taking the one chosen member from a subset leaves a smaller subset.
LEMMA WithoutOne ==
    ASSUME NEW S, IsFiniteSet(S), NEW s \in SUBSET S, s # {}
    PROVE  /\ One(s) \in s /\ One(s) \in S
           /\ s \ {One(s)} \in SUBSET S
           /\ IsFiniteSet(s) /\ Cardinality(s) \in Nat
           /\ Cardinality(s \ {One(s)}) = Cardinality(s) - 1
           /\ Cardinality(s) # 0
<1>1. One(s) \in s
  BY DEF One
<1>2. IsFiniteSet(s)
  BY FS_Subset
<1>3. Cardinality(s) \in Nat /\ Cardinality(s) # 0
  BY <1>2, FS_CardinalityType, FS_EmptySet
<1>4. Cardinality(s \ {One(s)}) = Cardinality(s) - 1
  BY <1>1, <1>2, FS_RemoveElement
<1> QED BY <1>1, <1>2, <1>3, <1>4

\* The sum over the subsets of a finite set exists, by induction on their size.
LEMMA SumExists ==
    ASSUME NEW S, IsFiniteSet(S), NEW f
    PROVE  \E g : IsSum(g, f, SUBSET S)
<1> DEFINE N == {n \in Nat : \E g : IsSum(g, f, SmallSubsets(S, n))}
<1>1. 0 \in N
  <2>1. \A s \in SmallSubsets(S, 0) : s = {}
    <3>1. ASSUME NEW s \in SUBSET S, s # {}
          PROVE  ~(Cardinality(s) <= 0)
      <4>1. Cardinality(s) \in Nat /\ Cardinality(s) # 0
        BY <3>1, WithoutOne
      <4> QED BY <4>1
    <3> QED BY <3>1 DEF SmallSubsets
  <2>2. IsSum([s \in SmallSubsets(S, 0) |-> 0], f, SmallSubsets(S, 0))
    BY <2>1 DEF IsSum
  <2> QED BY <2>2
<1>2. ASSUME NEW n \in N
      PROVE  n + 1 \in N
  <2>1. PICK g : IsSum(g, f, SmallSubsets(S, n))
    OBVIOUS
  <2> DEFINE h == [s \in SmallSubsets(S, n + 1) |->
                     IF s = {} THEN 0 ELSE f[One(s)] + g[s \ {One(s)}]]
  <2>2. \A s \in SmallSubsets(S, n + 1) : s # {} => s \ {One(s)} \in SmallSubsets(S, n)
    <3>1. ASSUME NEW s \in SUBSET S, s # {}, Cardinality(s) <= n + 1
          PROVE  s \ {One(s)} \in SUBSET S /\ Cardinality(s \ {One(s)}) <= n
      <4>1. /\ s \ {One(s)} \in SUBSET S /\ Cardinality(s) \in Nat
            /\ Cardinality(s \ {One(s)}) = Cardinality(s) - 1
        BY <3>1, WithoutOne
      <4> QED BY <3>1, <4>1
    <3> QED BY <3>1 DEF SmallSubsets
  <2>3. \A s \in SmallSubsets(S, n) : s \in SmallSubsets(S, n + 1)
    <3>1. ASSUME NEW s \in SUBSET S, Cardinality(s) <= n
          PROVE  Cardinality(s) <= n + 1
      <4>1. Cardinality(s) \in Nat
        BY FS_Subset, FS_CardinalityType
      <4> QED BY <3>1, <4>1
    <3> QED BY <3>1 DEF SmallSubsets
  <2>4. \A s \in SmallSubsets(S, n) : h[s] = g[s]
    BY <2>1, <2>3 DEF IsSum
  <2>5. \A s \in SmallSubsets(S, n + 1) : h[s] = IF s = {} THEN 0 ELSE f[One(s)] + h[s \ {One(s)}]
    <3>1. \A s \in SmallSubsets(S, n + 1) : h[s] = IF s = {} THEN 0 ELSE f[One(s)] + g[s \ {One(s)}]
      OBVIOUS
    <3> HIDE DEF h
    <3> QED BY <2>2, <2>4, <3>1
  <2>6. h = [s \in SmallSubsets(S, n + 1) |-> h[s]]
    OBVIOUS
  <2> HIDE DEF h
  <2>7. IsSum(h, f, SmallSubsets(S, n + 1))
    BY <2>5, <2>6 DEF IsSum
  <2> QED BY <2>7
<1> HIDE DEF N
<1>3. N = Nat
  BY <1>1, <1>2, Induction DEF N
<1>4. Cardinality(S) \in Nat
  BY FS_CardinalityType
<1>5. SmallSubsets(S, Cardinality(S)) = SUBSET S
  BY FS_Subset DEF SmallSubsets
<1>6. \E g : IsSum(g, f, SUBSET S)
  <2>1. \E g : IsSum(g, f, SmallSubsets(S, Cardinality(S)))
    BY <1>3, <1>4 DEF N
  <2> QED BY <1>5, <2>1, Zenon
<1> QED BY <1>6

\* Two assignments that agree but for an amount moved from one member to
\* another have the same sum.
LEMMA MovesKeepSum ==
    ASSUME NEW S, IsFiniteSet(S), NEW f \in [S -> Int], NEW g \in [S -> Int],
           NEW F, IsSum(F, f, SUBSET S), NEW G, IsSum(G, g, SUBSET S),
           NEW from \in S, NEW to \in S, from # to, NEW d \in Int,
           g[from] = f[from] - d, g[to] = f[to] + d,
           \A x \in S \ {from, to} : g[x] = f[x]
    PROVE  G[S] = F[S]
<1> DEFINE shift(s) == (IF to \in s THEN d ELSE 0) - (IF from \in s THEN d ELSE 0)
           Right(s) == F[s] \in Int /\ G[s] = F[s] + shift(s)
           N == {n \in Nat : \A s \in SUBSET S : Cardinality(s) = n => Right(s)}
<1>1. IsSum(F, f, SUBSET S) /\ IsSum(G, g, SUBSET S)
  OBVIOUS
<1>2. 0 \in N
  <2>1. ASSUME NEW s \in SUBSET S, Cardinality(s) = 0
        PROVE  s = {}
    BY <2>1, WithoutOne
  <2>2. F[{}] = 0 /\ G[{}] = 0 /\ {} \in SUBSET S
    BY <1>1 DEF IsSum
  <2>3. Right({})
    BY <2>2
  <2> QED BY <2>1, <2>3
<1>3. ASSUME NEW n \in N
      PROVE  n + 1 \in N
  <2> SUFFICES ASSUME NEW s \in SUBSET S, Cardinality(s) = n + 1 PROVE Right(s)
    OBVIOUS
  <2> DEFINE rest == s \ {One(s)}
  <2>1. s # {}
    <3>1. n + 1 # 0 /\ Cardinality({}) = 0
      BY FS_EmptySet
    <3> QED BY <3>1
  <2>2. /\ One(s) \in s /\ One(s) \in S /\ rest \in SUBSET S /\ Cardinality(rest) = n
    BY <2>1, WithoutOne
  <2>3. F[s] = f[One(s)] + F[rest] /\ G[s] = g[One(s)] + G[rest]
    BY <1>1, <2>1 DEF IsSum
  <2>4. Right(rest)
    BY <2>2
  <2>5. shift(s) \in Int /\ shift(rest) \in Int /\ g[One(s)] + shift(rest) = f[One(s)] + shift(s)
    <3>1. f[One(s)] \in Int /\ g[One(s)] \in Int
      BY <2>2
    <3>2. to \in s <=> (to \in rest \/ to = One(s))
      BY <2>2
    <3>3. from \in s <=> (from \in rest \/ from = One(s))
      BY <2>2
    <3>4. One(s) \notin rest
      OBVIOUS
    <3> HIDE DEF rest
    <3>5. CASE One(s) = from
      BY <3>1, <3>2, <3>3, <3>4, <3>5
    <3>6. CASE One(s) = to
      BY <3>1, <3>2, <3>3, <3>4, <3>6
    <3>7. CASE One(s) \notin {from, to}
      BY <2>2, <3>1, <3>2, <3>3, <3>4, <3>7
    <3> QED BY <3>5, <3>6, <3>7
  <2>6. f[One(s)] \in Int /\ g[One(s)] \in Int
    BY <2>2
  <2> HIDE DEF rest, shift
  <2> QED BY <2>3, <2>4, <2>5, <2>6
<1> HIDE DEF N
<1>4. N = Nat
  BY <1>2, <1>3, Induction DEF N
<1>5. Right(S)
  <2>1. Cardinality(S) \in Nat /\ S \in SUBSET S
    BY FS_CardinalityType
  <2> QED BY <1>4, <2>1 DEF N
<1>6. shift(S) = 0
  OBVIOUS
<1> QED BY <1>5, <1>6

\* The cash of all accounts together, as a sum over a function.
CashOf(bs) == [a \in Accounts |-> bs[a].cash[Currency]]

Total(bs) == MapThenSumSet(LAMBDA a : bs[a].cash[Currency], Accounts)

\* The total the property counts is that sum.
LEMMA TotalIsSum ==
    ASSUME NEW bs
    PROVE  \E g : IsSum(g, CashOf(bs), SUBSET Accounts) /\ Total(bs) = g[Accounts]
<1> DEFINE h == CHOOSE g : g = [s \in SUBSET Accounts |->
                  IF s = {} THEN 0 ELSE bs[One(s)].cash[Currency] + g[s \ {One(s)}]]
<1>1. IsFiniteSet(Accounts)
  BY BotAssumption, FS_AddElement DEF Accounts
<1>2. \A s \in SUBSET Accounts : s # {} => CashOf(bs)[One(s)] = bs[One(s)].cash[Currency]
  BY DEF One, CashOf
<1>3. \A g : IsSum(g, CashOf(bs), SUBSET Accounts)
             <=> g = [s \in SUBSET Accounts |->
                        IF s = {} THEN 0 ELSE bs[One(s)].cash[Currency] + g[s \ {One(s)}]]
  BY <1>2 DEF IsSum
<1>4. PICK g : IsSum(g, CashOf(bs), SUBSET Accounts)
  BY <1>1, SumExists
<1>5. h = [s \in SUBSET Accounts |->
             IF s = {} THEN 0 ELSE bs[One(s)].cash[Currency] + h[s \ {One(s)}]]
  BY <1>3, <1>4
<1>6. Total(bs) = h[Accounts]
  BY DEF Total, MapThenSumSet, MapThenFoldSet, One
<1> HIDE DEF h
<1> QED BY <1>3, <1>5, <1>6

\* Before and after a step alike.
LEMMA TotalIsCash ==
    /\ MapThenSumSet(Cash, Accounts) = Total(books)
    /\ MapThenSumSet(Cash, Accounts)' = Total(books')
  BY DEF Total, Cash, MapThenSumSet, MapThenFoldSet

\* What one account hands another leaves the sum alone.
LEMMA TransferKeepsTotal ==
    ASSUME NEW bs \in [Accounts -> Book], \A a \in Accounts : Solvent(bs[a]),
           NEW from \in Accounts, NEW to \in Accounts, from # to,
           NEW amount \in Nat, amount <= bs[from].cash[Currency]
    PROVE  Total(Transferred(bs, from, to, amount)) = Total(bs)
<1> DEFINE after == Transferred(bs, from, to, amount)
           f == CashOf(bs)
           g == CashOf(after)
<1>1. /\ after \in [Accounts -> Book]
      /\ after[from].cash[Currency] = bs[from].cash[Currency] - amount
      /\ after[to].cash[Currency] = bs[to].cash[Currency] + amount
      /\ \A a \in Accounts \ {from, to} : after[a] = bs[a]
  BY TransferMovesCash
<1> HIDE DEF after
<1>2. IsFiniteSet(Accounts)
  BY BotAssumption, FS_AddElement DEF Accounts
<1>3. f \in [Accounts -> Int] /\ g \in [Accounts -> Int]
  BY <1>1, BotAssumption DEF CashOf, Book
<1>4. /\ g[from] = f[from] - amount /\ g[to] = f[to] + amount
      /\ \A a \in Accounts \ {from, to} : g[a] = f[a]
  BY <1>1 DEF CashOf
<1>5. PICK F : IsSum(F, f, SUBSET Accounts) /\ Total(bs) = F[Accounts]
  BY TotalIsSum
<1>6. PICK G : IsSum(G, g, SUBSET Accounts) /\ Total(after) = G[Accounts]
  BY TotalIsSum
<1> HIDE DEF f, g
<1>7. G[Accounts] = F[Accounts]
  BY <1>2, <1>3, <1>4, <1>5, <1>6, MovesKeepSum
<1> QED BY <1>5, <1>6, <1>7 DEF after

(***************************************************************************)
(* The steps.                                                              *)
(***************************************************************************)
\* A step that trades nothing leaves the money of all accounts together.
LEMMA StepKeepsMoney ==
    ASSUME BotInv, [Next]_vars, \A a \in Accounts : books'[a].portfolio = books[a].portfolio
    PROVE  MapThenSumSet(Cash, Accounts)' = MapThenSumSet(Cash, Accounts)
<1> USE DEF BotInv, EngineAgrees
<1> SUFFICES Total(books') = Total(books)
  BY TotalIsCash
<1>1. books \in [Accounts -> Book] /\ \A a \in Accounts : Solvent(books[a])
  BY DEF TypeOK, AccountsSolvent
<1>2. CASE UNCHANGED books
  BY <1>2
<1>3. CASE Create
  <2>1. PICK b \in Bots : /\ Allocation \in Nat /\ Allocation <= books[Manual].cash[Currency]
                          /\ books' = Transferred(books, Manual, b, Allocation)
    BY <1>3, CreateTouches
  <2>2. Manual \in Accounts /\ b \in Accounts /\ Manual # b
    BY BotAssumption DEF Accounts
  <2> QED BY <1>1, <2>1, <2>2, TransferKeepsTotal
<1>4. CASE \E r \in Requests : Stop(r)
  <2>1. PICK r \in Requests : Stop(r)
    BY <1>4
  <2> PICK b : b = request[r].bot
    OBVIOUS
  <2>2. PICK closed : ClosesFrom(b, closed)
    BY <2>1, StopCloses
  <2>3. b \in Accounts /\ Manual \in Accounts /\ b # Manual
    BY <2>1, StopCloses
  <2> DEFINE bs == [books EXCEPT ![b] = closed]
  <2>4. /\ bs \in [Accounts -> Book] /\ bs[b] = closed /\ \A a \in Accounts : Solvent(bs[a])
        /\ closed.cash[Currency] \in Nat
        /\ books' = Transferred(bs, b, Manual, closed.cash[Currency])
    <3>1. /\ closed \in Book /\ Solvent(closed)
          /\ books' = Transferred(bs, b, Manual, closed.cash[Currency])
      BY <2>2 DEF ClosesFrom
    <3>2. closed.cash[Currency] \in Nat
      BY <3>1, BotAssumption DEF Book, Solvent
    <3>3. /\ bs \in [Accounts -> Book] /\ bs[b] = closed
          /\ \A a \in Accounts \ {b} : bs[a] = books[a]
      BY <1>1, <2>3, <3>1
    <3>4. \A a \in Accounts : Solvent(bs[a])
      BY <1>1, <3>1, <3>3
    <3> QED BY <3>1, <3>2, <3>3, <3>4
  <2>5. books'[b].portfolio = closed.portfolio /\ Total(books') = Total(bs)
    <3> HIDE DEF bs
    <3>1. closed.cash[Currency] <= bs[b].cash[Currency]
      BY <2>4
    <3> QED BY <2>3, <2>4, <3>1, TransferMovesCash, TransferKeepsTotal
  <2>6. closed = books[b]
    <3>1. closed.portfolio = books[b].portfolio
      BY <2>3, <2>5
    <3>2. closed \in Book
      BY <2>2 DEF ClosesFrom
    <3>3. \A t \in Tickers : closed.portfolio[t].shares \in Int
      BY <3>2 DEF Book, Position
    <3>4. \A t \in Tickers : ~(closed.portfolio[t].shares < books[b].portfolio[t].shares)
      <4> SUFFICES ASSUME NEW t \in Tickers
                   PROVE  ~(closed.portfolio[t].shares < books[b].portfolio[t].shares)
        OBVIOUS
      <4>1. closed.portfolio[t].shares = books[b].portfolio[t].shares /\ closed.portfolio[t].shares \in Int
        BY <3>1, <3>3
      <4> QED BY <4>1
    <3> QED BY <2>2, <3>4, Zenon DEF ClosesFrom
  <2>7. bs = books
    BY <1>1, <2>3, <2>6
  <2> QED BY <2>5, <2>7
<1>5. CASE EngineSell
  <2> PICK x : x = view.bot
    OBVIOUS
  <2>1. PICK t \in DOMAIN view.shares, price \in Prices : Exits(x, t, price)
    BY <1>5 DEF EngineSell, Exits, EngineFills, MayTrade
  <2>2. ExitIsCurrent(x, t) /\ ExitLeaves(x, t)
    BY <2>1, ExitMovesBooks
  <2>3. HeldIn(x)' = HeldIn(x)
    BY <2>2, HoldingsFollow DEF ExitIsCurrent, SameHoldings
  <2> QED BY <2>2, <2>3 DEF ExitIsCurrent, ExitLeaves
<1>6. CASE EngineBuy
  <2> PICK x : x = view.bot
    OBVIOUS
  <2>1. PICK t \in Tickers, qty \in Quantities, price \in Prices : Enters(x, t, qty, price)
    BY <1>6 DEF EngineBuy, Enters, EngineFills, MayTrade
  <2>2. EntryIsCurrent(x, t, qty) /\ EntryLeaves(x, t, qty)
    BY <2>1, EntryMovesBooks
  <2>3. HeldIn(x)' = HeldIn(x)
    BY <2>2, HoldingsFollow DEF EntryIsCurrent, SameHoldings
  <2> QED BY <2>2, <2>3 DEF EntryIsCurrent, EntryLeaves
<1> QED BY <1>2, <1>3, <1>4, <1>5, <1>6, WhoWrites

\* An entry is of a symbol without a cooldown, and so of none sold today.
LEMMA StepKeepsCooldown ==
    ASSUME BotInv, Cooling, [Next]_vars, NEW b \in Bots, NEW t \in Tickers,
           ~Held(books[b], t), Held(books[b]', t)
    PROVE  <<b, t, engine.today>> \notin sold
<1> USE DEF BotInv, EngineAgrees
<1>1. t \notin HeldIn(b) /\ t \in HeldIn(b)'
  BY DEF HeldIn
<1>2. EngineBuy
  BY <1>1, StepsLeaveOthers
<1> PICK x : x = view.bot
  OBVIOUS
<1>3. PICK u \in Tickers, qty \in Quantities, price \in Prices : Enters(x, u, qty, price)
  BY <1>2 DEF EngineBuy, Enters, EngineFills, MayTrade
<1>4. EntryIsCurrent(x, u, qty) /\ EntryLeaves(x, u, qty)
  BY <1>3, EntryMovesBooks
<1>5. b = x /\ t = u
  <2>1. b # x => HeldIn(b)' = HeldIn(b)
    BY <1>4, HoldingsFollow DEF EntryLeaves, SameHoldings, Accounts
  <2> QED BY <1>1, <1>4, <2>1 DEF EntryLeaves
<1>6. /\ view # None /\ engine # None /\ Alive(view.bot) /\ view.state \in Plans
      /\ engine.today \in Days /\ view.state.cooldown[t] # engine.today
  BY <1>3, <1>4, <1>5 DEF Enters, MayEnter, EntryIsCurrent, Alive, TypeOK
<1>7. Today = engine.today /\ Remembers(b, view.state.cooldown, engine.today, sold)
  BY <1>5, <1>6 DEF Cooling, Today
<1>8. view.state.cooldown[t] \in Int /\ engine.today \in Int
  BY <1>6, BotAssumption DEF Plans, Days
<1> SUFFICES ASSUME <<b, t, engine.today>> \in sold PROVE FALSE
  OBVIOUS
<1>9. /\ view.state.cooldown[t] <= engine.today
      /\ engine.today <= view.state.cooldown[t] \/ engine.today < engine.today
  BY <1>7 DEF Remembers
<1> QED BY <1>6, <1>8, <1>9

\* Both invariants hold throughout.
LEMMA CoolingHolds == Spec => [](BotInv /\ Cooling)
<1>1. Init => BotInv /\ Cooling
  BY InitHasInv, InitCools
<1>2. BotInv /\ Cooling /\ [Next]_vars => (BotInv /\ Cooling)'
  BY NextKeepsInv, NextCools
<1> QED BY <1>1, <1>2, PTL DEF Spec

\* No step makes or loses money but a trade, touches a stopped bot, or buys
\* back what the bot sold that day.
THEOREM BotStepsKeepAccounts == Spec => StepsKeepTheAccounts
<1>1. BotInv /\ Cooling /\ [Next]_vars
      => [(\A a \in Accounts : books'[a].portfolio = books[a].portfolio)
             => MapThenSumSet(Cash, Accounts)' = MapThenSumSet(Cash, Accounts)]_vars
  BY StepKeepsMoney
<1>2. BotInv /\ Cooling /\ [Next]_vars
      => [\A b \in Bots : bots[b] = "stopped" =>
             bots'[b] = "stopped" /\ books'[b] = books[b]]_vars
  BY StepsLeaveOthers
<1>3. BotInv /\ Cooling /\ [Next]_vars
      => [\A b \in Bots, t \in Tickers : ~Held(books[b], t) /\ Held(books[b]', t)
             => <<b, t, engine.today>> \notin sold]_vars
  BY StepKeepsCooldown
<1> QED BY <1>1, <1>2, <1>3, CoolingHolds, PTL
        DEF Spec, StepsKeepTheAccounts, MoneyIsConserved, StoppedIsFinal, NoSameDayRebuy
=============================================================================
