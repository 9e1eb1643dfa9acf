------------------------- MODULE LedgerRulesProofs -------------------------
(***************************************************************************)
(* Lemmas about the bookkeeping rules, for the proofs about every account. *)
(***************************************************************************)
EXTENDS LedgerRules, WellFoundedInduction, TLAPS

\* A well-formed row has an integer cash effect, whoever pays for it.
LEMMA CashDeltaIsInt ==
    ASSUME NEW orders, NEW tx \in Rows(orders), NEW funded \in BOOLEAN
    PROVE  CashDelta(tx, funded) \in Int
<1>1. tx.qty \in Nat /\ tx.price \in Nat /\ tx.fees \in Nat
  BY DEF Rows
<1>2. Gross(tx) \in Int
  BY <1>1 DEF Gross
<1> QED BY <1>1, <1>2 DEF CashDelta

\* db._record_transaction keeps the tables solvent: what the rules accept
\* leaves no overdraft, no short position and no stray portfolio row.
LEMMA BookedKeepsSolvent ==
    ASSUME NEW orders, NEW tx \in Rows(orders), NEW funded \in BOOLEAN,
           NEW b \in Book, Solvent(b), Accepts(b, tx, funded)
    PROVE  Booked(b, tx, funded) \in Book /\ Solvent(Booked(b, tx, funded))
<1> DEFINE d == CashDelta(tx, funded)
           after == Booked(b, tx, funded)
           p == PositionAfter(b.portfolio[tx.ticker], tx)
<1>1. d \in Int
  BY CashDeltaIsInt
<1>2. /\ tx.currency \in Currencies /\ tx.currency # None
      /\ tx.qty \in Nat /\ tx.side \in Sides
      /\ ~IsCash(tx) => tx.ticker \in Tickers
  BY NoneAssumption DEF Rows
<1>3. /\ after.cash \in [Currencies -> Int]
      /\ \A c \in Currencies : after.cash[c] >= 0
  <2> HIDE DEF d
  <2>1. after.cash = [b.cash EXCEPT ![tx.currency] = @ + d]
    BY DEF Booked, d
  <2>2. b.cash \in [Currencies -> Int] /\ b.cash[tx.currency] + d >= 0
    BY <1>2 DEF Book, Accepts, NoOverdraft, d
  <2> QED BY <1>1, <1>2, <2>1, <2>2 DEF Solvent
<1>4. after.portfolio = WithPosition(b, tx)
  BY DEF Booked
<1>5. CASE IsCash(tx)
  <2>1. after.portfolio = b.portfolio
    BY <1>4, <1>5 DEF WithPosition
  <2> QED BY <1>3, <2>1 DEF Book, Solvent, Held, Booked
<1>6. CASE ~IsCash(tx)
  <2>1. /\ tx.ticker \in Tickers
        /\ b.portfolio \in [Tickers -> Position]
        /\ b.portfolio[tx.ticker].shares \in Int
        /\ b.portfolio[tx.ticker].shares >= 0
    BY <1>2, <1>6 DEF Book, Position, Solvent
  <2>2. SharesAfter(b.portfolio[tx.ticker].shares, tx) \in Nat
    BY <1>2, <1>6, <2>1 DEF SharesAfter, Accepts, NoShortSale, Sides, TradeSides, CashSides, IsCash
  <2>3. /\ p \in Position
        /\ p.shares >= 0
        /\ p.shares > 0 <=> p.currency # None
    BY <1>2, <2>2 DEF PositionAfter, Position, NotHeld
  <2>4. after.portfolio = [b.portfolio EXCEPT ![tx.ticker] = p]
    BY <1>4, <1>6 DEF WithPosition
  <2> HIDE DEF p
  <2>5. /\ after.portfolio \in [Tickers -> Position]
        /\ \A t \in Tickers : /\ after.portfolio[t].shares >= 0
                              /\ Held(after, t) <=> after.portfolio[t].currency # None
    BY <2>1, <2>3, <2>4 DEF Solvent, Held
  <2> QED BY <1>3, <2>5 DEF Book, Solvent, Booked
<1> QED BY <1>5, <1>6

(***************************************************************************)
(* Replay.  What it computes for every ledger is proved by induction on    *)
(* the number of rows, from the well-foundedness of < on the naturals.     *)
(***************************************************************************)
LEMMA Induction ==
    ASSUME NEW S \in SUBSET Nat, 0 \in S, \A n \in S : n + 1 \in S
    PROVE  S = Nat
<1> DEFINE T == Nat \ S
           R == {ss \in Nat \X Nat : ss[1] < ss[2]}
<1> SUFFICES ASSUME T # {} PROVE FALSE
  OBVIOUS
<1>1. IsWellFoundedOn(R, Nat)
  BY NatLessThanWellFounded DEF OpToRel
<1>2. \A x \in T : x - 1 \in T /\ <<x - 1, x>> \in R
  OBVIOUS
<1> HIDE DEF R, T
<1>3. T \subseteq Nat
  BY DEF T
<1>4. PICK x \in T : \A y \in T : <<y, x>> \notin R
  BY <1>1, <1>3, WFMin
<1> QED BY <1>2, <1>4

\* The tables after each of the first n rows.
After(f, book, rows, n) ==
    f = [i \in 0..n |-> IF i = 0 THEN book ELSE Replayed(f[i - 1], rows[i])]

\* The recursive function that books the first n rows exists, one row at a time.
LEMMA AfterExists ==
    ASSUME NEW book, NEW rows, NEW n \in Nat
    PROVE  \E f : After(f, book, rows, n)
<1> DEFINE S == {k \in Nat : \E f : After(f, book, rows, k)}
<1>1. 0 \in S
  <2>1. After([i \in 0..0 |-> book], book, rows, 0)
    BY DEF After
  <2> QED BY <2>1
<1>2. ASSUME NEW k \in S
      PROVE  k + 1 \in S
  <2>1. PICK f : After(f, book, rows, k)
    OBVIOUS
  <2> DEFINE g == [i \in 0..(k + 1) |-> IF i = 0 THEN book ELSE Replayed(f[i - 1], rows[i])]
  <2>2. \A i \in 0..k : g[i] = f[i]
    BY <2>1 DEF After
  <2>3. \A i \in 0..(k + 1) : g[i] = IF i = 0 THEN book ELSE Replayed(g[i - 1], rows[i])
    <3>1. \A i \in 0..(k + 1) : i # 0 => i - 1 \in 0..k
      OBVIOUS
    <3> HIDE DEF g
    <3>2. \A i \in 0..(k + 1) : g[i] = IF i = 0 THEN book ELSE Replayed(f[i - 1], rows[i])
      BY DEF g
    <3> QED BY <2>2, <3>1, <3>2
  <2>4. After(g, book, rows, k + 1)
    <3>1. g = [i \in 0..(k + 1) |-> g[i]]
      OBVIOUS
    <3> HIDE DEF g
    <3> QED BY <2>3, <3>1 DEF After
  <2> QED BY <2>4
<1> HIDE DEF S
<1>3. S = Nat
  BY <1>1, <1>2, Induction DEF S
<1> QED BY <1>3 DEF S

\* Ledgers that begin with the same k rows give the same tables after them.
LEMMA AfterAgrees ==
    ASSUME NEW f, NEW g, NEW book, NEW rows, NEW others, NEW m \in Nat, NEW n \in Nat, NEW k \in Nat,
           After(f, book, rows, m), After(g, book, others, n), k <= m, k <= n,
           \A i \in 1..k : rows[i] = others[i]
    PROVE  f[k] = g[k]
<1> DEFINE S == {i \in Nat : i <= k => f[i] = g[i]}
<1>1. 0 \in S
  BY DEF After
<1>2. ASSUME NEW i \in S
      PROVE  i + 1 \in S
  <2> SUFFICES ASSUME i + 1 <= k PROVE f[i + 1] = g[i + 1]
    OBVIOUS
  <2>1. f[i] = g[i] /\ i + 1 \in 1..k /\ i + 1 \in 0..m /\ i + 1 \in 0..n /\ i + 1 # 0 /\ (i + 1) - 1 = i
    OBVIOUS
  <2>2. f[i + 1] = Replayed(f[i], rows[i + 1]) /\ g[i + 1] = Replayed(g[i], others[i + 1])
    BY <2>1 DEF After
  <2> QED BY <2>1, <2>2
<1> HIDE DEF S
<1>3. S = Nat
  BY <1>1, <1>2, Induction DEF S
<1> QED BY <1>3 DEF S

\* Booking a sequence of rows is that function at the sequence's length.
LEMMA AfterEachIsAfter ==
    ASSUME NEW book, NEW rows, Len(rows) \in Nat
    PROVE  After(AfterEach(book, rows), book, rows, Len(rows))
<1> DEFINE g == CHOOSE h : h = [i \in 0..Len(rows) |-> IF i = 0 THEN book
                                                      ELSE Replayed(h[i - 1], rows[i])]
<1>1. PICK f : After(f, book, rows, Len(rows))
  BY AfterExists
<1>2. After(g, book, rows, Len(rows))
  BY <1>1 DEF After
<1>3. AfterEach(book, rows) = g
  BY DEF AfterEach
<1> QED BY <1>2, <1>3

\* The replay of no row, and of one row more.
LEMMA ReplayOfNone == Replay(<<>>) = EmptyBook
<1>1. Len(<<>>) = 0
  OBVIOUS
<1> QED BY <1>1, AfterEachIsAfter DEF Replay, After

\* One more row is booked on the replay of the rows before it.
LEMMA ReplayOfAppend ==
    ASSUME NEW S, NEW rows \in Seq(S), NEW row \in S
    PROVE  Replay(Append(rows, row)) = Replayed(Replay(rows), row)
<1> DEFINE more == Append(rows, row)
           n == Len(rows)
           f == AfterEach(EmptyBook, rows)
           g == AfterEach(EmptyBook, more)
<1>1. /\ n \in Nat /\ Len(more) = n + 1 /\ more[n + 1] = row
      /\ \A i \in 1..n : more[i] = rows[i]
  OBVIOUS
<1>2. Replay(rows) = f[n] /\ Replay(more) = g[Len(more)]
  BY DEF Replay
<1> HIDE DEF more
<1>3. After(f, EmptyBook, rows, n) /\ After(g, EmptyBook, more, n + 1)
  BY <1>1, AfterEachIsAfter
<1> HIDE DEF n, f, g
<1>4. f[n] = g[n]
  BY <1>1, <1>3, AfterAgrees
<1>5. g[n + 1] = Replayed(g[n], row)
  BY <1>1, <1>3 DEF After
<1> QED BY <1>1, <1>2, <1>4, <1>5 DEF more

\* A booking is the replay of the row it stores.
LEMMA BookedIsReplayed ==
    ASSUME NEW b, NEW tx, NEW funded
    PROVE  Booked(b, tx, funded) = Replayed(b, Stored(tx, funded))
  BY DEF Booked, Replayed, Stored, WithPosition, PositionAfter, SharesAfter, IsCash

\* What replay gives for a ledger stays what it gives for its beginning.
LEMMA ReplayOfBeginning ==
    ASSUME NEW S, NEW rows \in Seq(S), NEW row \in S
    PROVE  /\ SubSeq(rows, 1, Len(rows)) = rows
           /\ \A k \in 0..Len(rows) : SubSeq(Append(rows, row), 1, k) = SubSeq(rows, 1, k)
  OBVIOUS
=============================================================================
