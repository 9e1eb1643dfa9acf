--------------------------- MODULE PortfolioTotals ---------------------------
(***************************************************************************)
(* The totals of the portfolio page: positions and cash in several         *)
(* currencies, added up in a base currency at live rates (portfolioMath.js *)
(* and PortfolioPanel.jsx), with the rates polled for one base at a time   *)
(* (useFxRates.js) and the base switched before it is saved (useProfile.js). *)
(*                                                                         *)
(* An amount is told apart by its currency only, and a rate by the base it *)
(* was fetched for.                                                        *)
(***************************************************************************)
EXTENDS Naturals, FiniteSets

CONSTANTS
    Currencies, Default,    \* the base before the profile has come
    Positions,              \* [ccy, quoted]: what can be held
    MaxMoves,               \* bound: what the user does, and the market
    MaxLosses               \* bound: requests that fail

NoBase == "none"

VARIABLES
    held, cash,     \* the positions, and the currencies with a balance
    base, kept,     \* the base on the page, and the one the server has
    fx,             \* useFxRates: [base, priced]
    ask,            \* the request for rates: [base, key, at, priced]
    saves,          \* of the profile: [n, op, to, back, at]
    quotable,       \* the currencies Yahoo prices now
    doubtful,       \* history: two requests of the profile crossed, or one was lost
    moves, losses

vars == <<held, cash, base, kept, fx, ask, saves, quotable, doubtful, moves, losses>>

TypeOK ==
    /\ held \subseteq Positions /\ cash \subseteq Currencies /\ quotable \subseteq Currencies
    /\ base \in Currencies /\ kept \in Currencies
    /\ fx.base \in Currencies \cup {NoBase} /\ fx.priced \subseteq Currencies
    /\ ask.at \in {"sent", "answered", "over"} /\ ask.priced \subseteq ask.key
    /\ \A s \in saves : s.op \in {"load", "save"} /\ s.at \in {"sent", "taken", "refused"}
    /\ doubtful \in BOOLEAN /\ moves \in 0..MaxMoves /\ losses \in 0..MaxLosses

(***************************************************************************)
(* What the page shows.                                                    *)
(***************************************************************************)
\* Rates fetched for another base are not rates for this one.
Rates == IF fx.base = base THEN fx.priced ELSE {}

\* convertAmount: both ends need a rate.
Convertible(from, to) == from = to \/ {from, to} \subseteq Rates

\* summarizeByCurrency and convertCash: a position without a price in its own currency is
\* skipped; what has no rate into the base is excluded.
Valued          == {p \in held : Convertible(p.quoted, p.ccy)}
ByCurrency      == {p.ccy : p \in Valued}
HasRate(c)      == c = base \/ c \in Rates
Excluded        == {c \in ByCurrency : ~HasRate(c)}
Counted         == {c \in ByCurrency \cup cash : HasRate(c)}
ExcludedOfCash  == {c \in cash : ~HasRate(c)}

\* The cards: "..." until the first rates come; "FX unavailable" for what is left out, beside the
\* cards, in the row of a position without a price, in the head of the cash.
Loading == fx.base # base
Pending == Loading /\ ByCurrency \ {base} # {}
Said    == [positions |-> IF Loading THEN {} ELSE Excluded, rows |-> held \ Valued, cash |-> ExcludedOfCash]

(***************************************************************************)
(* The rates: asked for when the base or the currencies change, and every  *)
(* minute.  A request gives up long before the next poll, and the answer   *)
(* to one made for another base or other currencies is dropped.            *)
(***************************************************************************)
Needed(h, c) == {p.ccy : p \in h} \cup {p.quoted : p \in h} \cup c

Request(b, key) == [base |-> b, key |-> key, at |-> "sent", priced |-> {}]

\* The effect of [base, key] after a step, its clean-up included.
Effect ==
    ask' = IF base' = base /\ Needed(held', cash') = Needed(held, cash) THEN ask
           ELSE Request(base', Needed(held', cash'))

Init ==
    /\ held \in {{}, Positions} /\ cash \in {{}, {Default}}
    /\ base = Default /\ kept \in Currencies
    /\ fx = [base |-> NoBase, priced |-> {}]
    /\ quotable = Currencies /\ doubtful = FALSE /\ moves = 0 /\ losses = 0
    /\ ask = Request(base, Needed(held, cash))
    /\ saves = {[n |-> 0, op |-> "load", to |-> Default, back |-> Default, at |-> "sent"]}

Poll ==
    /\ ask.at = "over" /\ ask' = Request(base, Needed(held, cash))
    /\ UNCHANGED <<held, cash, base, kept, fx, saves, quotable, doubtful, moves, losses>>

\* The server prices what it can; a currency without a quote comes back as null.
RatesHandled ==
    /\ ask.at = "sent"
    /\ ask' = [ask EXCEPT !.at = "answered",
                          !.priced = {c \in ask.key : c = ask.base \/ {c, ask.base} \subseteq quotable}]
    /\ UNCHANGED <<held, cash, base, kept, fx, saves, quotable, doubtful, moves, losses>>

RatesArrive ==
    /\ ask.at = "answered" /\ ask' = [ask EXCEPT !.at = "over"]
    /\ fx' = [base |-> ask.base, priced |-> ask.priced]
    /\ UNCHANGED <<held, cash, base, kept, saves, quotable, doubtful, moves, losses>>

\* The last good rates stay.
RatesFail ==
    /\ ask.at # "over" /\ losses < MaxLosses /\ losses' = losses + 1
    /\ ask' = [ask EXCEPT !.at = "over"]
    /\ UNCHANGED <<held, cash, base, kept, fx, saves, quotable, doubtful, moves>>

(***************************************************************************)
(* The user, and the market.                                               *)
(***************************************************************************)
Move == moves < MaxMoves /\ moves' = moves + 1

\* A position is bought or sold, a balance appears or is spent.
Trade(p) ==
    /\ Move /\ held' = IF p \in held THEN held \ {p} ELSE held \cup {p}
    /\ UNCHANGED <<cash, base, kept, fx, saves, quotable, doubtful, losses>> /\ Effect

MoveCash(c) ==
    /\ Move /\ cash' = IF c \in cash THEN cash \ {c} ELSE cash \cup {c}
    /\ UNCHANGED <<held, base, kept, fx, saves, quotable, doubtful, losses>> /\ Effect

Quotes(c) ==
    /\ Move /\ quotable' = IF c \in quotable THEN quotable \ {c} ELSE quotable \cup {c}
    /\ UNCHANGED <<held, cash, base, kept, fx, ask, saves, doubtful, losses>>

\* changeBase: the page switches at once, and saves.
changeBase(next) ==
    /\ next # base /\ Move /\ base' = next
    /\ saves' = saves \cup {[n |-> moves', op |-> "save", to |-> next, back |-> base, at |-> "sent"]}
    /\ doubtful' = (doubtful \/ saves # {})
    /\ UNCHANGED <<held, cash, kept, fx, quotable, losses>> /\ Effect

\* The profile's routes; what they answer is the profile as it is then.
ProfileHandled(s, verdict) ==
    /\ s.at = "sent" /\ (verdict = "refused" => s.op = "save")
    /\ kept' = IF s.op = "save" /\ verdict = "taken" THEN s.to ELSE kept
    /\ saves' = (saves \ {s}) \cup {[s EXCEPT !.at = verdict, !.to = kept']}
    /\ UNCHANGED <<held, cash, base, fx, ask, quotable, doubtful, moves, losses>>

ProfileArrives(s) ==
    /\ s.at = "taken" /\ saves' = saves \ {s} /\ base' = s.to
    /\ UNCHANGED <<held, cash, kept, fx, quotable, doubtful, moves, losses>> /\ Effect

Undone(s) == IF s.op = "save" THEN s.back ELSE base

SaveRefused(s) ==
    /\ s.at = "refused" /\ saves' = saves \ {s} /\ base' = Undone(s)
    /\ UNCHANGED <<held, cash, kept, fx, quotable, doubtful, moves, losses>> /\ Effect

ProfileLost(s) ==
    /\ losses < MaxLosses /\ losses' = losses + 1
    /\ saves' = saves \ {s} /\ base' = Undone(s) /\ doubtful' = TRUE
    /\ UNCHANGED <<held, cash, kept, fx, quotable, moves>> /\ Effect

Next ==
    \/ Poll \/ RatesHandled \/ RatesArrive \/ RatesFail
    \/ \E p \in Positions : Trade(p)
    \/ \E c \in Currencies : MoveCash(c) \/ Quotes(c) \/ changeBase(c)
    \/ \E s \in saves :
          \/ \E verdict \in {"taken", "refused"} : ProfileHandled(s, verdict)
          \/ ProfileArrives(s) \/ SaveRefused(s) \/ ProfileLost(s)

Fairness ==
    WF_vars(Poll) /\ WF_vars(RatesHandled) /\ WF_vars(RatesArrive)

Spec == Init /\ [][Next]_vars /\ Fairness

\* "Money with no rate is excluded (and reported), never guessed" (portfolioMath.js 1-3): what a
\* total counts was converted with a rate into the base it is displayed in, and everything held is
\* counted, said to be left out, or in a total that is still pending.
TotalsAreHonest ==
    /\ \A c \in Counted : c = base \/ fx.base = base
    /\ \A p \in held : Pending \/ p.ccy \in Counted \cup Said.positions \/ p \in Said.rows
    /\ \A c \in cash : c \in Counted \cup Said.cash

\* Unless two requests crossed or one was lost, the base on the page is the one the server has once
\* everything is answered: a switch is saved, or undone.
BaseSettles == (saves = {} /\ ~doubtful) => base = kept

\* A switch of the base does not leave the totals pending: rates for the base that is shown come.
RatesCome == Loading ~> ~Loading

\* changeBase is "optimistic" (PortfolioPanel.jsx 170): whatever crossed, the base on the page is
\* in the end the one the server has.
ShownBaseIsSaved == (saves = {} /\ losses = 0) => base = kept
==============================================================================
