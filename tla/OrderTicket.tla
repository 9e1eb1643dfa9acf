---------------------------- MODULE OrderTicket ----------------------------
(***************************************************************************)
(* OrderTicket.jsx: one opening of the order ticket, from the empty form   *)
(* to the placed order.  What a field holds is abstracted to where it came *)
(* from: nothing, the user, or the defaults of some ticker and side.       *)
(***************************************************************************)
EXTENDS Naturals

CONSTANTS
    Tickers,        \* what can be typed into the ticker field
    NoTicker,       \* the empty field
    MaxSteps,       \* bound: what the user does
    MaxLosses       \* bound: answers that never come (the 20 s abort)

VARIABLES
    given,          \* the ticker the page opened the ticket with; NoTicker makes it a field
    form,           \* the fields
    step,           \* "form", "review", "done" or "closed"
    pending,        \* a confirm waits for its answer
    lookup,         \* the defaults asked for by the running effect: "none", "due", "asked"
    late,           \* lookups whose effect was cleaned up, still on their way
    order,          \* the order request: where it is, and what it carries
    accepted,       \* orders the broker took
    lost,           \* answers of orders it took that never came
    actions, losses

vars == <<given, form, step, pending, lookup, late, order, accepted, lost, actions, losses>>

Sides  == {"BUY", "SELL"}
Blank  == [from |-> "blank", ticker |-> NoTicker, side |-> "BUY"]
Typed  == [from |-> "typed", ticker |-> NoTicker, side |-> "BUY"]
Wrong  == [from |-> "wrong", ticker |-> NoTicker, side |-> "BUY"]        \* not above 0
Suggested(ticker, side) == [from |-> "defaults", ticker |-> ticker, side |-> side]
Opened == [from |-> "page", ticker |-> NoTicker, side |-> "BUY"]         \* the `qty` prop

\* The plan's stop and its target are treated alike: one field here.
Fields == {"qty", "plan"}
NoOrder == [at |-> "none", ticker |-> NoTicker, side |-> "BUY", qty |-> Blank, plan |-> Blank]

\* What confirm() sends: the plan goes with a purchase only.
Body(f) ==
    [at |-> "sent", ticker |-> f.ticker, side |-> f.side, qty |-> f.qty,
     plan |-> IF f.side = "BUY" THEN f.plan ELSE Blank]

TypeOK ==
    /\ given \in Tickers \cup {NoTicker}
    /\ form.ticker \in Tickers \cup {NoTicker} /\ form.side \in Sides
    /\ \A k \in Fields : form[k].from \in {"blank", "typed", "wrong", "defaults", "page"}
    /\ step \in {"form", "review", "done", "closed"} /\ pending \in BOOLEAN
    /\ lookup \in {"none", "due", "asked"} /\ late \in BOOLEAN
    /\ order.at \in {"none", "sent", "accepted", "refused"}
    /\ actions \in 0..MaxSteps /\ losses \in 0..MaxLosses

Init ==
    /\ given \in Tickers \cup {NoTicker}
    /\ \E side \in Sides, qty \in {Blank, Opened} :
          form = [ticker |-> given, side |-> side, qty |-> qty, plan |-> Blank]
    /\ step = "form" /\ pending = FALSE
    /\ lookup = (IF given = NoTicker THEN "none" ELSE "due") /\ late = FALSE
    /\ order = NoOrder /\ accepted = 0 /\ lost = 0
    /\ actions = 0 /\ losses = 0

UserActs == actions < MaxSteps /\ actions' = actions + 1

(***************************************************************************)
(* The form.  Changing the ticker or the side cleans the effect up and     *)
(* runs it again: another 250 ms, another lookup.                          *)
(***************************************************************************)
Restarts(f) ==
    /\ form' = f
    /\ late' = (late \/ lookup = "asked")
    /\ lookup' = IF f.ticker = NoTicker THEN "none" ELSE "due"

ChangeTicker(ticker) ==
    /\ step = "form" /\ given = NoTicker /\ ticker # form.ticker /\ UserActs
    /\ Restarts([form EXCEPT !.ticker = ticker])
    /\ UNCHANGED <<given, step, pending, order, accepted, lost, losses>>

ChangeSide ==
    /\ step = "form" /\ UserActs
    /\ Restarts([form EXCEPT !.side = IF @ = "BUY" THEN "SELL" ELSE "BUY"])
    /\ UNCHANGED <<given, step, pending, order, accepted, lost, losses>>

\* The plan's fields are there for a purchase only.
Type(field, value) ==
    /\ step = "form" /\ UserActs
    /\ field = "qty" \/ form.side = "BUY"
    /\ form' = [form EXCEPT ![field] = value]
    /\ UNCHANGED <<given, step, pending, lookup, late, order, accepted, lost, losses>>

LookupDue ==
    /\ lookup = "due" /\ lookup' = "asked"
    /\ UNCHANGED <<given, form, step, pending, late, order, accepted, lost, actions, losses>>

\* Mutant: the defaults are put in whatever is there.
Fill_anyway(value, ticker, side) == Suggested(ticker, side)

\* Every `v || ...` of the effect: what is there stays.
Fill(value, ticker, side) == IF value = Blank THEN Suggested(ticker, side) ELSE value

Filled(f, fields) == [k \in DOMAIN f |-> IF k \in fields THEN Fill(f[k], f.ticker, f.side) ELSE f[k]]

\* The answer names those of the fields it has a value for: no size without a stop, no plan
\* where no analysis is stored.  It comes whatever step the ticket is at.
DefaultsArrive(fields) ==
    /\ lookup = "asked" /\ step # "closed"
    /\ lookup' = "none"
    /\ form' = Filled(form, fields)
    /\ UNCHANGED <<given, step, pending, late, order, accepted, lost, actions, losses>>

DefaultsFail ==
    /\ losses < MaxLosses /\ losses' = losses + 1
    /\ lookup = "asked" /\ lookup' = "none"
    /\ UNCHANGED <<given, form, step, pending, late, order, accepted, lost, actions>>

\* An answer to an effect that is gone: its `live` is false.
LateDefaults ==
    /\ late /\ late' = FALSE
    /\ UNCHANGED <<given, form, step, pending, lookup, order, accepted, lost, actions, losses>>

(***************************************************************************)
(* Review, Back, Confirm, Close.  Back is offered while an order is being  *)
(* placed, and the form it returns to can be changed; Confirm is not.      *)
(***************************************************************************)
Valid(f) ==
    /\ f.ticker # NoTicker
    /\ f.qty \notin {Blank, Wrong}
    /\ f.side = "BUY" => f.plan # Wrong

toReview ==
    /\ step = "form" /\ Valid(form) /\ UserActs
    /\ step' = "review"
    /\ UNCHANGED <<given, form, pending, lookup, late, order, accepted, lost, losses>>

Back ==
    /\ step = "review" /\ UserActs
    /\ step' = "form"
    /\ UNCHANGED <<given, form, pending, lookup, late, order, accepted, lost, losses>>

\* Mutant: Confirm is not disabled.
Confirmable_always == TRUE

Confirmable == ~pending

confirm ==
    /\ step = "review" /\ Confirmable /\ UserActs
    /\ pending' = TRUE /\ order' = Body(form)
    /\ UNCHANGED <<given, form, step, lookup, late, accepted, lost, losses>>

Close ==
    /\ step # "closed" /\ UserActs
    /\ step' = "closed" /\ late' = (late \/ lookup = "asked") /\ lookup' = "none"
    /\ UNCHANGED <<given, form, pending, order, accepted, lost, losses>>

(***************************************************************************)
(* The order route, and its answer.  Only the ticket that is still open    *)
(* has a state to change.                                                  *)
(***************************************************************************)
Handle(verdict) ==
    /\ order.at = "sent" /\ order' = [order EXCEPT !.at = verdict]
    /\ accepted' = accepted + (IF verdict = "accepted" THEN 1 ELSE 0)
    /\ UNCHANGED <<given, form, step, pending, lookup, late, lost, actions, losses>>

Show(next) == step' = IF step = "closed" THEN step ELSE next

Answer ==
    /\ order.at \in {"accepted", "refused"} /\ order' = NoOrder
    /\ pending' = FALSE
    /\ Show(IF order.at = "accepted" THEN "done" ELSE "form")
    /\ UNCHANGED <<given, form, lookup, late, accepted, lost, actions, losses>>

Lose ==
    /\ losses < MaxLosses /\ losses' = losses + 1
    /\ order.at # "none" /\ order' = NoOrder
    /\ lost' = lost + (IF order.at = "accepted" THEN 1 ELSE 0)
    /\ pending' = FALSE /\ Show("form")
    /\ UNCHANGED <<given, form, lookup, late, accepted, actions>>

Next ==
    \/ \E ticker \in Tickers \cup {NoTicker} : ChangeTicker(ticker)
    \/ \E field \in Fields, value \in {Blank, Typed, Wrong} : Type(field, value)
    \/ \E fields \in SUBSET Fields : DefaultsArrive(fields)
    \/ \E verdict \in {"accepted", "refused"} : Handle(verdict)
    \/ ChangeSide \/ LookupDue \/ DefaultsFail \/ LateDefaults
    \/ toReview \/ Back \/ confirm \/ Close \/ Answer \/ Lose

Fairness ==
    /\ WF_vars(\E verdict \in {"accepted", "refused"} : Handle(verdict)) /\ WF_vars(Answer)

Spec == Init /\ [][Next]_vars /\ Fairness

\* One ticket places one order, plus one for every time an accepted order's answer was lost
\* and the ticket sent again: Back, a second review and Enter place none while one is being placed.
OneOrderPerTicket == accepted <= 1 + lost

\* A value the user typed is only ever changed by the user, whatever defaults come late.
TypedValuesAreKept ==
    [][ \A k \in Fields : (form[k] = Typed /\ form'[k] # Typed) => actions' = actions + 1 ]_vars

\* The numbers the ticket filled in are those of the order's ticker and side (OrderTicket.jsx
\* 50-51: "pre-filled from the stored analysis (size from your risk %, stop from ...)").
PrefillsAreTheOrders ==
    order.at # "none" =>
        \A k \in Fields : order[k].from = "defaults" => order[k] = Suggested(order.ticker, order.side)
=============================================================================
