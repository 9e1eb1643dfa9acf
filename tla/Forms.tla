------------------------------- MODULE Forms -------------------------------
(***************************************************************************)
(* The forms and confirmations of the dashboard: each is opened, filled in *)
(* and submitted, waits for the server, and shows what came of it.  The    *)
(* table Policy says in what they differ; the actions are the machine they *)
(* share.  One form is chosen at the start and runs for the whole          *)
(* behaviour.                                                              *)
(*                                                                         *)
(* An input is told apart by when it was made: the opening it was typed in *)
(* and a number that grows with every edit.                                *)
(***************************************************************************)
EXTENDS Naturals, FiniteSets

CONSTANTS
    MaxOpenings,    \* bound
    MaxEdits,       \* bound
    MaxSubmits,     \* bound: requests made
    MaxLosses       \* bound: answers that never come

(***************************************************************************)
(* lives : where its state is kept - "opening" (a component of its own for *)
(*         every opening), "panel" (the panel around it: the state stays   *)
(*         when it closes) or "page" (it is always open)                   *)
(* guard : submitting is disabled while an answer is awaited               *)
(* early : it closes when it is submitted, not when the answer comes       *)
(* after : what a success does - "close" it, "clear" the input, "settle" it *)
(*         (what was sent is no longer a change), "none"                   *)
(* tells : a failure is shown                                              *)
(* wipes : when a message goes: at "open", "close", "submit" or "success"  *)
(***************************************************************************)
Dialog ==
    [lives |-> "opening", guard |-> TRUE, early |-> FALSE, after |-> "close", tells |-> TRUE, wipes |-> {}]
Panel == [Dialog EXCEPT !.lives = "panel"]
Card  == [Dialog EXCEPT !.lives = "page", !.after = "clear", !.wipes = {"submit"}]

SellDialog     == Dialog
NewBotDialog   == [Dialog EXCEPT !.wipes = {"submit"}]
DraftDialog    == [Dialog EXCEPT !.wipes = {"submit"}]
ExitRuleDialog == [Dialog EXCEPT !.wipes = {"submit"}]
ReleaseTradingDialog == [Dialog EXCEPT !.wipes = {"submit"}]
ConfirmDialog  == [Panel EXCEPT !.wipes = {"close", "success"}]
CashBalances   == [Panel EXCEPT !.wipes = {"open", "success"}]
EditHolding    == [Panel EXCEPT !.guard = FALSE, !.tells = FALSE]
WatchNote      == [Panel EXCEPT !.guard = FALSE, !.early = TRUE, !.after = "none"]
NameList       == [WatchNote EXCEPT !.tells = FALSE]
AddHolding     == [Card EXCEPT !.wipes = {"success"}]
AddWatch       == [Card EXCEPT !.wipes = {"success"}]
GuardrailsCard == Card
DrawdownSwitch == Card
ScannerAlertsCard == [Card EXCEPT !.after = "settle"]
BrokerTab      == Card
CancelPaper    == [Card EXCEPT !.guard = FALSE, !.after = "none", !.wipes = {"success"}]
FundPaper      == [CancelPaper EXCEPT !.after = "clear", !.tells = FALSE, !.wipes = {}]

Policy ==
    [SellDialog |-> SellDialog, NewBotDialog |-> NewBotDialog, DraftDialog |-> DraftDialog,
     ExitRuleDialog |-> ExitRuleDialog,
     ReleaseTradingDialog |-> ReleaseTradingDialog, ConfirmDialog |-> ConfirmDialog,
     CashBalances |-> CashBalances, EditHolding |-> EditHolding, WatchNote |-> WatchNote,
     NameList |-> NameList, AddHolding |-> AddHolding, AddWatch |-> AddWatch,
     GuardrailsCard |-> GuardrailsCard, DrawdownSwitch |-> DrawdownSwitch,
     ScannerAlertsCard |-> ScannerAlertsCard, BrokerTab |-> BrokerTab,
     CancelPaper |-> CancelPaper, FundPaper |-> FundPaper]

VARIABLES
    kind,           \* the form that runs
    opening,        \* the opening on the screen; 0 while it is closed
    openings,       \* openings so far
    input,          \* the edit the fields hold; 0 for the ones it opened with
    edits,          \* edits so far
    waiting,        \* `pending`
    message,        \* the opening whose failure is shown; 0 for none
    requests,       \* what was submitted and not answered yet
    applied,        \* the server: the inputs it took, each with how often
    lost,           \* inputs whose answer was lost after the server took them
    submits, losses

vars == <<kind, opening, openings, input, edits, waiting, message, requests, applied, lost, submits, losses>>

P == Policy[kind]

Inputs == (1..MaxOpenings) \X (0..MaxEdits)

TypeOK ==
    /\ kind \in DOMAIN Policy
    /\ opening \in 0..openings /\ openings \in 0..MaxOpenings /\ input \in 0..edits /\ edits \in 0..MaxEdits
    /\ waiting \in BOOLEAN /\ message \in 0..MaxOpenings
    /\ \A r \in requests : r.input \in Inputs /\ r.at \in {"sent", "taken", "refused"}
    /\ applied \in [Inputs -> Nat] /\ lost \in [Inputs -> Nat]
    /\ submits \in 0..MaxSubmits /\ losses \in 0..MaxLosses

Init ==
    /\ kind \in DOMAIN Policy
    /\ opening = (IF P.lives = "page" THEN 1 ELSE 0) /\ openings = opening
    /\ input = 0 /\ edits = 0 /\ waiting = FALSE /\ message = 0 /\ requests = {}
    /\ applied = [i \in Inputs |-> 0] /\ lost = applied
    /\ submits = 0 /\ losses = 0

Wiped(moment) == IF moment \in P.wipes THEN 0 ELSE message

(***************************************************************************)
(* The user.                                                               *)
(***************************************************************************)
Open ==
    /\ opening = 0 /\ openings < MaxOpenings
    /\ opening' = openings + 1 /\ openings' = openings + 1 /\ input' = 0
    /\ waiting' = (waiting /\ P.lives # "opening")
    /\ message' = IF P.lives = "opening" THEN 0 ELSE Wiped("open")
    /\ UNCHANGED <<kind, edits, requests, applied, lost, submits, losses>>

\* Cancel, Esc, the backdrop: allowed while an answer is awaited.
Close ==
    /\ opening # 0 /\ P.lives # "page"
    /\ opening' = 0 /\ message' = Wiped("close")
    /\ UNCHANGED <<kind, openings, input, edits, waiting, requests, applied, lost, submits, losses>>

Edit ==
    /\ opening # 0 /\ edits < MaxEdits
    /\ edits' = edits + 1 /\ input' = edits + 1
    /\ UNCHANGED <<kind, opening, openings, waiting, message, requests, applied, lost, submits, losses>>

Submittable == ~(P.guard /\ waiting)

Submit ==
    /\ opening # 0 /\ Submittable
    /\ P.lives = "page" => input # 0        \* nothing to send: no ticker, no change
    /\ submits < MaxSubmits /\ submits' = submits + 1
    /\ requests' = requests \cup {[id |-> submits + 1, input |-> <<opening, input>>, at |-> "sent"]}
    /\ waiting' = P.guard
    /\ message' = Wiped("submit")
    /\ opening' = IF P.early THEN 0 ELSE opening
    /\ UNCHANGED <<kind, openings, input, edits, applied, lost, losses>>

(***************************************************************************)
(* The server, and its answer.  A component whose opening is over has no   *)
(* state left to change; but what its success closes, it closes through    *)
(* the panel around it, whatever is open there by then.                    *)
(***************************************************************************)
Handle(r, verdict) ==
    /\ r.at = "sent"
    /\ requests' = (requests \ {r}) \cup {[r EXCEPT !.at = verdict]}
    /\ applied' = IF verdict = "taken" THEN [applied EXCEPT ![r.input] = @ + 1] ELSE applied
    /\ UNCHANGED <<kind, opening, openings, input, edits, waiting, message, lost, submits, losses>>

Lives(r) == P.lives # "opening" \/ r.input[1] = opening

Awaits(r) == IF Lives(r) THEN FALSE ELSE waiting

Succeed(r) ==
    /\ r.at = "taken" /\ requests' = requests \ {r}
    /\ opening' = IF P.after = "close" THEN 0 ELSE opening
    /\ input' = IF P.after = "clear" \/ (P.after = "settle" /\ r.input[2] = input) THEN 0 ELSE input
    /\ waiting' = Awaits(r)
    /\ message' = IF Lives(r) THEN Wiped("success") ELSE message
    /\ UNCHANGED <<kind, openings, edits, applied, lost, submits, losses>>

ShowFailure(r) ==
    /\ message' = IF Lives(r) /\ P.tells THEN r.input[1] ELSE message
    /\ waiting' = Awaits(r)

Fail(r) ==
    /\ r.at = "refused" /\ requests' = requests \ {r} /\ ShowFailure(r)
    /\ UNCHANGED <<kind, opening, openings, input, edits, applied, lost, submits, losses>>

\* The 20 s abort, a dead network: before the server took it, or after.
Lose(r) ==
    /\ losses < MaxLosses /\ losses' = losses + 1
    /\ requests' = requests \ {r} /\ ShowFailure(r)
    /\ lost' = IF r.at = "taken" THEN [lost EXCEPT ![r.input] = @ + 1] ELSE lost
    /\ UNCHANGED <<kind, opening, openings, input, edits, applied, submits>>

Answered(r) == Succeed(r) \/ Fail(r)

Next ==
    \/ Open \/ Close \/ Edit \/ Submit
    \/ \E r \in requests :
          \/ \E verdict \in {"taken", "refused"} : Handle(r, verdict)
          \/ Succeed(r) \/ Fail(r) \/ Lose(r)

Fairness ==
    /\ WF_vars(\E r \in requests, verdict \in {"taken", "refused"} : Handle(r, verdict))
    /\ WF_vars(\E r \in requests : Answered(r))

Spec == Init /\ [][Next]_vars /\ Fairness

\* What a guarded form held when it was submitted is taken once, or once more for every answer
\* of it that was lost and retried: no double click, closing or reopening sends it twice.
TakenOnce == P.guard => \A i \in Inputs : applied[i] <= 1 + lost[i]

\* A form that waits comes back: its buttons are enabled again, or it is closed.
WaitingEnds == (opening # 0 /\ waiting) ~> ~(opening # 0 /\ waiting)

\* The failure a form shows is one of the opening it shows it in (ConfirmDialog.jsx 7-8: "its
\* error is shown in place and the dialog stays open").
FailuresStayInPlace == kind = "ConfirmDialog" /\ opening # 0 => message \in {0, opening}
=============================================================================
