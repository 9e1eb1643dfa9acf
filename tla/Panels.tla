------------------------------- MODULE Panels -------------------------------
(***************************************************************************)
(* The panels and tools of the dashboard that ask the server something and *)
(* show what it answered: calculators with a button, histories and tables  *)
(* that follow a ticker, a month or a filter, rows with a one-off button,  *)
(* and two editors whose text is saved under what is selected.  The table  *)
(* Policy says in what they differ; one of them is chosen at the start.    *)
(*                                                                         *)
(* What a panel is about is its subject (a ticker, an account, a rule, a   *)
(* source, a month) and, where it has fields, the detail typed into them.  *)
(***************************************************************************)
EXTENDS Naturals, FiniteSets

CONSTANTS
    Subjects, First,    \* what a panel can be about
    MaxMoves,           \* bound: what the user does
    MaxLosses           \* bound: requests that fail on their way

NoNumber == 0           \* no result, no number

(***************************************************************************)
(* asks   : "effect" - when it mounts and whenever its subject changes;    *)
(*          "press" - on a button                                          *)
(* keyed  : its subject can change                                         *)
(* typed  : it has fields                                                  *)
(* waits  : the effect waits for a pause in the typing                     *)
(* drops  : answers of an effect that was cleaned up are dropped           *)
(* stamps : only a result of the present subject and detail is displayed   *)
(* guard  : the button is disabled while "any" answer is awaited, or one   *)
(*          for the subject it "owns"                                      *)
(* once   : the button is gone when it has succeeded                       *)
(* clears : a result goes when the "subject" changes, at a "refusal"; a    *)
(*          "failure" goes when the subject changes                        *)
(* fails  : a failure stays "until" the next success (or press), "sticks", *)
(*          counts as an "empty" answer, or is "silent"                    *)
(* saves  : its text can be saved, under what is selected                  *)
(* loads  : that text is loaded for every subject; otherwise selecting it  *)
(*          fills it in                                                    *)
(***************************************************************************)
Effect ==
    [asks |-> "effect", keyed |-> TRUE, typed |-> FALSE, waits |-> FALSE, drops |-> TRUE, stamps |-> FALSE,
     guard |-> "any", once |-> FALSE, clears |-> {}, fails |-> "until", saves |-> FALSE, loads |-> FALSE]
Once  == [Effect EXCEPT !.keyed = FALSE, !.drops = FALSE]
Press == [Effect EXCEPT !.asks = "press", !.drops = FALSE]

EarningsPanel  == Effect
TrackRecord    == Effect
SignalReplay   == Effect
SourceDrawer   == [Effect EXCEPT !.stamps = TRUE, !.clears = {"refusal", "failure"}]
SuggestionHistoryPanel   == [Effect EXCEPT !.fails = "sticks"]
SuggestionHistoryPreview == [Once EXCEPT !.drops = TRUE, !.fails = "sticks"]
SuggestionHistoryStrip   == [Effect EXCEPT !.fails = "empty"]
HeldBy13F      == [Effect EXCEPT !.fails = "sticks"]
CommandPalette == [Effect EXCEPT !.waits = TRUE, !.fails = "empty"]
AuditTab       == [Once EXCEPT !.fails = "sticks"]
DeliveryLog    == [Once EXCEPT !.fails = "silent"]
ScoreSparkline == [Once EXCEPT !.fails = "silent"]

SaleCheck        == [Press EXCEPT !.typed = TRUE, !.clears = {"subject", "refusal"}]
TimeMachineOdds  == [Press EXCEPT !.typed = TRUE, !.stamps = TRUE]
AuditChainCheck  == [Press EXCEPT !.keyed = FALSE]
NewIdeaRow       == [Press EXCEPT !.keyed = FALSE, !.once = TRUE, !.fails = "silent"]
WatchButton      == [NewIdeaRow EXCEPT !.fails = "sticks"]
BotsTab          == [Press EXCEPT !.guard = "own"]
SourceRetry      == [Press EXCEPT !.guard = "own", !.stamps = TRUE, !.clears = {"failure"}]
RebalancePlanner == [Press EXCEPT !.typed = TRUE, !.saves = TRUE, !.loads = TRUE]
RulesTab         == [Press EXCEPT !.typed = TRUE, !.saves = TRUE, !.clears = {"subject", "failure"}]

Policy ==
    [EarningsPanel |-> EarningsPanel, TrackRecord |-> TrackRecord, SignalReplay |-> SignalReplay,
     SourceDrawer |-> SourceDrawer, SuggestionHistoryPanel |-> SuggestionHistoryPanel,
     SuggestionHistoryPreview |-> SuggestionHistoryPreview, SuggestionHistoryStrip |-> SuggestionHistoryStrip,
     HeldBy13F |-> HeldBy13F, CommandPalette |-> CommandPalette, AuditTab |-> AuditTab,
     DeliveryLog |-> DeliveryLog, ScoreSparkline |-> ScoreSparkline, SaleCheck |-> SaleCheck,
     TimeMachineOdds |-> TimeMachineOdds, AuditChainCheck |-> AuditChainCheck, NewIdeaRow |-> NewIdeaRow,
     WatchButton |-> WatchButton, BotsTab |-> BotsTab, SourceRetry |-> SourceRetry,
     RebalancePlanner |-> RebalancePlanner, RulesTab |-> RulesTab]

VARIABLES
    panel,          \* the panel that runs
    choice,         \* [subject, detail]
    text,           \* an editor: the subject its text was made for
    shown,          \* the result: [n, of], n the number of the request; NoNumber for no result
    failed,         \* a failure is displayed
    requests,       \* on their way: [n, op, of, text, live, at]
    busy,           \* the subject an answer is awaited for, or "nobody"
    stored,         \* the server: for every subject, the one its saved text was made for
    moves, losses

vars == <<panel, choice, text, shown, failed, requests, busy, stored, moves, losses>>

P == Policy[panel]

Nobody  == "nobody"
Nothing == [n |-> NoNumber, of |-> [subject |-> First, detail |-> 0]]

TypeOK ==
    /\ panel \in DOMAIN Policy
    /\ choice \in [subject : Subjects, detail : 0..MaxMoves] /\ text \in Subjects
    /\ shown.n \in 0..(MaxMoves + 1) /\ failed \in BOOLEAN
    /\ \A r \in requests : r.op \in {"ask", "load", "save"} /\ r.at \in {"timer", "sent", "saved"}
    /\ busy \in Subjects \cup {Nobody} /\ stored \in [Subjects -> Subjects]
    /\ moves \in 0..MaxMoves /\ losses \in 0..MaxLosses

Asked(n, op, of, what, at) == [n |-> n, op |-> op, of |-> of, text |-> what, live |-> TRUE, at |-> at]

\* What the effect of a subject asks for.
EffectOp(c, n) ==
    CASE P.asks = "effect" -> {Asked(n, "ask", c, c.subject, IF P.waits THEN "timer" ELSE "sent")}
      [] P.loads           -> {Asked(n, "load", c, c.subject, "sent")}
      [] OTHER             -> {}

\* Its clean-up: a timer is cleared, an answer to come is marked.
CleanedUp ==
    {[r EXCEPT !.live = FALSE] : r \in {q \in requests : q.at # "timer"}}

Init ==
    /\ panel \in DOMAIN Policy
    /\ choice = Nothing.of /\ text = First
    /\ shown = Nothing /\ failed = FALSE /\ busy = Nobody
    /\ requests = EffectOp(choice, 1)
    /\ stored = [s \in Subjects |-> s]
    /\ moves = 0 /\ losses = 0

(***************************************************************************)
(* The user.                                                               *)
(***************************************************************************)
Move == moves < MaxMoves /\ moves' = moves + 1

Select(s) ==
    /\ P.keyed /\ s # choice.subject /\ Move
    /\ choice' = [subject |-> s, detail |-> choice.detail]
    /\ text' = IF P.saves /\ ~P.loads THEN s ELSE text
    /\ shown' = IF "subject" \in P.clears THEN Nothing ELSE shown
    /\ failed' = (failed /\ "failure" \notin P.clears)
    /\ requests' = CleanedUp \cup EffectOp(choice', moves' + 1)
    /\ UNCHANGED <<panel, busy, stored, losses>>

Type ==
    /\ P.typed /\ Move
    /\ choice' = [choice EXCEPT !.detail = moves']
    /\ UNCHANGED <<panel, text, shown, failed, requests, busy, stored, losses>>

Enabled ==
    /\ IF P.guard = "own" THEN busy # choice.subject ELSE busy = Nobody
    /\ ~(P.once /\ shown # Nothing)

Submitted(op) ==
    /\ requests' = requests \cup {Asked(moves' + 1, op, choice, text, "sent")}
    /\ busy' = choice.subject /\ failed' = (failed /\ P.fails = "sticks")
    /\ UNCHANGED <<panel, choice, text, shown, stored, losses>>

Ask  == P.asks = "press" /\ Enabled /\ Move /\ Submitted("ask")
Save == P.saves /\ Enabled /\ Move /\ Submitted("save")

\* The source of the drawer has made another attempt: its effect runs again.
Again ==
    /\ panel = "SourceDrawer" /\ Move
    /\ requests' = CleanedUp \cup EffectOp(choice, moves' + 1)
    /\ UNCHANGED <<panel, choice, text, shown, failed, busy, stored, losses>>

(***************************************************************************)
(* Timers, the server, and what comes back.                                *)
(***************************************************************************)
TimerFires(r) ==
    /\ r.at = "timer" /\ requests' = (requests \ {r}) \cup {[r EXCEPT !.at = "sent"]}
    /\ UNCHANGED <<panel, choice, text, shown, failed, busy, stored, moves, losses>>

Handle(r) ==
    /\ r.at = "sent" /\ r.op = "save"
    /\ stored' = [stored EXCEPT ![r.of.subject] = r.text]
    /\ requests' = (requests \ {r}) \cup {[r EXCEPT !.at = "saved"]}
    /\ UNCHANGED <<panel, choice, text, shown, failed, busy, moves, losses>>

Heard(r) == r.live \/ (~P.drops /\ r.op # "load")

Awaited(r) == IF P.asks = "press" /\ r.op # "load" THEN Nobody ELSE busy

\* An answer to a question is shown; loaded text replaces what is there, and the plan with it; a
\* saved rule is from now on the one that is edited.
Answered(r) ==
    /\ \/ r.op # "save" /\ r.at = "sent"
       \/ r.at = "saved"
    /\ requests' = requests \ {r} /\ busy' = Awaited(r)
    /\ shown' = CASE r.op = "ask" /\ Heard(r)  -> [n |-> r.n, of |-> r.of]
                  [] r.op = "load" /\ Heard(r) -> Nothing
                  [] OTHER                     -> shown
    /\ failed' = IF r.op = "ask" /\ Heard(r) /\ P.fails # "sticks" THEN FALSE ELSE failed
    /\ text' = IF r.op = "load" /\ Heard(r) THEN r.of.subject ELSE text
    /\ choice' = IF r.op = "save" /\ ~P.loads THEN [choice EXCEPT !.subject = r.of.subject] ELSE choice
    /\ UNCHANGED <<panel, stored, moves, losses>>

\* A load that fails says nothing.
Fail(r) ==
    /\ losses < MaxLosses /\ losses' = losses + 1
    /\ r.at # "timer" /\ requests' = requests \ {r} /\ busy' = Awaited(r)
    /\ LET told == r.op # "load" /\ Heard(r) IN
          /\ failed' = (failed \/ (told /\ P.fails \in {"until", "sticks"}))
          /\ shown' = CASE told /\ P.fails = "empty"       -> [n |-> r.n, of |-> r.of]
                        [] told /\ "refusal" \in P.clears -> Nothing
                        [] OTHER                          -> shown
    /\ UNCHANGED <<panel, choice, text, stored, moves>>

Next ==
    \/ \E s \in Subjects : Select(s)
    \/ Type \/ Ask \/ Save \/ Again
    \/ \E r \in requests : TimerFires(r) \/ Handle(r) \/ Answered(r) \/ Fail(r)

Fairness ==
    WF_vars(\E r \in requests : TimerFires(r) \/ Handle(r) \/ Answered(r))

Spec == Init /\ [][Next]_vars /\ Fairness

Displayed == IF P.stamps /\ shown.of # choice THEN Nothing ELSE shown

\* A panel that follows its subject comes to rest on that subject's answer: when nothing is on its
\* way and no failure is displayed, what it shows is of what is selected, in whichever order the
\* answers came.  (A failure that is silent leaves the answer before it.)
RestsOnItsSubject ==
    (P.asks = "effect" /\ P.keyed /\ requests = {} /\ ~failed) => Displayed.n # NoNumber /\ Displayed.of = choice

\* Where one answer is awaited at a time, no result is overtaken: it never gives way to an answer
\* that was asked for before it.
NothingIsOvertaken ==
    [][ P.guard = "any" /\ shown'.n # NoNumber => shown'.n >= shown.n ]_vars

\* A button that waits is given back.
BusyEnds == (busy # Nobody) ~> (busy = Nobody)

\* "Target weights for an account and the plan back to them" (RebalancePlanner.jsx 12-17), what a
\* sale "would realize" (SaleCheck.jsx 15-20): a result that is displayed is of what is selected
\* and typed.
ResultsAreOfTheInputs == (P.asks = "press" /\ Displayed.n # NoNumber) => Displayed.of.subject = choice.subject

\* What is saved under an account or a rule was made for it.
SavesGoHome == \A s \in Subjects : stored[s] = s
=============================================================================
