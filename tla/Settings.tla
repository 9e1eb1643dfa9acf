------------------------------ MODULE Settings ------------------------------
(***************************************************************************)
(* The settings the server keeps and a page edits a draft of: the profile  *)
(* and the app settings of SettingsPanel.jsx, the base currency of the     *)
(* Portfolio page, and the currency pairs of FxWatchEditor.jsx.  Each has  *)
(* its way of saving, which the table Policy says; one of them is chosen   *)
(* at the start.                                                           *)
(*                                                                         *)
(* A value is a number: 0 is the page's own default, 1 what the account    *)
(* had, and every edit makes a new one.                                    *)
(***************************************************************************)
EXTENDS Naturals

CONSTANTS
    MaxMoves,       \* bound: what the user does
    MaxLosses       \* bound: answers lost

(***************************************************************************)
(* saves : what each way of saving sends; typed : the fields of the form   *)
(* by   : "press" - a button, disabled while it saves; "timer" - half a    *)
(*        second after the last edit; "change" - every edit, optimistically*)
(* early : the form is there before its values are                         *)
(* stays : the draft outlives the page (it is kept by App)                 *)
(***************************************************************************)
Policy ==
    [profile |-> [saves |-> [profile |-> {"contact", "base"}], typed |-> {"contact"},
                  by |-> "press", early |-> TRUE, stays |-> FALSE],
     app     |-> [saves |-> [schedule |-> {"clock"}, xAccounts |-> {"accounts"}],
                  typed |-> {"clock", "accounts"}, by |-> "press", early |-> TRUE, stays |-> TRUE],
     base    |-> [saves |-> [base |-> {"base"}], typed |-> {"base"},
                  by |-> "change", early |-> TRUE, stays |-> FALSE],
     pairs   |-> [saves |-> [pairs |-> {"pairs"}], typed |-> {"pairs"},
                  by |-> "timer", early |-> FALSE, stays |-> FALSE]]

VARIABLES
    doc,            \* the settings that are edited
    open,           \* the page is mounted
    draft,          \* what it shows
    load,           \* "asked", "answered", "done" or "failed"
    loading,        \* the answer to that
    said,           \* per way of saving: "none", "saving", "saved" or "error"
    timer,          \* the values the debounce timer would send, {} while it is not set
    requests,       \* saves on their way
    stored,         \* the server
    typed,          \* ghost: fields edited since they were last sent
    crossed,        \* ghost: a request was made or handled while another was on its way
    moves, losses

vars == <<doc, open, draft, load, loading, said, timer, requests, stored, typed, crossed, moves, losses>>

P      == Policy[doc]
Ways   == DOMAIN P.saves
Fields == UNION {P.saves[w] : w \in Ways}
Part(values, fields) == [f \in fields |-> values[f]]

Defaults == [f \in Fields |-> 0]
Quiet    == [w \in Ways |-> "none"]

TypeOK ==
    /\ doc \in DOMAIN Policy /\ open \in BOOLEAN
    /\ draft \in [Fields -> 0..(MaxMoves + 1)] /\ stored \in [Fields -> 0..(MaxMoves + 1)]
    /\ load \in {"asked", "answered", "done", "failed"}
    /\ said \in [Ways -> {"none", "saving", "saved", "error"}]
    /\ typed \subseteq Fields /\ crossed \in BOOLEAN
    /\ \A r \in requests : r.way \in Ways /\ r.at \in {"sent", "taken", "refused"}

Init ==
    /\ doc \in DOMAIN Policy
    /\ open = TRUE /\ draft = Defaults /\ load = "asked" /\ loading = Defaults
    /\ said = Quiet /\ timer = {} /\ requests = {}
    /\ stored = [f \in Fields |-> 1]
    /\ typed = {} /\ crossed = FALSE /\ moves = 0 /\ losses = 0

Move == moves < MaxMoves /\ moves' = moves + 1

Busy == requests # {} \/ load \in {"asked", "answered"}

(***************************************************************************)
(* Loading, leaving and coming back.                                       *)
(***************************************************************************)
LoadHandled ==
    /\ load = "asked" /\ load' = "answered" /\ loading' = stored
    /\ UNCHANGED <<doc, open, draft, said, timer, requests, stored, typed, crossed, moves, losses>>

LoadArrives ==
    /\ load = "answered" /\ load' = "done" /\ draft' = loading
    /\ UNCHANGED <<doc, open, loading, said, timer, requests, stored, typed, crossed, moves, losses>>

LoadFails ==
    /\ load \in {"asked", "answered"} /\ losses < MaxLosses /\ losses' = losses + 1 /\ load' = "failed"
    /\ UNCHANGED <<doc, open, draft, loading, said, timer, requests, stored, typed, crossed, moves>>

\* What the page kept to itself is gone: its timer, and with it an edit that waited.
Leave ==
    /\ open /\ Move /\ open' = FALSE
    /\ said' = Quiet /\ timer' = {}
    /\ IF P.stays THEN UNCHANGED <<draft, load, loading, typed>>
       ELSE draft' = Defaults /\ load' = "failed" /\ loading' = Defaults /\ typed' = {}
    /\ requests' = {[r EXCEPT !.here = FALSE] : r \in requests}
    /\ UNCHANGED <<doc, stored, crossed, losses>>

Open ==
    /\ ~open /\ Move /\ open' = TRUE
    /\ IF P.stays THEN UNCHANGED load ELSE load' = "asked"
    /\ crossed' = (crossed \/ requests # {})
    /\ UNCHANGED <<doc, draft, loading, said, timer, requests, stored, typed, losses>>

(***************************************************************************)
(* Editing and saving.                                                     *)
(***************************************************************************)
Ready == open /\ (P.early \/ load = "done")

Sent(way, values, before) ==
    /\ requests' = requests \cup
           {[n |-> moves', way |-> way, sends |-> values, before |-> before, at |-> "sent",
             answer |-> values, here |-> TRUE]}
    /\ said' = [said EXCEPT ![way] = "saving"]
    /\ crossed' = (crossed \/ Busy)

\* update: nothing is sent.
Type(f) ==
    /\ Ready /\ P.by = "press" /\ Move
    /\ f \in P.typed /\ draft' = [draft EXCEPT ![f] = moves' + 1] /\ typed' = typed \cup {f}
    /\ UNCHANGED <<doc, open, load, loading, said, timer, requests, stored, crossed, losses>>

\* saveProfile, saveSchedule, saveXAccounts
Press(way) ==
    /\ Ready /\ P.by = "press" /\ said[way] # "saving" /\ Move
    /\ Sent(way, Part(draft, P.saves[way]), draft) /\ typed' = typed \ P.saves[way]
    /\ UNCHANGED <<doc, open, draft, load, loading, timer, stored, losses>>

\* changeBase: shown at once, taken back if it is refused.
changeBase(f) ==
    /\ Ready /\ P.by = "change" /\ Move
    /\ draft' = [draft EXCEPT ![f] = moves' + 1]
    /\ Sent("base", Part(draft', {f}), draft) /\ UNCHANGED typed
    /\ UNCHANGED <<doc, open, load, loading, timer, stored, losses>>

\* commit of FxWatchEditor: the timer is set anew by every edit.
commit(f) ==
    /\ Ready /\ P.by = "timer" /\ Move
    /\ draft' = [draft EXCEPT ![f] = moves' + 1] /\ typed' = typed \cup {f}
    /\ timer' = {draft'} /\ said' = [said EXCEPT !["pairs"] = "saving"]
    /\ UNCHANGED <<doc, open, load, loading, requests, stored, crossed, losses>>

TimerFires ==
    /\ timer # {} /\ timer' = {} /\ typed' = {} /\ UNCHANGED moves
    /\ \E next \in timer : Sent("pairs", next, draft)
    /\ UNCHANGED <<doc, open, draft, load, loading, stored, losses>>

\* The server merges what was sent into what it has and answers with the whole, or refuses it.
Handle(r) ==
    /\ r.at = "sent"
    /\ \/ /\ stored' = [f \in Fields |-> IF f \in DOMAIN r.sends THEN r.sends[f] ELSE stored[f]]
          /\ requests' = (requests \ {r}) \cup {[r EXCEPT !.at = "taken", !.answer = stored']}
       \/ /\ stored' = stored
          /\ requests' = (requests \ {r}) \cup {[r EXCEPT !.at = "refused"]}
    /\ UNCHANGED <<doc, open, draft, load, loading, said, timer, typed, crossed, moves, losses>>

\* The draft becomes the answer, whatever was typed meanwhile; the hook of App hears it even
\* after the page was left, which only forgets that it was saving.
Heard(r) == r.here \/ P.stays

Taken(r) ==
    /\ r.at = "taken" /\ requests' = requests \ {r}
    /\ draft' = IF Heard(r) THEN r.answer ELSE draft
    /\ said' = IF r.here THEN [said EXCEPT ![r.way] = "saved"] ELSE said
    /\ UNCHANGED <<doc, open, load, loading, timer, stored, typed, crossed, moves, losses>>

Failed(r) ==
    /\ requests' = requests \ {r}
    /\ draft' = IF P.by = "change" /\ r.here THEN r.before ELSE draft
    /\ said' = IF r.here THEN [said EXCEPT ![r.way] = "error"] ELSE said
    /\ UNCHANGED <<doc, open, load, loading, timer, stored, typed, crossed, moves>>

Refused(r) == r.at = "refused" /\ Failed(r) /\ UNCHANGED losses
Lost(r)    == losses < MaxLosses /\ losses' = losses + 1 /\ Failed(r)

Next ==
    \/ LoadHandled \/ LoadArrives \/ LoadFails \/ Leave \/ Open \/ TimerFires
    \/ \E f \in Fields : Type(f) \/ changeBase(f) \/ commit(f)
    \/ \E w \in Ways : Press(w)
    \/ \E r \in requests : Handle(r) \/ Taken(r) \/ Refused(r) \/ Lost(r)

\* Timers fire, and the server answers.
Fairness ==
    /\ WF_vars(LoadHandled) /\ WF_vars(LoadArrives) /\ WF_vars(TimerFires)
    /\ WF_vars(\E r \in requests : Handle(r)) /\ WF_vars(\E r \in requests : Taken(r) \/ Refused(r))

Spec == Init /\ [][Next]_vars /\ Fairness

\* "Saved" is so: where the page's requests did not cross, and nothing was typed since, what it
\* shows of the part that was saved is what the server has.
SavedIsStored ==
    (open /\ requests = {} /\ load = "done" /\ ~crossed) =>
        \A w \in Ways : said[w] = "saved" => \A f \in P.saves[w] \ typed : draft[f] = stored[f]

\* "Saving" ends.
SavingEnds == (\E w \in Ways : said[w] = "saving") ~> (\A w \in Ways : said[w] # "saving")

\* A default of the page never replaces what the account had.  (The profile and the app settings
\* may be saved before they came, or when they never did: SettingsPanel.jsx 89 leaves `loaded` out.)
NothingUnseenIsOverwritten == \A f \in Fields : stored[f] # 0

\* What is typed stays until it is sent (useProfile.js 44: "used while the user types").
TypedIsKept == [][ \A f \in typed : draft'[f] # draft[f] => moves' # moves ]_vars

\* "Changes save themselves shortly after the last edit" (FxWatchEditor.jsx 19-22).
EditsSaveThemselves == (doc = "pairs" /\ typed # {}) ~> (typed = {} /\ stored = draft)
=============================================================================
