----------------------------- MODULE ServerPage -----------------------------
(***************************************************************************)
(* The Server page of an administrator (ServerPanel.jsx): the row of one   *)
(* schedule in it, edited optimistically (SchedulerSection.jsx), polled by *)
(* useServerStatus and edited by another administrator as well.            *)
(***************************************************************************)
EXTENDS Naturals

CONSTANTS
    Days, Times,        \* what a row can be set to
    Morning,            \* the time a row without times gets
    MaxEdits,           \* bound: edits on this page
    MaxOthers,          \* bound: edits of the other administrator
    MaxFailures         \* bound: failed requests

VARIABLES
    kept,       \* the server: the row
    row,        \* the page: the row, in place of the list it is in
    loaded,     \* `schedules` has come
    panel,      \* "rows", or the "error" that replaces the whole page
    puts,       \* edits that were sent and not answered yet
    poll,       \* the poll on its way
    edits, others, failures

page == <<row, loaded, panel>>
vars == <<kept, page, puts, poll, edits, others, failures>>

\* A row.  An interval below a minute is for the server to refuse.
Rows == [mode : {"interval", "times"}, every : {"hour", "seconds"}, times : SUBSET Times,
         days : SUBSET Days, on : BOOLEAN]

AtLeastOne(r) == r.days # {} /\ (r.mode = "times" => r.times # {})
Valid(r)      == AtLeastOne(r) /\ (r.mode = "interval" => r.every = "hour")

\* What the other page may ask for.
Patches == {[days |-> {d}] : d \in Days} \cup {[mode |-> "interval", every |-> "hour"]}

\* { ...row, ...patch }
Over(patch, r) == [f \in DOMAIN r |-> IF f \in DOMAIN patch THEN patch[f] ELSE r[f]]

NoPoll == [at |-> "free", answer |-> {}]

TypeOK ==
    /\ kept \in Rows /\ row \in Rows /\ loaded \in BOOLEAN /\ panel \in {"rows", "error"}
    /\ \A p \in puts : p.prev \in Rows /\ p.at \in {"sent", "saved", "rejected"}
    /\ poll.at \in {"free", "sent", "answered"}
    /\ edits \in 0..MaxEdits /\ others \in 0..MaxOthers /\ failures \in 0..MaxFailures

\* Bound: it starts as a row that runs every day, at one time.
Init ==
    /\ kept = [mode |-> "times", every |-> "hour", times |-> {Morning}, days |-> Days, on |-> TRUE]
    /\ row = kept /\ loaded = FALSE /\ panel = "rows"
    /\ puts = {} /\ poll = [NoPoll EXCEPT !.at = "sent"]
    /\ edits = 0 /\ others = 0 /\ failures = 0

(***************************************************************************)
(* Editing.  Every control saves a patch made from the row on the screen:  *)
(* a list is sent whole.                                                   *)
(***************************************************************************)
Shown == loaded /\ panel = "rows"

save(patch) ==
    /\ Shown /\ edits < MaxEdits /\ edits' = edits + 1
    /\ puts' = puts \cup {[n |-> edits, patch |-> patch, prev |-> row, at |-> "sent", saved |-> row]}
    /\ row' = Over(patch, row)
    /\ UNCHANGED <<kept, loaded, panel, poll, failures, others>>

\* Mutant: the last day can be switched off.
toggleDay_evenTheLast(d) ==
    save([days |-> IF d \in row.days THEN row.days \ {d} ELSE row.days \cup {d}])

toggleDay(d) ==
    /\ row.days # {d}
    /\ save([days |-> IF d \in row.days THEN row.days \ {d} ELSE row.days \cup {d}])

\* TimesEditor, shown in the mode of its own.
AddTime(t)    == row.mode = "times" /\ t \notin row.times /\ save([times |-> row.times \cup {t}])
RemoveTime(t) ==
    row.mode = "times" /\ t \in row.times /\ row.times # {t} /\ save([times |-> row.times \ {t}])

\* IntervalEditor: Enter, leaving the field or a click on a unit; what did not change is not sent.
CommitInterval(every) == row.mode = "interval" /\ every # row.every /\ save([every |-> every])

SetMode ==
    \/ row.mode = "times" /\ save([mode |-> "interval", every |-> row.every])
    \/ /\ row.mode = "interval"
       /\ save([mode |-> "times", times |-> IF row.times = {} THEN {Morning} ELSE row.times])

Switch == save([on |-> ~row.on])

Edit ==
    \/ \E d \in Days : toggleDay(d)
    \/ \E t \in Times : AddTime(t) \/ RemoveTime(t)
    \/ \E every \in {"hour", "seconds"} : CommitInterval(every)
    \/ SetMode \/ Switch

\* The server: put_schedule merges the patch into the row it has, and validates the whole.
Handle(p) ==
    LET merged == Over(p.patch, kept) IN
    /\ p.at = "sent"
    /\ kept' = IF Valid(merged) THEN merged ELSE kept
    /\ puts' = (puts \ {p}) \cup {[p EXCEPT !.at = IF Valid(merged) THEN "saved" ELSE "rejected",
                                            !.saved = IF Valid(merged) THEN merged ELSE @]}
    /\ UNCHANGED <<page, poll, edits, failures, others>>

\* The other administrator's edit, from a page like this one.
Elsewhere(patch) ==
    /\ others < MaxOthers /\ others' = others + 1
    /\ kept' = Over(patch, kept) /\ Valid(kept')
    /\ UNCHANGED <<page, puts, poll, edits, failures>>

\* The answer replaces the row; a rejection brings back the one from before the edit.
Saved(p) ==
    /\ p.at = "saved" /\ puts' = puts \ {p} /\ row' = p.saved
    /\ UNCHANGED <<kept, loaded, panel, poll, edits, failures, others>>

RolledBack(p) ==
    /\ puts' = puts \ {p} /\ row' = p.prev
    /\ UNCHANGED <<kept, loaded, panel, poll, edits, others>>

Rejected(p) == p.at = "rejected" /\ RolledBack(p) /\ UNCHANGED failures
Lost(p)     == failures < MaxFailures /\ failures' = failures + 1 /\ RolledBack(p)

(***************************************************************************)
(* Polling (pull).  A failure takes the page away, and what its rows said  *)
(* with it; the next answer brings it back.                                *)
(***************************************************************************)
PollSent ==
    /\ poll.at = "free" /\ poll' = [NoPoll EXCEPT !.at = "sent"]
    /\ UNCHANGED <<kept, page, puts, edits, failures, others>>

PollHandled ==
    /\ poll.at = "sent" /\ poll' = [at |-> "answered", answer |-> kept]
    /\ UNCHANGED <<kept, page, puts, edits, failures, others>>

PollAnswered ==
    /\ poll.at = "answered" /\ poll' = NoPoll
    /\ row' = poll.answer /\ loaded' = TRUE /\ panel' = "rows"
    /\ UNCHANGED <<kept, puts, edits, failures, others>>

PollFails ==
    /\ failures < MaxFailures /\ failures' = failures + 1
    /\ poll.at # "free" /\ poll' = NoPoll
    /\ panel' = "error"
    /\ UNCHANGED <<kept, row, loaded, puts, edits, others>>

Next ==
    \/ Edit
    \/ \E p \in puts : Handle(p) \/ Saved(p) \/ Rejected(p) \/ Lost(p)
    \/ \E patch \in Patches : Elsewhere(patch)
    \/ PollSent \/ PollHandled \/ PollAnswered \/ PollFails

Fairness ==
    /\ WF_vars(PollSent) /\ WF_vars(PollHandled) /\ WF_vars(PollAnswered)
    /\ WF_vars(\E p \in puts : Handle(p)) /\ WF_vars(\E p \in puts : Saved(p) \/ Rejected(p))

Spec == Init /\ [][Next]_vars /\ Fairness

\* No edit empties a row, and none is asked for that would: the last day and the last time stay,
\* however edits, rejections, polls and another administrator's changes follow one another
\* (SchedulerSection.jsx 88, 164).
NothingIsEmptied == AtLeastOne(row) /\ \A p \in puts : AtLeastOne(p.prev) /\ AtLeastOne(Over(p.patch, kept))

\* The row on an open page ends as the row the server has, whatever was optimistic, refused, lost
\* or overtaken before.
RowSettles == <>[](row = kept)

\* "Edits apply optimistically and roll back ... if they are rejected" (SchedulerSection.jsx 274-276):
\* with nothing on its way, and nobody else editing, the row is the server's.
QuietRowIsKept == (loaded /\ puts = {} /\ poll.at = "free") => row = kept
=============================================================================
