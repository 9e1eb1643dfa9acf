-------------------------- MODULE ExtensionWorker --------------------------
(***************************************************************************)
(* background/index.js of the browser extension: the poll of the alerts,   *)
(* "Mark read", and the change of the dashboard's address.  Everything is  *)
(* kept in storage, every storage access is an await, and the worker is    *)
(* torn down between any two of them.                                      *)
(***************************************************************************)
EXTENDS SeenKeys, FiniteSets

CONSTANTS None,
          Bases,           \* dashboards the address can name
          FirstBase,       \* the address the extension is installed with
          Tasks,           \* polls and mark-reads that can be under way at once
          MaxAlerts,       \* bound: alerts a dashboard raises
          MaxMishaps       \* bound: sign-ins, address changes, teardowns, mark-reads

VARIABLES
    posted, marked, session,    \* each dashboard: alerts posted, read; is there a session?
    apiBase,                    \* the address in the settings
    resetting,                  \* the storage listener has yet to reset
    seen, seeded, cached,       \* local storage; the badge goes with cached
    task,                       \* the tasks of the worker and their locals
    notified, renotified, silent, \* history: notifications; what is not to be notified
    overlapped, moved,          \* history: two polls at once; another address
    mishaps

dashboards == <<posted, marked, session>>
local      == <<seen, seeded, cached>>
history    == <<notified, renotified, silent>>
vars == <<dashboards, apiBase, resetting, local, task, history, overlapped, moved, mishaps>>

Keys(answer) == [i \in DOMAIN PageOf(answer.raised) |-> <<answer.base, PageOf(answer.raised)[i]>>]

Begin(job) ==
    [job |-> job, at |-> "request", base |-> apiBase, raised |-> 0, read |-> 0, seen |-> <<>>, seeded |-> FALSE]

Polling(t) == task[t] # None /\ task[t].job = "poll"

Mishap == mishaps < MaxMishaps /\ mishaps' = mishaps + 1

\* The alarm, POLL_NOW, or the end of a reset: settings and address are read.
PollStart(t) ==
    /\ task[t] = None
    /\ task' = [task EXCEPT ![t] = Begin("poll")]
    /\ overlapped' = (overlapped \/ \E x \in Tasks : Polling(x))
    /\ UNCHANGED <<dashboards, apiBase, resetting, local, history, moved, mishaps>>

\* MARK_READ from the popup; the request marks, and its answer is the feed.
MarkRead(t) ==
    /\ Mishap
    /\ task[t] = None
    /\ task' = [task EXCEPT ![t] = Begin("mark")]
    /\ UNCHANGED <<dashboards, apiBase, resetting, local, history, overlapped, moved>>

Answered(t) ==
    /\ task[t] # None /\ task[t].at = "request" /\ session[task[t].base]
    /\ LET base == task[t].base IN
         /\ marked' = IF task[t].job = "mark" THEN [marked EXCEPT ![base] = posted[base]] ELSE marked
         /\ task' = [task EXCEPT ![t].at = "answer", ![t].raised = posted[base], ![t].read = marked'[base]]
    /\ UNCHANGED <<posted, session, apiBase, resetting, local, history, overlapped, moved, mishaps>>

\* reflectError writes the reason, which is left out; a failed MARK_READ is only reported to the popup.
Refused(t) ==
    /\ task[t] # None /\ task[t].at = "request" /\ ~session[task[t].base]
    /\ task' = [task EXCEPT ![t] = None]
    /\ UNCHANGED <<dashboards, apiBase, resetting, local, history, overlapped, moved, mishaps>>

\* setLocal and setBadge with the answer; a mark-read ends here.  A poll also
\* reads the keys it remembers: between the write and the read is one await
\* that nothing below tells apart.
Cache(t) ==
    /\ task[t] # None /\ task[t].at = "answer"
    /\ cached' = [base |-> task[t].base, unread |-> task[t].raised - task[t].read]
    /\ task' = [task EXCEPT ![t] = IF Polling(t) THEN [@ EXCEPT !.at = "read", !.seen = seen, !.seeded = seeded] ELSE None]
    /\ UNCHANGED <<dashboards, apiBase, resetting, seen, seeded, history, overlapped, moved, mishaps>>

\* Mutant: only the first run writes the keys.
Remember_seedOnly(t) ==
    /\ task[t] # None /\ task[t].at = "read"
    /\ seen' = IF task[t].seeded THEN seen ELSE PushSeen(<<>>, Keys(task[t]))
    /\ seeded' = TRUE
    /\ task' = [task EXCEPT ![t] = IF @.seeded THEN [@ EXCEPT !.at = "notify"] ELSE None]
    /\ UNCHANGED <<dashboards, apiBase, resetting, cached, notified, silent, renotified, overlapped, moved, mishaps>>

\* The first run seeds in silence; later ones write what they read and saw.
Remember(t) ==
    /\ task[t] # None /\ task[t].at = "read"
    /\ seen' = PushSeen(IF task[t].seeded THEN task[t].seen ELSE <<>>, Keys(task[t]))
    /\ seeded' = TRUE
    /\ task' = [task EXCEPT ![t] = IF @.seeded THEN [@ EXCEPT !.at = "notify"] ELSE None]
    /\ silent' = IF task[t].seeded \/ moved \/ overlapped THEN silent ELSE silent \cup Range(Keys(task[t]))
    /\ UNCHANGED <<dashboards, apiBase, resetting, cached, notified, renotified, overlapped, moved, mishaps>>

Fresh(local_) == {key \in Range(DiffNew(local_.seen, Keys(local_))) : key[2] > local_.read}

Notify(t) ==
    /\ task[t] # None /\ task[t].at = "notify"
    /\ notified' = notified \cup Fresh(task[t])
    /\ renotified' = (renotified \/ notified \cap Fresh(task[t]) # {})
    /\ task' = [task EXCEPT ![t] = None]
    /\ UNCHANGED <<dashboards, apiBase, resetting, local, silent, overlapped, moved, mishaps>>

\* The options page saves another address; its listener has yet to run.
ChangeBase(base) ==
    /\ Mishap
    /\ ~resetting /\ base # apiBase
    /\ apiBase' = base
    /\ resetting' = TRUE /\ moved' = TRUE
    /\ silent' = silent \cup {<<base, n>> : n \in 1..posted[base]}
    /\ UNCHANGED <<dashboards, local, task, notified, renotified, overlapped>>

\* storage.onChanged: reset the local storage, then poll.
Reset(t) ==
    /\ resetting /\ task[t] = None
    /\ resetting' = FALSE
    /\ seen' = <<>> /\ seeded' = FALSE
    /\ task' = [task EXCEPT ![t] = Begin("poll")]
    /\ overlapped' = (overlapped \/ \E x \in Tasks : Polling(x))
    /\ UNCHANGED <<dashboards, apiBase, cached, history, moved, mishaps>>

\* The worker is torn down; an event still due starts it again.
TornDown ==
    /\ Mishap
    /\ task' = [t \in Tasks |-> None]
    /\ UNCHANGED <<dashboards, apiBase, resetting, local, history, overlapped, moved>>

\* Only the first dashboard goes on raising alerts.
RaiseAlert(base) ==
    /\ base = FirstBase /\ posted[base] < MaxAlerts
    /\ \A t \in Tasks : task[t] # None /\ task[t].base = base /\ task[t].at # "request"
                            => posted[base] - task[t].raised < PageSize - 1
    /\ posted' = [posted EXCEPT ![base] = @ + 1]
    /\ UNCHANGED <<marked, session, apiBase, resetting, local, task, history, overlapped, moved, mishaps>>

SessionChanges(base) ==
    /\ Mishap
    /\ base = apiBase
    /\ session' = [session EXCEPT ![base] = ~@]
    /\ UNCHANGED <<posted, marked, apiBase, resetting, local, task, history, overlapped, moved>>

Init ==
    /\ posted = [b \in Bases |-> 1] /\ marked = [b \in Bases |-> 0]
    /\ session = [b \in Bases |-> TRUE]
    /\ apiBase = FirstBase /\ resetting = FALSE
    /\ seen = <<>> /\ seeded = FALSE /\ cached = None
    /\ task = [t \in Tasks |-> None]
    /\ notified = {} /\ renotified = FALSE /\ silent = {}
    /\ overlapped = FALSE /\ moved = FALSE /\ mishaps = 0

Progress(t) == Answered(t) \/ Refused(t) \/ Cache(t) \/ Remember(t) \/ Notify(t)

Next ==
    \/ \E t \in Tasks : PollStart(t) \/ MarkRead(t) \/ Progress(t) \/ Reset(t)
    \/ \E base \in Bases : ChangeBase(base) \/ RaiseAlert(base) \/ SessionChanges(base)
    \/ TornDown

\* The alarm is persistent, requests end, and storage answers.
Fairness ==
    /\ \A t \in Tasks : WF_vars(Progress(t))
    /\ WF_vars(\E t \in Tasks : PollStart(t))
    /\ SF_vars(\E t \in Tasks : Reset(t))

Spec == Init /\ [][Next]_vars /\ Fairness

(***************************************************************************)
(* Properties.                                                             *)
(***************************************************************************)
TypeOK ==
    /\ posted \in [Bases -> 0..MaxAlerts] /\ \A b \in Bases : marked[b] \in 0..posted[b]
    /\ apiBase \in Bases
    /\ Range(seen) \subseteq Bases \X (1..MaxAlerts) /\ Len(seen) <= SeenCap
    /\ cached = None \/ cached \in [base : Bases, unread : Nat]
    /\ notified \cup silent \subseteq Bases \X (1..MaxAlerts)

\* While polls do not overlap and the address stays, no teardown between two
\* awaits of poll() announces an alert twice or announces the first page.
NotifiedOnce == ~overlapped /\ ~moved => ~renotified /\ notified \cap silent = {}

\* Late answers, of another address or from before a mark-read, do not stay:
\* the badge comes to show the unread alerts of the dashboard in use.
BadgeSettles ==
    <>[](session[apiBase]) =>
        <>[](session[apiBase] => cached = [base |-> apiBase, unread |-> posted[apiBase] - marked[apiBase]])

\* index.js: a new address must re-seed silently, so that no alert the new
\* dashboard had posted before is notified.
NewBaseSeedsSilently == notified \cap silent = {}
=============================================================================
