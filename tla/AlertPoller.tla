---------------------------- MODULE AlertPoller ----------------------------
(***************************************************************************)
(* AlertPoller of the desktop shell: GET /api/alerts on a timer, native    *)
(* toasts for new alerts of high severity, and the settings file that      *)
(* remembers which were seen.  What follows a request is one synchronous   *)
(* step; requests overlap when the timer, a sign-in or "Mark all read"     *)
(* starts a poll while another waits.                                      *)
(***************************************************************************)
EXTENDS SeenKeys

CONSTANTS None,
          Polls,           \* polls that can wait for their answer at once
          MaxAlerts,       \* bound: alerts the backend raises
          HighAlerts,      \* those of high severity
          MaxDisturbances  \* bound: outages, sign-ins, restarts, lost writes

VARIABLES
    reachable, signedIn,         \* the backend, and the session in the cookie jar
    raised, read,                \* the number of alerts raised; of those read
    poll,                        \* the polls under way
    memory, disk,                \* the JSON store, and its file
    shownUnread,                 \* the count in the tray
    announced, repeated, backlog, lost,  \* history: toasts; the seeding page; a lost write
    disturbances

backend == <<reachable, signedIn, raised, read>>
store   == <<memory, disk, lost>>
toasts  == <<announced, repeated, backlog>>
vars    == <<backend, poll, store, shownUnread, toasts, disturbances>>

Alerts == 1..MaxAlerts
Sent   == [status |-> "sent", raised |-> 0, read |-> 0]

Disturb == disturbances < MaxDisturbances /\ disturbances' = disturbances + 1

\* start(), the timer, and the poll markAllRead begins.
PollStart(p) ==
    /\ poll[p] = None
    /\ poll' = [poll EXCEPT ![p] = Sent]
    /\ UNCHANGED <<backend, store, shownUnread, toasts, disturbances>>

\* GET /api/alerts is answered, or fails; the answer ages until PollDone.
PollAnswered(p) ==
    /\ poll[p] = Sent
    /\ poll' = [poll EXCEPT ![p] =
           IF reachable /\ signedIn
           THEN [status |-> "ok", raised |-> raised, read |-> read]
           ELSE [status |-> "failed", raised |-> 0, read |-> 0]]
    /\ UNCHANGED <<backend, store, shownUnread, toasts, disturbances>>

\* JsonStore.set: the file is replaced whole, or the write is lost and logged.
Save(data) ==
    /\ memory' = data
    /\ \/ disk' = data /\ UNCHANGED <<lost, disturbances>>
       \/ Disturb /\ lost' = TRUE /\ UNCHANGED disk

Fresh(answer) ==
    {k \in HighAlerts : k > answer.read /\ k \in Range(DiffNew(memory.keys, PageOf(answer.raised)))}

\* The rest of poll() after an answer: seed in silence, or remember the page
\* and raise a toast (past the third, the summary toast) for what is new.
Announce(answer) ==
    \/ /\ ~memory.seeded
       /\ Save([keys |-> PushSeen(<<>>, PageOf(answer.raised)), seeded |-> TRUE])
       /\ backlog' = Range(PageOf(answer.raised))
       /\ UNCHANGED <<announced, repeated>>
    \/ /\ memory.seeded
       /\ Save([memory EXCEPT !.keys = PushSeen(@, PageOf(answer.raised))])
       /\ announced' = announced \cup Fresh(answer)
       /\ repeated' = repeated \cup (announced \cap Fresh(answer))
       /\ UNCHANGED backlog

PollDone(p) ==
    /\ poll[p] \notin {None, Sent}
    /\ poll' = [poll EXCEPT ![p] = None]
    /\ shownUnread' = poll[p].raised - poll[p].read
    /\ IF poll[p].status = "ok" THEN Announce(poll[p])
       ELSE UNCHANGED <<store, toasts, disturbances>>
    /\ UNCHANGED backend

\* Fewer alerts than a page are raised between an answer and its handling.
RaiseAlert ==
    /\ reachable /\ raised < MaxAlerts
    /\ \A p \in Polls : poll[p] # None /\ poll[p].status = "ok" => raised - poll[p].raised < PageSize - 1
    /\ raised' = raised + 1
    /\ UNCHANGED <<reachable, signedIn, read, poll, store, shownUnread, toasts, disturbances>>

\* markAllRead up to its poll: offered while the tray shows unread alerts.
MarkAllRead(p) ==
    /\ Disturb
    /\ shownUnread > 0 /\ poll[p] = None
    /\ read' = IF reachable /\ signedIn THEN raised ELSE read
    /\ poll' = [poll EXCEPT ![p] = Sent]
    /\ UNCHANGED <<reachable, signedIn, raised, store, shownUnread, toasts>>

SurroundingsChange ==
    /\ Disturb
    /\ \/ reachable' = ~reachable /\ UNCHANGED signedIn
       \/ signedIn' = ~signedIn /\ UNCHANGED reachable
    /\ UNCHANGED <<raised, read, poll, store, shownUnread, toasts>>

\* The process is quit, relaunched or killed, and reads its file back.
Restart ==
    /\ Disturb
    /\ poll' = [p \in Polls |-> None]
    /\ memory' = disk
    /\ shownUnread' = 0
    /\ UNCHANGED <<backend, disk, lost, toasts>>

Init ==
    /\ reachable = TRUE /\ signedIn \in BOOLEAN
    /\ raised \in {0, 1} /\ read \in 0..raised
    /\ poll = [p \in Polls |-> None]
    /\ memory = [keys |-> <<>>, seeded |-> FALSE] /\ disk = memory /\ lost = FALSE
    /\ shownUnread = 0
    /\ announced = {} /\ repeated = {} /\ backlog = {}
    /\ disturbances = 0

Next ==
    \/ \E p \in Polls : PollStart(p) \/ PollAnswered(p) \/ PollDone(p) \/ MarkAllRead(p)
    \/ RaiseAlert \/ SurroundingsChange \/ Restart

Spec == Init /\ [][Next]_vars

(***************************************************************************)
(* Properties.                                                             *)
(***************************************************************************)
TypeOK ==
    /\ reachable \in BOOLEAN /\ signedIn \in BOOLEAN /\ lost \in BOOLEAN
    /\ raised \in 0..MaxAlerts /\ read \in 0..raised
    /\ poll \in [Polls -> {None, Sent} \cup [status : {"ok", "failed"}, raised : Nat, read : Nat]]
    /\ Range(memory.keys) \subseteq Alerts /\ Len(memory.keys) <= SeenCap
    /\ shownUnread \in Nat

\* As long as no write of the settings file was lost, no alert is announced
\* twice, across overlapping polls, restarts and an evicting memory of keys,
\* and nothing of the first page an install saw is ever announced.
AnnouncedOnce == ~lost => repeated = {} /\ announced \cap backlog = {}
=============================================================================
