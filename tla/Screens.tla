------------------------------- MODULE Screens -------------------------------
(***************************************************************************)
(* The data hooks of the web application.  Each of them loads something    *)
(* the server keeps, shows the last answer, and has its own rule for when  *)
(* to ask again and which answers to let in; the table Policy below is     *)
(* those rules, and the actions are the machine they all share.  One hook  *)
(* is chosen at the start and runs for the whole behaviour, on a tab that  *)
(* owns one event stream.                                                  *)
(*                                                                         *)
(* What the server keeps is, for each key (an account, a list, a ticker, a *)
(* filter), a version that grows with every change; an answer carries the  *)
(* version it was made from.                                               *)
(***************************************************************************)
EXTENDS Naturals, FiniteSets

CONSTANTS
    EventKinds,         \* the kinds of event the server pushes
    Keys, FirstKey,     \* what a keyed hook can be asked to show
    NoKey,              \* nothing shown yet
    Slots,              \* bound: requests on their way at once
    MaxWrites,          \* bound: changes made on the server
    MaxMoves,           \* bound: what the user does (mounts, selections, tab switches, actions)
    MaxFailures         \* bound: failed requests and broken streams

(***************************************************************************)
(* lib/eventStream.js: the one EventSource of a tab.  Its module state is  *)
(* a record here and each of its functions an operator on that record, so  *)
(* that the handler of a screen can call several of them in one step.  The *)
(* back-off delay is only "the timer has not fired yet".                   *)
(***************************************************************************)
Stream ==
    [source    : {"none", "opening", "open"},    \* `source`, before and after its hello
     attached  : SUBSET EventKinds,
     known     : SUBSET EventKinds,              \* the keys of `listeners`: none is ever removed
     listening : SUBSET EventKinds,              \* those with a subscriber
     watched   : BOOLEAN,                        \* statusListeners.size > 0
     timer     : BOOLEAN,
     connected : BOOLEAN,
     hidden    : BOOLEAN]                        \* document.hidden

Silent ==
    [source |-> "none", attached |-> {}, known |-> {}, listening |-> {}, watched |-> FALSE,
     timer |-> FALSE, connected |-> FALSE, hidden |-> FALSE]

Wanted(s) == s.watched \/ s.listening # {}

Attach(s, kind) == IF s.source = "none" THEN s ELSE [s EXCEPT !.attached = @ \cup {kind}]

Open(s) == [s EXCEPT !.timer = FALSE, !.source = "opening", !.attached = s.known]

EnsureOpen(s) == IF s.source = "none" /\ ~s.timer /\ ~s.hidden THEN Open(s) ELSE s

Close(s) == [s EXCEPT !.timer = FALSE, !.source = "none", !.connected = FALSE]

CloseIfIdle(s) == IF Wanted(s) THEN s ELSE Close(s)

\* The two listeners open() puts on the source.
Hello(s) == [s EXCEPT !.source = "open", !.connected = TRUE]

OnError(s) ==
    LET down == [s EXCEPT !.source = "none", !.connected = FALSE] IN
    IF ~Wanted(s) \/ s.hidden THEN down ELSE [down EXCEPT !.timer = TRUE]

\* Mutant: the stream is not opened again when the tab returns.
OnVisibilityChange_noReturn(s, hidden) ==
    LET seen == [s EXCEPT !.hidden = hidden] IN IF hidden THEN Close(seen) ELSE seen

OnVisibilityChange(s, hidden) ==
    LET seen == [s EXCEPT !.hidden = hidden] IN
    IF hidden THEN Close(seen) ELSE IF Wanted(s) THEN EnsureOpen(seen) ELSE seen

Subscribe(s, kind) ==
    Attach(EnsureOpen([s EXCEPT !.known = @ \cup {kind}, !.listening = @ \cup {kind}]), kind)

Unsubscribe(s, kind) == CloseIfIdle([s EXCEPT !.listening = @ \ {kind}])

OnStatus(s) == EnsureOpen([s EXCEPT !.watched = TRUE])

OffStatus(s) == CloseIfIdle([s EXCEPT !.watched = FALSE])

\* dispatch: an event reaches its listeners only through a source they are attached to.
Delivers(s, kind) == s.source = "open" /\ kind \in s.attached /\ kind \in s.listening

(***************************************************************************)
(* poll    : "always", "visible" (skips a hidden tab), "fallback" (only    *)
(*           while the stream is down) or "never"                          *)
(* event   : the event that reloads it, "none" where it takes none         *)
(* live    : it also watches the stream's status                           *)
(* wakes   : it reloads when the tab becomes visible                       *)
(* keyed   : it loads something chosen by the page around it               *)
(* guard   : which answers it drops: "run" - those of an effect that has   *)
(*           been cleaned up; "ref" - those that come while unmounted;     *)
(*           "none"                                                        *)
(* stamp   : it hides what was loaded for another key                      *)
(* failure : "keep" what is shown, or "clear" it                           *)
(* acts    : its actions show their own "answer", ask for a "reload" when  *)
(*           they are done, or are a load that joins none ("force")        *)
(* shared  : it is a module store, which outlives the components           *)
(* single  : a request on its way is joined instead of repeated            *)
(***************************************************************************)
Plain ==
    [poll |-> "never", event |-> "none", live |-> FALSE, wakes |-> FALSE, keyed |-> FALSE,
     guard |-> "none", stamp |-> FALSE, failure |-> "keep", acts |-> {},
     shared |-> FALSE, single |-> FALSE]

useDashboardData == [Plain EXCEPT !.poll = "always", !.acts = {"answer", "reload"}]
useLiveQuotes    == [Plain EXCEPT !.poll = "always", !.wakes = TRUE]
useServerStatus  == [Plain EXCEPT !.poll = "visible", !.wakes = TRUE, !.keyed = TRUE, !.guard = "ref"]
useRiskStatus    == [Plain EXCEPT !.poll = "visible", !.shared = TRUE, !.acts = {"answer"}]
useUpdateStatus  == [Plain EXCEPT !.poll = "visible", !.shared = TRUE, !.single = TRUE, !.acts = {"force"}]
useBots == [Plain EXCEPT !.poll = "visible", !.event = "order", !.live = TRUE, !.acts = {"answer"}]
usePaper ==
    [Plain EXCEPT !.poll = "visible", !.event = "order", !.live = TRUE, !.acts = {"answer", "reload"}]
useBroker == [Plain EXCEPT !.event = "order", !.acts = {"reload"}]
useScanner ==
    [Plain EXCEPT !.poll = "fallback", !.event = "scanner", !.live = TRUE]
useExitRules == [Plain EXCEPT !.keyed = TRUE, !.acts = {"answer", "reload"}]
useLots      == [Plain EXCEPT !.keyed = TRUE]
usePortfolioAnalytics == [Plain EXCEPT !.keyed = TRUE, !.guard = "run", !.stamp = TRUE, !.failure = "clear"]
useSparklines == [Plain EXCEPT !.keyed = TRUE, !.guard = "run", !.failure = "clear"]
useFxRates    == [Plain EXCEPT !.poll = "always", !.keyed = TRUE, !.guard = "run", !.stamp = TRUE]
useWatchlists == [Plain EXCEPT !.keyed = TRUE, !.guard = "run", !.acts = {"answer"}]
useAutomute   == [Plain EXCEPT !.guard = "run", !.acts = {"answer"}]
useAppSettings == [Plain EXCEPT !.guard = "run", !.acts = {"answer"}]
useProfile     == [Plain EXCEPT !.guard = "run", !.acts = {"answer"}]

Policy ==
    [useDashboardData |-> useDashboardData, useLiveQuotes |-> useLiveQuotes,
     useServerStatus |-> useServerStatus, useRiskStatus |-> useRiskStatus,
     useUpdateStatus |-> useUpdateStatus, useBots |-> useBots, usePaper |-> usePaper,
     useBroker |-> useBroker, useScanner |-> useScanner, useExitRules |-> useExitRules,
     useLots |-> useLots, usePortfolioAnalytics |-> usePortfolioAnalytics,
     useSparklines |-> useSparklines, useFxRates |-> useFxRates, useWatchlists |-> useWatchlists,
     useAutomute |-> useAutomute, useAppSettings |-> useAppSettings, useProfile |-> useProfile]

Hooks == DOMAIN Policy

VARIABLES
    hook,           \* the hook that runs
    stream,         \* the tab's event stream
    mounted, key,   \* the component is on the page, and asks for this key
    shown,          \* the last answer let in: [of, version]
    requests,       \* Slots -> where each request is
    kept,           \* the server: Keys -> version
    events,         \* an event the server has pushed and the page has not handled
    writes, moves, failures

vars == <<hook, stream, mounted, key, shown, requests, kept, events, writes, moves, failures>>

P == Policy[hook]

Nothing == [of |-> NoKey, version |-> 0]
Free    == [at |-> "free", op |-> "load", of |-> NoKey, version |-> 0, alive |-> FALSE, mine |-> FALSE]

TypeOK ==
    /\ hook \in Hooks /\ stream \in Stream /\ mounted \in BOOLEAN /\ key \in Keys
    /\ shown \in [of : Keys \cup {NoKey}, version : 0..MaxWrites]
    /\ \A s \in Slots : requests[s].at \in {"free", "sent", "answered"}
    /\ kept \in [Keys -> 0..MaxWrites] /\ events \in BOOLEAN
    /\ writes \in 0..MaxWrites /\ moves \in 0..MaxMoves /\ failures \in 0..MaxFailures

Init ==
    /\ hook \in Hooks
    /\ stream = Silent /\ mounted = FALSE /\ key = FirstKey /\ shown = Nothing
    /\ requests = [s \in Slots |-> Free]
    /\ kept = [k \in Keys |-> 0] /\ events = FALSE
    /\ writes = 0 /\ moves = 0 /\ failures = 0

(***************************************************************************)
(* Asking.  A request takes a free slot; a hook that shares the request on *)
(* its way asks for nothing new.                                           *)
(***************************************************************************)
Asked(op, k) == [at |-> "sent", op |-> op, of |-> k, version |-> 0, alive |-> TRUE, mine |-> TRUE]

Waiting == \E s \in Slots : requests[s].at # "free"

Ask(op, k, table) ==
    IF P.single /\ Waiting THEN requests' = table
    ELSE \E s \in Slots : table[s].at = "free" /\ requests' = [table EXCEPT ![s] = Asked(op, k)]

\* The clean-up of an effect: its `alive` flag is false for every request it made.
CleanedUp == [s \in Slots |-> [requests[s] EXCEPT !.alive = FALSE]]

Move == moves < MaxMoves /\ moves' = moves + 1

Listen(s) ==
    LET subscribed == IF P.event = "none" THEN s ELSE Subscribe(s, P.event)
    IN  IF P.live THEN OnStatus(subscribed) ELSE subscribed

Unlisten(s) ==
    LET silent == IF P.event = "none" THEN s ELSE Unsubscribe(s, P.event)
    IN  IF P.live THEN OffStatus(silent) ELSE silent

Mount ==
    /\ ~mounted /\ Move
    /\ mounted' = TRUE /\ stream' = Listen(stream)
    /\ shown' = IF P.shared THEN shown ELSE Nothing
    /\ Ask("load", key, requests)
    /\ UNCHANGED <<hook, key, kept, events, writes, failures>>

Unmount ==
    /\ mounted /\ Move
    /\ mounted' = FALSE /\ stream' = Unlisten(stream)
    /\ requests' = [s \in Slots |-> [CleanedUp[s] EXCEPT !.mine = FALSE]]
    /\ UNCHANGED <<hook, key, shown, kept, events, writes, failures>>

\* The page chooses something else: the effect is cleaned up and runs again.
Select(k) ==
    /\ mounted /\ P.keyed /\ k # key /\ Move
    /\ key' = k
    /\ Ask("load", k, CleanedUp)
    /\ UNCHANGED <<hook, stream, mounted, shown, kept, events, writes, failures>>

\* Mutant: every poll of a visible tab is left to the stream while that is up.
PollDue_leftToTheStream ==
    P.poll = "always" \/ (P.poll \in {"visible", "fallback"} /\ ~stream.hidden /\ ~stream.connected)

PollDue ==
    CASE P.poll = "always"   -> TRUE
      [] P.poll = "visible"  -> ~stream.hidden
      [] P.poll = "fallback" -> ~stream.hidden /\ ~stream.connected
      [] OTHER               -> FALSE

Poll ==
    /\ mounted /\ PollDue
    /\ Ask("load", key, requests)
    /\ UNCHANGED <<hook, stream, mounted, key, shown, kept, events, writes, moves, failures>>

\* An action of the user.
Act(kind) ==
    /\ mounted /\ kind \in P.acts /\ Move
    /\ \E s \in Slots :
          /\ requests[s].at = "free"
          /\ requests' = [requests EXCEPT ![s] = Asked(IF kind = "force" THEN "load" ELSE kind, key)]
    /\ UNCHANGED <<hook, stream, mounted, key, shown, kept, events, writes, failures>>

(***************************************************************************)
(* The tab and its stream.                                                 *)
(***************************************************************************)
SwitchTab ==
    /\ Move
    /\ stream' = OnVisibilityChange(stream, ~stream.hidden)
    /\ IF mounted /\ P.wakes /\ stream.hidden THEN Ask("load", key, requests) ELSE requests' = requests
    /\ events' = (events /\ stream'.source = "open")
    /\ UNCHANGED <<hook, mounted, key, shown, kept, writes, failures>>

StreamOpens ==
    /\ stream.source = "opening" /\ stream' = Hello(stream)
    /\ UNCHANGED <<hook, mounted, key, shown, requests, kept, events, writes, moves, failures>>

\* A restart, the end of its few minutes, a dead network: what was on its way is gone.
StreamBreaks ==
    /\ failures < MaxFailures /\ failures' = failures + 1
    /\ stream.source # "none" /\ stream' = OnError(stream)
    /\ events' = FALSE
    /\ UNCHANGED <<hook, mounted, key, shown, requests, kept, writes, moves>>

ReopenTimer ==
    /\ stream.timer /\ stream' = Open(stream)
    /\ UNCHANGED <<hook, mounted, key, shown, requests, kept, events, writes, moves, failures>>

EventArrives ==
    /\ events /\ events' = FALSE
    /\ Ask("load", key, requests)
    /\ UNCHANGED <<hook, stream, mounted, key, shown, kept, writes, moves, failures>>

(***************************************************************************)
(* The server: something changes, and whoever listens is told.             *)
(***************************************************************************)
Told == P.event # "none" /\ Delivers(stream, P.event)

Write(k) ==
    /\ writes < MaxWrites /\ writes' = writes + 1
    /\ k \in IF P.keyed THEN Keys ELSE {FirstKey}
    /\ kept' = [kept EXCEPT ![k] = writes + 1]
    /\ events' = (events \/ Told)
    /\ UNCHANGED <<hook, stream, mounted, key, shown, requests, moves, failures>>

Handle(s) ==
    LET r == requests[s] IN
    /\ r.at = "sent"
    /\ \/ /\ r.op # "load" /\ writes < MaxWrites           \* an action that changes something
          /\ writes' = writes + 1 /\ kept' = [kept EXCEPT ![r.of] = writes + 1]
          /\ events' = (events \/ Told)
       \/ UNCHANGED <<writes, kept, events>>              \* or nothing, or nothing yet
    /\ requests' = [requests EXCEPT ![s].at = "answered", ![s].version = kept'[r.of]]
    /\ UNCHANGED <<hook, stream, mounted, key, shown, moves, failures>>

(***************************************************************************)
(* An answer, or a failure, arrives.  The component that asked may be gone *)
(* and its state with it, but for the module stores.  (The mounted ref of  *)
(* useServerStatus says no more than that: a new filter sets it again.)    *)
(***************************************************************************)
\* Mutant: the clean-up flag of the effect is not looked at.
Lives_cleanedUpOrNot(r) == r.mine \/ P.shared

Lives(r) ==
    /\ r.mine \/ P.shared
    /\ (P.guard = "run" /\ r.op = "load") => r.alive

Arrive(s) ==
    LET r == requests[s]
        freed == [requests EXCEPT ![s] = Free]
    IN
    /\ r.at = "answered"
    /\ shown' = IF Lives(r) /\ r.op # "reload" THEN [of |-> r.of, version |-> r.version] ELSE shown
    /\ IF r.op = "reload" THEN Ask("load", r.of, freed) ELSE requests' = freed
    /\ UNCHANGED <<hook, stream, mounted, key, kept, events, writes, moves, failures>>

Fail(s) ==
    LET r == requests[s] IN
    /\ failures < MaxFailures /\ failures' = failures + 1
    /\ r.at # "free"
    /\ requests' = [requests EXCEPT ![s] = Free]
    /\ shown' = IF Lives(r) /\ r.op = "load" /\ P.failure = "clear" THEN Nothing ELSE shown
    /\ UNCHANGED <<hook, stream, mounted, key, kept, events, writes, moves>>

Next ==
    \/ Mount \/ Unmount \/ Poll \/ SwitchTab
    \/ \E kind \in {"answer", "reload", "force"} : Act(kind)
    \/ \E k \in Keys : Select(k) \/ Write(k)
    \/ StreamOpens \/ StreamBreaks \/ ReopenTimer \/ EventArrives
    \/ \E s \in Slots : Handle(s) \/ Arrive(s) \/ Fail(s)

(***************************************************************************)
(* Timers fire, the server answers, and the browser delivers.              *)
(***************************************************************************)
Fairness ==
    /\ WF_vars(Poll) /\ WF_vars(StreamOpens) /\ WF_vars(ReopenTimer) /\ WF_vars(EventArrives)
    /\ \A s \in Slots : WF_vars(Handle(s)) /\ WF_vars(Arrive(s))

Spec == Init /\ [][Next]_vars /\ Fairness

\* What the component displays: a stamped hook hides another key's answer.
Displayed == IF P.stamp /\ shown.of # key THEN Nothing ELSE shown

\* A screen that polls, left open on a visible tab, ends with what the server keeps, whatever was
\* lost, late or out of order before (useDashboardData 148-154, useBots 48-51 and the like).
Stays == <>[](mounted /\ ~stream.hidden)
Current == shown = [of |-> key, version |-> kept[key]]

PolledScreensCatchUp ==
    Stays => (P.poll \notin {"always", "visible"} \/ <>[]Current)

\* The scanner is reloaded whenever a scan run finishes (useScanner.js 8-9).
ScannerCatchesUp == Stays => (hook # "useScanner" \/ <>[]Current)

\* An answer asked for under one key is never put in place of the key now selected: by the hooks
\* that drop the answers of a cleaned-up effect, or hide them.
LateAnswersStayOut ==
    [][ (P.keyed /\ P.guard = "run" /\ P.acts = {} /\ shown' # shown /\ mounted')
        => Displayed'.of \in {key', NoKey} ]_vars

\* Whoever wants events has a source or is about to: a visible tab with listeners is never left
\* without source and timer, the source knows every kind that is listened to, and a hidden or
\* idle tab holds no connection (eventStream.js 1-6).
StreamServesItsListeners ==
    /\ (Wanted(stream) /\ ~stream.hidden) => (stream.source # "none" \/ stream.timer)
    /\ stream.source # "none" => stream.listening \subseteq stream.attached
    /\ (stream.hidden \/ ~Wanted(stream)) => (stream.source = "none" /\ ~stream.timer)
    /\ ~(stream.timer /\ stream.source # "none")
=============================================================================
