--------------------------- MODULE ContentOverlay ---------------------------
(***************************************************************************)
(* The content script of the extension: badges after the tickers of one    *)
(* page, switched on and off from the popup.  Its questions to the worker  *)
(* are answered in order, each with the settings of that moment; between   *)
(* a question and its answer the page, the settings and the script go on.  *)
(***************************************************************************)
EXTENDS Integers, Sequences, FiniteSets

CONSTANTS None,
          Nodes,       \* text nodes the page may show, each with one ticker
          PageLimit,   \* badges the page may get before its address changes
          MaxSwitches, \* bound: times the switch is flipped
          MaxMessages  \* bound: questions under way

VARIABLES
    enabled, switches,       \* the site's switch; times it was flipped
    changed,                 \* storage.onChanged is due
    messages, results,       \* questions to the worker, and its answers, in order
    running, matcher,        \* is the overlay on, can it match?
    observing, scanDue,      \* observers at work; the debounce timer
    present, badged, used,   \* the page's text, its badges, the budget
    hrefChanged,             \* is the address another than the last scan's?
    scores                   \* the script's cache: node's ticker -> a score or null

page == <<present, badged, used, hrefChanged>>
vars == <<enabled, switches, changed, messages, results, running, matcher, observing, scanDue, page, scores>>

Ask(what) == messages' = Append(messages, what)
Room      == Len(messages) + Len(results) < MaxMessages

\* The worker answers the oldest question: the settings are read from storage
\* and the symbols degrade to null, but the scores may fail.
WorkerAnswers ==
    /\ messages # <<>>
    /\ messages' = Tail(messages)
    /\ \E ok \in IF Head(messages).type = "SCORES" THEN BOOLEAN ELSE {TRUE} :
         results' = Append(results, [ok |-> ok, for |-> Head(messages), enabled |-> enabled])
    /\ UNCHANGED <<enabled, switches, changed, running, matcher, observing, scanDue, page, scores>>

Answer(type) == results # <<>> /\ Head(results).for.type = type /\ results' = Tail(results)

\* The popup's switch, or the options page.
FlipSwitch ==
    /\ switches < MaxSwitches
    /\ enabled' = ~enabled /\ switches' = switches + 1
    /\ changed' = TRUE
    /\ UNCHANGED <<messages, results, running, matcher, observing, scanDue, page, scores>>

\* storage.onChanged asks before it acts.
SettingsChanged ==
    /\ changed /\ Room
    /\ changed' = FALSE
    /\ Ask([type |-> "SITE_ENABLED", then |-> "switch", nodes |-> {}])
    /\ UNCHANGED <<enabled, switches, results, running, matcher, observing, scanDue, page, scores>>

\* start() up to its first question.
BeginStart ==
    /\ Ask([type |-> "SITE_ENABLED", then |-> "start", nodes |-> {}])
    /\ UNCHANGED <<running, matcher, observing, scanDue, page>>

\* Mutant: stop() leaves the badges in the page.
Stop_leavesBadges ==
    /\ running' = FALSE /\ scanDue' = FALSE
    /\ observing' = IF observing = 0 THEN 0 ELSE observing - 1
    /\ used' = 0
    /\ UNCHANGED <<present, badged, hrefChanged, matcher, messages>>

\* stop(): the timer, the observer the script knows of, the badges.
Stop ==
    /\ running' = FALSE /\ scanDue' = FALSE
    /\ observing' = IF observing = 0 THEN 0 ELSE observing - 1
    /\ badged' = {} /\ used' = 0
    /\ UNCHANGED <<present, hrefChanged, matcher, messages>>

\* The answer to storage.onChanged's question.
Switch ==
    /\ Answer("SITE_ENABLED") /\ Head(results).for.then = "switch"
    /\ \/ Head(results).enabled /\ ~running /\ BeginStart
       \/ ~Head(results).enabled /\ running /\ Stop
       \/ Head(results).enabled = running /\ UNCHANGED <<messages, running, matcher, observing, scanDue, page>>
    /\ UNCHANGED <<enabled, switches, changed, scores>>

\* start() goes on to its second question, or ends.
StartGated ==
    /\ Answer("SITE_ENABLED") /\ Head(results).for.then = "start"
    /\ \/ Head(results).enabled /\ Ask([type |-> "SYMBOLS", then |-> "start", nodes |-> {}])
       \/ ~Head(results).enabled /\ UNCHANGED messages
    /\ UNCHANGED <<enabled, switches, changed, running, matcher, observing, scanDue, page, scores>>

Unbadged == present \ badged

\* Badges are inserted while the budget lasts, and painted once scored.
ScanInto(found, budget) ==
    /\ badged' = badged \cup found
    /\ used' = budget + Cardinality(found)
    /\ UNCHANGED present
    /\ LET unknown == {n \in found : scores[n] = None} IN
         IF unknown = {} THEN UNCHANGED messages
         ELSE Ask([type |-> "SCORES", then |-> "paint", nodes |-> unknown])

Scan(budget) ==
    \E found \in SUBSET Unbadged :
        /\ Cardinality(found) = (IF Cardinality(Unbadged) < PageLimit - budget THEN Cardinality(Unbadged)
                                 ELSE PageLimit - budget)
        /\ ScanInto(found, budget)

\* start() resumes: nothing is asked again, so what happened since is missed.
\* A second start leaves the first one's observer at work.
Started ==
    /\ Answer("SYMBOLS")
    /\ running' = TRUE /\ matcher' = TRUE
    /\ observing' = observing + 1
    /\ Scan(used) /\ UNCHANGED hrefChanged
    /\ UNCHANGED <<enabled, switches, changed, scanDue, scores>>

\* The debounced scan, whichever observer asked for it.
TimerScan ==
    /\ scanDue /\ Room
    /\ scanDue' = FALSE
    /\ hrefChanged' = FALSE
    /\ LET budget == IF hrefChanged THEN 0 ELSE used
       IN  IF running /\ matcher THEN Scan(budget)
           ELSE used' = budget /\ UNCHANGED <<present, badged, messages>>
    /\ UNCHANGED <<enabled, switches, changed, results, running, matcher, observing, scores>>

\* paint() resumes: without an answer, every ticker it asked for is known to
\* be absent.
Paint ==
    /\ Answer("SCORES")
    /\ scores' = [n \in Nodes |-> IF n \notin Head(results).for.nodes THEN scores[n]
                                  ELSE IF Head(results).ok THEN "score" ELSE "null"]
    /\ UNCHANGED <<enabled, switches, changed, messages, running, matcher, observing, scanDue, page>>

\* The page shows another text node; an observer hears of it.
PageGrows(n) ==
    /\ n \notin present
    /\ present' = present \cup {n}
    /\ scanDue' = (scanDue \/ observing > 0)
    /\ UNCHANGED <<enabled, switches, changed, messages, results, running, matcher, observing, badged, used, hrefChanged, scores>>

\* A route change of the page replaces its view; the next timed scan resets
\* the budget.
RouteChanges ==
    /\ present # {} /\ present' = {} /\ badged' = {} /\ hrefChanged' = TRUE
    /\ scanDue' = (scanDue \/ observing > 0)
    /\ UNCHANGED <<enabled, switches, changed, messages, results, running, matcher, observing, used, scores>>

Init ==
    /\ enabled \in BOOLEAN /\ switches = 0 /\ changed = FALSE
    /\ messages = <<[type |-> "SITE_ENABLED", then |-> "start", nodes |-> {}]>> /\ results = <<>>
    /\ running = FALSE /\ matcher = FALSE /\ observing = 0 /\ scanDue = FALSE
    /\ present \in {{}, Nodes} /\ badged = {} /\ used = 0 /\ hrefChanged = FALSE
    /\ scores = [n \in Nodes |-> None]

ScriptResumes == Switch \/ StartGated \/ Started \/ Paint

Next == WorkerAnswers \/ FlipSwitch \/ SettingsChanged \/ ScriptResumes \/ TimerScan \/ (\E n \in Nodes : PageGrows(n)) \/ RouteChanges

\* Answers arrive and timers fire.
Spec == Init /\ [][Next]_vars /\ WF_vars(WorkerAnswers) /\ WF_vars(ScriptResumes)
             /\ SF_vars(SettingsChanged) /\ SF_vars(TimerScan)

(***************************************************************************)
(* Properties.                                                             *)
(***************************************************************************)
TypeOK ==
    /\ observing \in Nat /\ used \in Nat
    /\ badged \subseteq present /\ present \subseteq Nodes
    /\ scores \in [Nodes -> {None, "score", "null"}]
    /\ Len(messages) + Len(results) <= MaxMessages

\* An overlay that is off leaves the page as it was: no start, scan or timer
\* under way when it was stopped inserts a badge later.
OffMeansNoBadges == ~running => badged = {}

\* A switch that stays on brings the overlay on, whatever starts, stops and
\* answers were still under way.
SwitchedOnComesOn == <>[]enabled => <>[]running

\* index.js: the popup's switch works "without needing a reload".
SwitchedOffGoesOff == <>[]~enabled => <>[]~running
=============================================================================
