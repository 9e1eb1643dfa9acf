----------------------------- MODULE MCClients -----------------------------
(***************************************************************************)
(* The clients around the dashboard: the desktop shell and its poller, the *)
(* background worker of the extension and its content script.  They share  *)
(* no state: one of them is chosen, and runs alone.                        *)
(***************************************************************************)
EXTENDS SeenKeys

CONSTANTS None, Polls, Bases, FirstBase, t1, t2, Nodes, c1, c2

VARIABLES
    client,
    reachable, signedIn, raised, read, poll, memory, disk, shownUnread,
    announced, repeated, backlog, lost, disturbances,
    posted, marked, session, apiBase, resetting, seen, seeded, cached, task,
    notified, renotified, silent, overlapped, moved, mishaps,
    enabled, switches, changed, messages, results, running, matcher, observing, scanDue,
    present, badged, used, hrefChanged, scores,
    up, commit, applying, shellSignedIn, page, nav, onAppOrigin, call, current, boot, refresh,
    update, from, prompts, relaunches, shellDisturbances

pollerVars  == <<reachable, signedIn, raised, read, poll, memory, disk, shownUnread,
                 announced, repeated, backlog, lost, disturbances>>
workerVars  == <<posted, marked, session, apiBase, resetting, seen, seeded, cached, task,
                 notified, renotified, silent, overlapped, moved, mishaps>>
overlayVars == <<enabled, switches, changed, messages, results, running, matcher, observing, scanDue,
                 present, badged, used, hrefChanged, scores>>
shellVars   == <<up, commit, applying, shellSignedIn, page, nav, onAppOrigin, call, current, boot, refresh,
                 update, from, prompts, relaunches, shellDisturbances>>
vars        == <<client, pollerVars, workerVars, overlayVars, shellVars>>

Poller == INSTANCE AlertPoller WITH MaxAlerts <- 7, HighAlerts <- {1, 2, 6}, MaxDisturbances <- 1

Worker == INSTANCE ExtensionWorker WITH Tasks <- {t1, t2}, MaxAlerts <- 2, MaxMishaps <- 1

Overlay == INSTANCE ContentOverlay WITH PageLimit <- 1, MaxSwitches <- 2, MaxMessages <- 3

Shell == INSTANCE Desktop WITH
            Calls <- {c1, c2}, MaxDisturbances <- 2,
            signedIn <- shellSignedIn, disturbances <- shellDisturbances

\* Those that do not run start in one state only.
Init ==
    /\ client \in {"poller", "worker", "overlay", "shell"}
    /\ Poller!Init /\ Worker!Init /\ Overlay!Init /\ Shell!Init
    /\ client # "poller" => signedIn /\ raised = 0
    /\ client # "overlay" => enabled /\ present = {}
    /\ client # "shell" => up /\ commit = 1 /\ shellSignedIn /\ current = c1

Chosen(name) == client = name /\ UNCHANGED client

PollerRuns(step)  == Chosen("poller") /\ step /\ UNCHANGED <<workerVars, overlayVars, shellVars>>
WorkerRuns(step)  == Chosen("worker") /\ step /\ UNCHANGED <<pollerVars, overlayVars, shellVars>>
OverlayRuns(step) == Chosen("overlay") /\ step /\ UNCHANGED <<pollerVars, workerVars, shellVars>>
ShellRuns(step)   == Chosen("shell") /\ step /\ UNCHANGED <<pollerVars, workerVars, overlayVars>>

Next ==
    \/ PollerRuns(Poller!Next) \/ ShellRuns(Shell!Next)
    \/ WorkerRuns(Worker!Next) \/ OverlayRuns(Overlay!Next)

\* The fairness of the modules.  One condition serves several clients, of which only one ever runs.
Spec ==
    /\ Init /\ [][Next]_vars
    /\ WF_vars(\/ WorkerRuns(Worker!Progress(t1)) \/ ShellRuns(Shell!GiveUp(c1)))
    /\ WF_vars(\/ WorkerRuns(Worker!Progress(t2)) \/ ShellRuns(Shell!GiveUp(c2)))
    /\ WF_vars(\/ WorkerRuns(\E t \in {t1, t2} : Worker!PollStart(t)) \/ ShellRuns(Shell!NavFails))
    /\ WF_vars(\/ OverlayRuns(Overlay!WorkerAnswers) \/ ShellRuns(Shell!RefreshStart))
    /\ WF_vars(\/ OverlayRuns(Overlay!ScriptResumes) \/ ShellRuns(Shell!RefreshEnd))
    /\ SF_vars(\/ WorkerRuns(\E t \in {t1, t2} : Worker!Reset(t))
               \/ OverlayRuns(Overlay!SettingsChanged) \/ ShellRuns(Shell!FileLoaded(c1)))
    /\ SF_vars(\/ OverlayRuns(Overlay!TimerScan) \/ ShellRuns(Shell!FileLoaded(c2)))
    /\ \A c \in {c1, c2} : SF_vars(ShellRuns(Shell!Healthy(c))) /\ SF_vars(ShellRuns(Shell!AppLoaded(c)))
    /\ SF_vars(ShellRuns(Shell!NavLoaded))

\* An alert is announced once, by the desktop's toasts and by the extension's notifications; a launch
\* asks about an update once, and an update relaunches the shell once.
ToldOnce ==
    /\ Poller!AnnouncedOnce /\ Worker!NotifiedOnce
    /\ Shell!PromptedOncePerLaunch /\ Shell!RelaunchOncePerUpdate
\* The shell thinks the dashboard is shown only where it is, and a page whose overlay is off has no
\* badges left on it.
ClientsAreTruthful == Shell!OriginIsTruthful /\ Overlay!OffMeansNoBadges
\* The clients settle: the shell on the dashboard, the extension's badge on what is unread, its
\* overlay on the switch.
ClientsSettle ==
    /\ client = "worker" => Worker!BadgeSettles
    /\ client = "overlay" => Overlay!SwitchedOnComesOn
    /\ client = "shell" => Shell!DashboardComesBack
=============================================================================
