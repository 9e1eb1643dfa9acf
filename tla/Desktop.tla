------------------------------ MODULE Desktop ------------------------------
(***************************************************************************)
(* The desktop shell (src/desktop/src): one window over a server it never  *)
(* starts itself, and the update check of a launch.  The main process is   *)
(* one JavaScript thread: a step runs from one await to the next, and      *)
(* between two steps anything else may run.  AlertPoller has the toasts.   *)
(***************************************************************************)
EXTENDS Integers

CONSTANTS None,
          Calls,            \* showWaitingThenLoad calls that can be under way at once
          MaxDisturbances   \* outages, clicks, sign-ins, kills in a behaviour

VARIABLES
    up, commit, applying, signedIn,  \* the server, its version, its updater, its session
    page, nav, onAppOrigin,          \* what the window shows, loads, and is thought to show
    call, current, boot,             \* the showWaitingThenLoad calls; see Begin
    refresh,                         \* a refreshServiceState and what its probe found
    update, from, prompts,           \* the update check of this launch
    relaunches, disturbances         \* history: relaunches; disturbances so far

server   == <<up, commit, applying, signedIn>>
window   == <<page, nav, onAppOrigin, call, current, boot>>
updating == <<update, from, prompts>>
vars     == <<server, window, refresh, updating, relaunches, disturbances>>

Latest == 2   \* the commit main has moved to

(***************************************************************************)
(* Navigation.  A navigation that starts rejects the promise of the one it *)
(* supersedes, so the call that awaited it ends there.                     *)
(***************************************************************************)
Owner == IF nav = None THEN None ELSE nav.by

\* The launch awaits its first call: when that call is rejected, the poller
\* and the service timer behind it never start.
Navigate(to, by) ==
    /\ nav' = [to |-> to, by |-> by]
    /\ boot' = IF Owner # None /\ boot = Owner THEN "failed" ELSE boot

\* showWaitingThenLoad: aborts the call before it and loads the waiting page.
Begin(c) ==
    /\ call[c] = "idle" \/ Owner = c
    /\ call' = [x \in Calls |-> IF x = c THEN "file" ELSE IF x = Owner THEN "idle" ELSE call[x]]
    /\ current' = c
    /\ onAppOrigin' = FALSE
    /\ Navigate("waiting", c)

\* checkUpdateOnce, wherever it is called from.
CheckUpdateOnce(isAppOrigin) ==
    /\ update' = IF update = "pending" /\ isAppOrigin THEN "asking" ELSE update
    /\ UNCHANGED <<from, prompts>>

FileLoaded(c) ==
    /\ nav = [to |-> "waiting", by |-> c]
    /\ nav' = None
    /\ page' = "waiting"
    /\ call' = [call EXCEPT ![c] = "waiting"]
    /\ UNCHANGED <<server, onAppOrigin, current, boot, refresh, updating, relaunches, disturbances>>

\* waitForHealth answered: load the dashboard.
Healthy(c) ==
    /\ call[c] = "waiting" /\ up
    /\ call' = [x \in Calls |-> IF x = c THEN "app" ELSE IF x = Owner THEN "idle" ELSE call[x]]
    /\ Navigate("app", c)
    /\ UNCHANGED <<server, page, onAppOrigin, current, refresh, updating, relaunches, disturbances>>

\* waitForHealth returned null: its time is up, or a later call aborted it.
\* The code then asks whether the controller now in force is aborted, which it
\* never is, and so reports "down" in both cases.
GiveUp(c) ==
    /\ call[c] = "waiting"
    /\ ~up \/ current # c
    /\ call' = [call EXCEPT ![c] = "idle"]
    /\ boot' = IF boot = c THEN "on" ELSE boot
    /\ UNCHANGED <<server, page, nav, onAppOrigin, current, refresh, updating, relaunches, disturbances>>

AppLoaded(c) ==
    /\ nav = [to |-> "app", by |-> c] /\ up
    /\ nav' = None
    /\ page' = "app"
    /\ onAppOrigin' = TRUE
    /\ call' = [call EXCEPT ![c] = "idle"]
    /\ boot' = IF boot = c THEN "on" ELSE boot
    /\ CheckUpdateOnce(TRUE)
    /\ UNCHANGED <<server, current, refresh, relaunches, disturbances>>

\* A navigation from the tray or a toast ("user"), or a reload ("reload").
NavLoaded ==
    /\ nav # None /\ nav.by \in {"user", "reload"} /\ up
    /\ nav' = None
    /\ page' = "app"
    /\ onAppOrigin' = (nav.by = "user" \/ onAppOrigin)
    /\ UNCHANGED <<server, call, current, boot, refresh, updating, relaunches, disturbances>>

\* did-fail-load of the main frame.
NavFails ==
    /\ nav # None /\ nav.to = "app" /\ ~up
    /\ page' = "error"
    /\ \E c \in Calls : Begin(c)
    /\ UNCHANGED <<server, refresh, updating, relaunches, disturbances>>

\* navigate: through the preload bridge when the dashboard is there.
GoTo ==
    IF onAppOrigin
    THEN UNCHANGED <<nav, boot, call>>
    ELSE /\ Navigate("app", "user")
         /\ call' = [x \in Calls |-> IF x = Owner THEN "idle" ELSE call[x]]

Reload ==
    IF onAppOrigin
    THEN /\ Navigate("app", "reload")
         /\ call' = [x \in Calls |-> IF x = Owner THEN "idle" ELSE call[x]]
    ELSE UNCHANGED <<nav, boot, call>>

(***************************************************************************)
(* refreshServiceState, every POLL_MS once the launch is through.          *)
(***************************************************************************)
RefreshStart ==
    /\ boot = "on" /\ refresh = None
    /\ refresh' = IF up THEN "healthy" ELSE "unreachable"
    /\ UNCHANGED <<server, window, updating, relaunches, disturbances>>

\* Mutant: the probe only updates the tray.
RefreshEnd_trayOnly ==
    /\ refresh # None
    /\ refresh' = None
    /\ UNCHANGED <<server, window, updating, relaunches, disturbances>>

RefreshEnd ==
    /\ refresh # None
    /\ refresh' = None
    /\ IF refresh = "healthy" /\ ~onAppOrigin
       THEN (\E c \in Calls : Begin(c)) /\ UNCHANGED page
       ELSE UNCHANGED window
    /\ UNCHANGED <<server, updating, relaunches, disturbances>>

(***************************************************************************)
(* The update check: checkForUpdate, the dialog, waitForNewCommit.         *)
(***************************************************************************)
Pending == commit < Latest /\ applying # "running"

AskServer ==
    /\ update = "asking"
    /\ \/ /\ ~up \/ ~signedIn
          /\ update' = "pending"
          /\ UNCHANGED <<from, prompts>>
       \/ /\ up /\ signedIn /\ Pending
          /\ update' = "dialog"
          /\ from' = commit
          /\ prompts' = prompts + 1
       \/ /\ up /\ signedIn /\ ~Pending
          /\ update' = "done"
          /\ UNCHANGED <<from, prompts>>
    /\ UNCHANGED <<server, window, refresh, relaunches, disturbances>>

AnswerDialog(answer) ==
    /\ update = "dialog"
    /\ update' = IF answer = "later" THEN "done" ELSE "applying"
    /\ UNCHANGED <<server, window, refresh, from, prompts, relaunches, disturbances>>

\* POST /api/update/apply: refused (an error box), or the updater starts and
\* the window goes to /info.
Apply ==
    /\ update = "applying"
    /\ UNCHANGED <<from, prompts>>
    /\ \/ /\ update' = "done"
          /\ UNCHANGED <<server, window>>
       \/ /\ up /\ signedIn /\ Pending
          /\ update' = "following"
          /\ applying' = "running"
          /\ GoTo
          /\ UNCHANGED <<up, commit, signedIn, page, onAppOrigin, current>>
    /\ UNCHANGED <<refresh, relaunches, disturbances>>

\* waitForNewCommit gave up: the updater failed, rolled back or went stale.
StopFollowing ==
    /\ update = "following"
    /\ applying # "running"
    /\ up => commit = from
    /\ update' = "done"
    /\ UNCHANGED <<server, window, refresh, from, prompts, relaunches, disturbances>>

(***************************************************************************)
(* A launch.  Everything in memory starts over; the store is read back.    *)
(***************************************************************************)
Launch ==
    /\ page' = "blank"
    /\ onAppOrigin' = FALSE
    /\ \E c \in Calls :
         /\ call' = [x \in Calls |-> IF x = c THEN "file" ELSE "idle"]
         /\ current' = c
         /\ boot' = c
         /\ nav' = [to |-> "waiting", by |-> c]
    /\ refresh' = None
    /\ update' = "pending" /\ from' = 0 /\ prompts' = 0

\* waitForNewCommit: the server answers with another commit than before.
Relaunch ==
    /\ update = "following" /\ up /\ commit # from
    /\ Launch
    /\ relaunches' = relaunches + 1
    /\ UNCHANGED <<server, disturbances>>

\* A poll of AlertPoller ended with something else than a 401.
PollDone ==
    /\ boot = "on" /\ update = "pending"
    /\ up => signedIn
    /\ CheckUpdateOnce(onAppOrigin)
    /\ UNCHANGED <<server, window, refresh, relaunches, disturbances>>

(***************************************************************************)
(* The surroundings: the server and its updater, the user, the system.     *)
(***************************************************************************)
Disturb == disturbances < MaxDisturbances /\ disturbances' = disturbances + 1

\* The server comes up, with what its updater made of it.
ServerStarts ==
    /\ ~up /\ up' = TRUE
    /\ \/ applying = "running" /\ commit' = Latest /\ applying' = "no"
       \/ applying = "running" /\ applying' = "failed" /\ UNCHANGED commit
       \/ applying # "running" /\ UNCHANGED <<commit, applying>>
    /\ UNCHANGED <<signedIn, window, refresh, updating, relaunches, disturbances>>

UpdaterRestartsServer ==
    /\ applying = "running" /\ up /\ up' = FALSE
    /\ UNCHANGED <<commit, applying, signedIn, window, refresh, updating, relaunches, disturbances>>

ServerStops ==
    /\ Disturb
    /\ up /\ up' = FALSE
    /\ UNCHANGED <<commit, applying, signedIn, window, refresh, updating, relaunches>>

\* Signing in sets a new cookie, whose "changed" event checks for an update.
SignIn ==
    /\ Disturb
    /\ up /\ ~signedIn /\ signedIn' = TRUE
    /\ CheckUpdateOnce(onAppOrigin)
    /\ UNCHANGED <<up, commit, applying, window, refresh, relaunches>>

SessionExpires ==
    /\ Disturb
    /\ signedIn /\ signedIn' = FALSE
    /\ UNCHANGED <<up, commit, applying, window, refresh, updating, relaunches>>

\* "Retry" on the waiting page, or "Restart service" in the tray.
Retry(c) ==
    /\ Disturb
    /\ Begin(c)
    /\ UNCHANGED <<server, page, refresh, updating, relaunches>>

\* A tray item or a toast opens a route.
Open ==
    /\ Disturb
    /\ GoTo
    /\ UNCHANGED <<server, page, onAppOrigin, current, refresh, updating, relaunches>>

\* The OAuth window is done, or markAllRead's request is.
ReloadDashboard ==
    /\ Disturb
    /\ onAppOrigin /\ Reload
    /\ UNCHANGED <<server, page, onAppOrigin, current, refresh, updating, relaunches>>

\* The process is quit or killed, and started again.
Restart ==
    /\ Disturb
    /\ Launch
    /\ UNCHANGED <<server, relaunches>>

Init ==
    /\ up \in BOOLEAN /\ commit \in 1..Latest /\ applying = "no" /\ signedIn \in BOOLEAN
    /\ page = "blank" /\ onAppOrigin = FALSE
    /\ current \in Calls
    /\ call = [c \in Calls |-> IF c = current THEN "file" ELSE "idle"]
    /\ boot = current
    /\ nav = [to |-> "waiting", by |-> current]
    /\ refresh = None
    /\ update = "pending" /\ from = 0 /\ prompts = 0
    /\ relaunches = 0 /\ disturbances = 0

Next ==
    \/ \E c \in Calls : FileLoaded(c) \/ Healthy(c) \/ GiveUp(c) \/ AppLoaded(c) \/ Retry(c)
    \/ NavLoaded \/ NavFails \/ RefreshStart \/ RefreshEnd
    \/ AskServer \/ (\E answer \in {"now", "later"} : AnswerDialog(answer))
    \/ Apply \/ StopFollowing \/ Relaunch
    \/ PollDone
    \/ ServerStarts \/ UpdaterRestartsServer \/ ServerStops
    \/ SignIn \/ SessionExpires \/ Open \/ ReloadDashboard \/ Restart

\* Timers fire and requests end.  A load that is begun again and again is let
\* finish once: the timer that begins it is slower than a load.
Fairness ==
    /\ \A c \in Calls : /\ SF_vars(FileLoaded(c)) /\ SF_vars(Healthy(c))
                         /\ SF_vars(AppLoaded(c)) /\ WF_vars(GiveUp(c))
    /\ SF_vars(NavLoaded) /\ WF_vars(NavFails)
    /\ WF_vars(RefreshStart) /\ WF_vars(RefreshEnd)

Spec == Init /\ [][Next]_vars /\ Fairness

(***************************************************************************)
(* Properties.                                                             *)
(***************************************************************************)
TypeOK ==
    /\ page \in {"blank", "waiting", "app", "error"}
    /\ nav = None \/ nav \in [to : {"waiting", "app"}, by : Calls \cup {"user", "reload"}]
    /\ call \in [Calls -> {"idle", "file", "waiting", "app"}] /\ current \in Calls
    /\ boot \in Calls \cup {"on", "failed"}
    /\ update \in {"pending", "asking", "dialog", "applying", "following", "done"}

\* onAppOrigin never claims the dashboard while another page is shown: routes
\* are sent over the preload bridge only to a dashboard.
OriginIsTruthful == onAppOrigin => page = "app"

\* One launch asks about an update at most once, whatever triggers overlap.
PromptedOncePerLaunch == prompts <= 1

\* A relaunch means a new version: the shell never relaunches in a loop.
RelaunchOncePerUpdate == relaunches <= commit - 1

\* Once the launch went through, a server that stays up gets its dashboard
\* back into the window.
DashboardComesBack == <>[](up /\ boot = "on") => []<>(page = "app")

\* main.js: the app "survives the backend going away and coming back".
SurvivesOutages == <>[]up => []<>(page = "app")
=============================================================================
