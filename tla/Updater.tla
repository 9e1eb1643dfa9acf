------------------------------- MODULE Updater -------------------------------
(***************************************************************************)
(* The in-app update: the route that starts it (routes_update.py), the     *)
(* worker that pulls, installs, builds, restarts the service and rolls     *)
(* back (windows/update.ps1, service mode), and the Updates section of a   *)
(* page that follows it across the restart (UpdatesSection.jsx).           *)
(*                                                                         *)
(* Commits are numbers; commit 0 is checked out and running at first.      *)
(***************************************************************************)
EXTENDS Naturals

CONSTANTS
    MaxCommits,     \* bound: commits pushed to GitHub
    Ticks,          \* progress polls of the page that may overlap
    Down,           \* no server answers
    None,
    MaxKills        \* bound: power cuts in the middle of an update

VARIABLES
    origin, head,   \* GitHub's main, and what is checked out
    broken,         \* the commits whose server does not come up
    service,        \* the Windows service: "stopped", "starting" or "up"
    serving,        \* the commit the server was started from, or Down
    run,            \* the status file
    worker,         \* where update.ps1 is
    problems,       \* the roll-back ran into trouble
    stale,          \* the status file is older than STALE_RUN_SECONDS
    phase, data,    \* the page: its phase, and the payload it last read
    countdown,      \* it is counting down to the reload
    gaveUp,         \* four minutes passed since the server went away
    ticks,          \* its progress polls
    kills

machine == <<origin, head, broken, service, serving>>
update  == <<run, worker, problems, stale>>
page    == <<phase, data, countdown, gaveUp, ticks>>
vars    == <<machine, update, page, kills>>

Commits == 0..MaxCommits
NoRun   == [state |-> "none", previous |-> None, target |-> None, new |-> None]
Idle    == [at |-> "free", flow |-> "none", target |-> None, payload |-> None, commit |-> None]

TypeOK ==
    /\ origin \in Commits /\ head \in 0..origin /\ broken \subseteq Commits
    /\ service \in {"stopped", "starting", "up"} /\ serving \in Commits \cup {Down}
    /\ run.state \in {"none", "running", "done", "failed", "rolled_back"}
    /\ worker \in {"gone", "preflight", "pull", "deps", "depsStopped", "frontend", "restart", "wait",
                   "reset", "restore", "waitBack"}
    /\ problems \in BOOLEAN /\ stale \in BOOLEAN
    /\ phase \in {"none", "running", "restarting", "reconnected", "timeout", "finished"}
    /\ countdown \in BOOLEAN /\ gaveUp \in BOOLEAN /\ kills \in 0..MaxKills

Init ==
    /\ origin = 0 /\ head = 0 /\ broken \in SUBSET (Commits \ {0}) /\ service = "up" /\ serving = 0
    /\ run = NoRun /\ worker = "gone" /\ problems = FALSE /\ stale = FALSE
    /\ phase = "none" /\ data = None /\ countdown = FALSE /\ gaveUp = FALSE
    /\ ticks = [t \in Ticks |-> Idle] /\ kills = 0

Push ==
    /\ origin < MaxCommits /\ worker = "gone" /\ origin' = origin + 1
    /\ UNCHANGED <<head, broken, service, serving, update, page, kills>>

(***************************************************************************)
(* What the server answers.                                                *)
(***************************************************************************)
IsApplyRunning == run.state = "running" /\ ~stale
Available      == head < origin
Payload        == [serving |-> serving, available |-> Available, apply |-> run]
Health         == serving

(***************************************************************************)
(* update.ps1: its steps, each of which rewrites the status file.          *)
(***************************************************************************)
Goto(step) == worker' = step /\ stale' = FALSE

Finish(state) ==
    /\ run' = [run EXCEPT !.state = state] /\ worker' = "gone" /\ stale' = FALSE

Preflight ==
    /\ worker = "preflight"
    /\ \/ head = run.previous /\ Goto("pull") /\ UNCHANGED run
       \/ Finish("failed")                                  \* a tool is missing, or the checkout moved
    /\ UNCHANGED <<machine, problems, page, kills>>

Pull ==
    /\ worker = "pull"
    /\ \/ head' = origin /\ Goto("deps")
          /\ run' = [run EXCEPT !.new = origin, !.target = origin]
       \/ Finish("failed") /\ UNCHANGED head               \* nothing was changed
       \/ head' = origin /\ Goto("reset") /\ UNCHANGED run \* git failed, but moved HEAD
    /\ UNCHANGED <<origin, broken, service, serving, problems, page, kills>>

\* pip cannot replace the packages of a running server: stop it, and try again.
InstallDeps ==
    /\ worker \in {"deps", "depsStopped"}
    /\ \/ Goto("frontend") /\ UNCHANGED <<service, serving>>
       \/ worker = "deps" /\ Goto("depsStopped") /\ service' = "stopped" /\ serving' = Down
       \/ worker = "depsStopped" /\ Goto("reset") /\ UNCHANGED <<service, serving>>
    /\ UNCHANGED <<origin, head, broken, run, problems, page, kills>>

BuildFrontend ==
    /\ worker = "frontend" /\ (Goto("restart") \/ Goto("reset"))
    /\ UNCHANGED <<machine, run, problems, page, kills>>

\* Invoke-Restart, up to its wait for the expected commit.
Restarted(waiting, failed) ==
    \/ Goto(waiting) /\ service' = "starting" /\ serving' = Down
    \/ Goto(failed) /\ UNCHANGED <<service, serving>>

Restart ==
    /\ worker = "restart" /\ Restarted("wait", "reset")
    /\ UNCHANGED <<origin, head, broken, run, problems, page, kills>>

\* /api/health answers with the new commit, or 120 seconds pass without an answer.
AwaitRestart ==
    /\ worker = "wait"
    /\ \/ Health = run.new /\ Finish("done")
       \/ Health # run.new /\ Goto("reset") /\ UNCHANGED run
    /\ UNCHANGED <<machine, problems, page, kills>>

\* Invoke-Rollback: git reset, the old packages, the old build.
Reset ==
    /\ worker = "reset" /\ Goto("restore")
    /\ \/ head' = run.previous /\ problems' \in BOOLEAN
       \/ problems' = TRUE /\ UNCHANGED head
    /\ UNCHANGED <<origin, broken, service, serving, run, page, kills>>

Outcome(failed) == IF failed THEN "failed" ELSE "rolled_back"

\* Mutant: a roll-back whose restart failed is reported like one that came up.
RestartBack_unreported ==
    /\ worker = "restore"
    /\ \/ Goto("waitBack") /\ service' = "starting" /\ serving' = Down /\ UNCHANGED run
       \/ Finish(Outcome(problems)) /\ UNCHANGED <<service, serving>>
    /\ UNCHANGED <<origin, head, broken, problems, page, kills>>

RestartBack ==
    /\ worker = "restore"
    /\ \/ Goto("waitBack") /\ service' = "starting" /\ serving' = Down /\ UNCHANGED run
       \/ Finish("failed") /\ UNCHANGED <<service, serving>>
    /\ UNCHANGED <<origin, head, broken, problems, page, kills>>

AwaitRollback ==
    /\ worker = "waitBack"
    /\ \/ Health = run.previous /\ Finish(Outcome(problems))
       \/ Health # run.previous /\ Finish("failed")
    /\ UNCHANGED <<machine, problems, page, kills>>

Worker ==
    \/ Preflight \/ Pull \/ InstallDeps \/ BuildFrontend \/ Restart \/ AwaitRestart
    \/ Reset \/ RestartBack \/ AwaitRollback

\* The service comes up on what is checked out, unless that build is broken.
ServerStarts ==
    /\ service = "starting" /\ head \notin broken
    /\ service' = "up" /\ serving' = head
    /\ UNCHANGED <<origin, head, broken, update, page, kills>>

\* The machine loses power in the middle: the worker is gone, the service starts again.
Kill ==
    /\ kills < MaxKills /\ kills' = kills + 1 /\ worker # "gone"
    /\ worker' = "gone" /\ service' = "starting" /\ serving' = Down
    /\ UNCHANGED <<origin, head, broken, run, problems, stale, page>>

GrowsStale ==
    /\ run.state = "running" /\ worker = "gone" /\ ~stale /\ stale' = TRUE
    /\ UNCHANGED <<machine, run, worker, problems, page, kills>>

(***************************************************************************)
(* The Updates section.                                                    *)
(***************************************************************************)
Flow ==
    IF phase # "none" THEN phase
    ELSE IF data # None /\ data.apply.state = "running" THEN "running" ELSE "none"

Following == Flow \in {"running", "restarting"}

Target == IF data = None THEN None ELSE IF data.apply.new # None THEN data.apply.new ELSE data.apply.target

\* The button is there and enabled (the viewer is an administrator).
Offered == data # None /\ data.available /\ ~Following /\ data.apply.state # "running"

\* The shared store reads the status: on mount, on its timer, and for "Check now".
Refresh ==
    /\ serving # Down /\ data' = Payload /\ data # Payload
    /\ UNCHANGED <<machine, update, phase, countdown, gaveUp, ticks, kills>>

\* "Update now", confirmed: the route checks GitHub itself, and starts the worker.
StartUpdate ==
    /\ Offered /\ serving # Down
    /\ IF ~IsApplyRunning /\ Available
       THEN /\ run' = [state |-> "running", previous |-> head, target |-> origin, new |-> None]
            /\ worker' = "preflight" /\ stale' = FALSE /\ problems' = FALSE
            /\ data' = [Payload EXCEPT !.apply = run'] /\ phase' = "running"
       ELSE UNCHANGED <<update, phase>> /\ data' = Payload           \* refused: 409
    /\ UNCHANGED <<machine, countdown, gaveUp, ticks, kills>>

\* Every two seconds while it follows; a tick does not wait for the one before.
TickStarts(t) ==
    /\ Following /\ ticks[t].at = "free"
    /\ ticks' = [ticks EXCEPT ![t] = [Idle EXCEPT !.at = IF Flow = "running" THEN "status" ELSE "health",
                                                  !.flow = Flow, !.target = Target]]
    /\ UNCHANGED <<machine, update, phase, data, countdown, gaveUp, kills>>

\* The server handles the request a tick waits for; what it says may be old when it is read.
Handled(t) ==
    /\ ticks[t].at \in {"status", "health", "confirm", "recheck"} /\ serving # Down
    /\ ticks' = [ticks EXCEPT ![t].at = CASE @ = "status"  -> "statusHere"
                                          [] @ = "health"  -> "healthHere"
                                          [] @ = "confirm" -> "confirmHere"
                                          [] @ = "recheck" -> "recheckHere",
                              ![t].payload = IF ticks[t].at \in {"status", "recheck"} THEN Payload ELSE @,
                              ![t].commit = IF ticks[t].at \in {"health", "confirm"} THEN Health ELSE @]
    /\ UNCHANGED <<machine, update, phase, data, countdown, gaveUp, kills>>

Ends(t)      == ticks' = [ticks EXCEPT ![t] = Idle]
Asks(t, for) == ticks' = [ticks EXCEPT ![t].at = for]
Reconnect    == phase' = "reconnected" /\ countdown' = TRUE

\* tick, while flow is "running": the status was read.
ReadsStatus(t) ==
    LET body == ticks[t].payload IN
    /\ ticks[t].at = "statusHere" /\ data' = body
    /\ CASE body.apply.state = "done"               -> Asks(t, "confirm") /\ UNCHANGED phase
         [] body.apply.state \in {"none", "running"} -> Ends(t) /\ UNCHANGED phase
         [] OTHER                                    -> Ends(t) /\ phase' = "finished"
    /\ UNCHANGED <<machine, update, countdown, gaveUp, kills>>

Confirms(t) ==
    /\ ticks[t].at = "confirmHere" /\ Ends(t)
    /\ IF ticks[t].commit = ticks[t].payload.apply.new
       THEN Reconnect ELSE phase' = "finished" /\ UNCHANGED countdown
    /\ UNCHANGED <<machine, update, data, gaveUp, kills>>

\* tick, while flow is "restarting": the server is back, on the new commit or the old one.
SameCommit(a, b) == a # None /\ a = b

ReadsHealth(t) ==
    /\ ticks[t].at = "healthHere"
    /\ IF SameCommit(ticks[t].commit, ticks[t].target)
       THEN Ends(t) /\ Reconnect
       ELSE Asks(t, "recheck") /\ UNCHANGED <<phase, countdown>>
    /\ UNCHANGED <<machine, update, data, gaveUp, kills>>

Rechecks(t) ==
    /\ ticks[t].at = "recheckHere" /\ Ends(t)
    /\ data' = ticks[t].payload
    /\ phase' = IF ticks[t].payload.apply.state \in {"none", "running"} THEN phase ELSE "finished"
    /\ UNCHANGED <<machine, update, countdown, gaveUp, kills>>

\* A request fails: the server is down, or its answer was lost with it.
Fails(t) ==
    /\ ticks[t].at # "free" /\ serving = Down /\ Ends(t)
    /\ CASE ticks[t].at \in {"status", "statusHere"}   -> phase' = "restarting" /\ gaveUp' = FALSE
         [] ticks[t].at \in {"confirm", "confirmHere"} -> phase' = "finished" /\ UNCHANGED gaveUp
         [] ticks[t].at \in {"health", "healthHere"}   ->
                phase' = (IF gaveUp THEN "timeout" ELSE phase) /\ UNCHANGED gaveUp
         [] OTHER                                      -> UNCHANGED <<phase, gaveUp>>
    /\ UNCHANGED <<machine, update, data, countdown, kills>>

FourMinutesPass ==
    /\ phase = "restarting" /\ ~gaveUp /\ gaveUp' = TRUE
    /\ UNCHANGED <<machine, update, phase, data, countdown, ticks, kills>>

\* The countdown ran out, or the user reloads: a new page.
Reload ==
    /\ (phase = "reconnected" /\ countdown) \/ phase \in {"timeout", "finished"}
    /\ serving # Down
    /\ phase' = "none" /\ data' = None /\ countdown' = FALSE /\ gaveUp' = FALSE
    /\ ticks' = [t \in Ticks |-> Idle]
    /\ UNCHANGED <<machine, update, kills>>

TickGoesOn(t) ==
    TickStarts(t) \/ Handled(t) \/ ReadsStatus(t) \/ Confirms(t) \/ ReadsHealth(t) \/ Rechecks(t) \/ Fails(t)

Next ==
    \/ Push \/ Worker \/ ServerStarts \/ Kill \/ GrowsStale
    \/ Refresh \/ StartUpdate \/ FourMinutesPass \/ Reload
    \/ \E t \in Ticks : TickGoesOn(t)

\* The worker runs on, the service manager starts the service, and the page's timers fire.
Fairness ==
    /\ WF_vars(Worker) /\ WF_vars(ServerStarts) /\ WF_vars(FourMinutesPass)
    /\ \A t \in Ticks : WF_vars(TickGoesOn(t))

Spec == Init /\ [][Next]_vars /\ Fairness

\* What the status file says of a finished update is so: "done" - the new commit is checked out
\* and the only one that is served; "rolled_back" - the commit from before it is.
ReportIsTrue ==
    /\ run.state = "done"        => head = run.new /\ serving \in {run.new, Down}
    /\ run.state = "rolled_back" => head = run.previous /\ serving \in {run.previous, Down}

\* A page that announces the update and reloads has not been taken in by the server it left:
\* the commit it read from the health check is not the one the update began from.
OldBuildIsNotAnnounced ==
    [][ (phase' = "reconnected" /\ phase # "reconnected")
        => \E t \in Ticks : /\ ticks[t].at \in {"healthHere", "confirmHere"}
                            /\ ticks[t].commit # run.previous ]_vars

\* Following ends: with the new build, with the report of a failed or rolled-back update, or with
\* the advice to look at the service - unless the power went off under the worker.
FollowingEnds == []<>(~Following \/ kills > 0)

\* An update whose worker died does not block updates for ever (updater.py 55-56).
DeadUpdaterDoesNotBlock ==
    (run.state = "running" /\ stale /\ serving # Down /\ data = Payload /\ Available) => Offered
=============================================================================
