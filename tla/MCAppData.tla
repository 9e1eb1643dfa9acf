------------------------------ MODULE MCAppData ------------------------------
(***************************************************************************)
(* The web application and its data: the door, the hooks that load what    *)
(* the screens show, and the in-app update.  The three share no state: one *)
(* of them is chosen, and runs alone.                                      *)
(***************************************************************************)
EXTENDS Naturals

CONSTANTS None, Down, NoKey, k1, k2, t1

VARIABLES
    part,
    status, wire, cookie, sessions, issued, account, qr, codes, mode, losses,
    hook, stream, mounted, key, shown, requests, kept, events, writes, moves, failures,
    origin, head, broken, service, serving, run, worker, problems, stale,
    phase, data, countdown, gaveUp, ticks, kills

doorVars   == <<status, wire, cookie, sessions, issued, account, qr, codes, mode, losses>>
screenVars == <<hook, stream, mounted, key, shown, requests, kept, events, writes, moves, failures>>
updateVars == <<origin, head, broken, service, serving, run, worker, problems, stale,
                phase, data, countdown, gaveUp, ticks, kills>>
vars       == <<part, doorVars, screenVars, updateVars>>

Door == INSTANCE SignIn WITH MaxTokens <- 4, MaxLosses <- 1

Pages == INSTANCE Screens WITH
            Keys <- {k1, k2}, FirstKey <- k1, EventKinds <- {"order", "scanner"}, Slots <- {1, 2},
            MaxWrites <- 1, MaxMoves <- 3, MaxFailures <- 1

Update == INSTANCE Updater WITH MaxCommits <- 1, Ticks <- {t1}, MaxKills <- 1

\* The parts that do not run start in one state only.
Init ==
    /\ part \in {"door", "screens", "update"}
    /\ Door!Init /\ Pages!Init /\ Update!Init
    /\ part # "door" => account = "none"
    /\ part # "screens" => hook = "useLots"
    /\ part # "update" => broken = {}

Chosen(name) == part = name /\ UNCHANGED part

DoorRuns(step)    == Chosen("door") /\ step /\ UNCHANGED <<screenVars, updateVars>>
ScreensRun(step)  == Chosen("screens") /\ step /\ UNCHANGED <<doorVars, updateVars>>
UpdateRuns(step)  == Chosen("update") /\ step /\ UNCHANGED <<doorVars, screenVars>>

Next == DoorRuns(Door!Next) \/ ScreensRun(Pages!Next) \/ UpdateRuns(Update!Next)

Spec ==
    /\ Init /\ [][Next]_vars
    /\ WF_vars(DoorRuns(Door!AskForData)) /\ WF_vars(DoorRuns(Door!AskForQr))
    /\ \A k \in Door!Kinds :
          /\ WF_vars(DoorRuns(Door!Refuse(k) \/ Door!Grant(k)))
          /\ WF_vars(DoorRuns(Door!Arrive(k)))
    /\ WF_vars(ScreensRun(Pages!Poll)) /\ WF_vars(ScreensRun(Pages!StreamOpens))
    /\ WF_vars(ScreensRun(Pages!ReopenTimer)) /\ WF_vars(ScreensRun(Pages!EventArrives))
    /\ \A s \in {1, 2} : WF_vars(ScreensRun(Pages!Handle(s))) /\ WF_vars(ScreensRun(Pages!Arrive(s)))
    /\ WF_vars(UpdateRuns(Update!Worker)) /\ WF_vars(UpdateRuns(Update!ServerStarts))
    /\ WF_vars(UpdateRuns(Update!FourMinutesPass)) /\ WF_vars(UpdateRuns(Update!TickGoesOn(t1)))

\* The screen never asks for a step the held session is past or short of.
ScreenFollowsSession == Door!ScreenFollowsSession
\* Whoever wants events has a source or is about to.
StreamServesItsListeners == Pages!StreamServesItsListeners
\* What the status file says of a finished update is so.
ReportIsTrue == Update!ReportIsTrue

\* A screen that polls, left open on a visible tab, ends with what the server keeps.
PolledScreensCatchUp == part = "screens" => Pages!PolledScreensCatchUp
\* An answer asked for under one key never takes the place of another's, and the build an update
\* began from is not announced as the new one.
LateAnswersAreHarmless == Pages!LateAnswersStayOut /\ Update!OldBuildIsNotAnnounced
\* A dead session ends the dashboard, and following an update ends.
NobodyIsLeftWaiting ==
    /\ part = "door" => Door!DeadSessionEndsTheScreen
    /\ part = "update" => Update!FollowingEnds
=============================================================================
