------------------------------- MODULE MCServer -------------------------------
(***************************************************************************)
(* What an administrator and a user set on the server: the scheduler's     *)
(* jobs, the page that edits their rows, and the settings.  The three      *)
(* share no state: one of them is chosen, and runs alone.                  *)
(***************************************************************************)
EXTENDS Naturals

CONSTANTS
    Sources, Derived, Nobody, Puts,     \* of Jobs
    Days, Times, Morning,               \* of ServerPage
    MaxScheduleEdits, MaxManual, MaxRowEdits, MaxOthers, MaxFailures, MaxMoves, MaxLosses   \* bounds

\* The derived step is a job of its own, and a row starts with a day and a time.
ASSUME ServerAssumption == Derived \notin Sources /\ Days # {} /\ Morning \in Times

VARIABLES
    part,
    enabled, next, instances, pool, queued, thread, puts, manual, edits, fresh, rearmed,
    kept, row, loaded, panel, pagePuts, poll, pageEdits, others, failures,
    doc, open, draft, load, loading, said, timer, requests, stored, typed, crossed, moves, losses

jobVars      == <<enabled, next, instances, pool, queued, thread, puts, manual, edits, fresh, rearmed>>
pageVars     == <<kept, row, loaded, panel, pagePuts, poll, pageEdits, others, failures>>
settingsVars == <<doc, open, draft, load, loading, said, timer, requests, stored, typed, crossed,
                  moves, losses>>
vars         == <<part, jobVars, pageVars, settingsVars>>

Scheduler == INSTANCE Jobs WITH MaxEdits <- MaxScheduleEdits

Page == INSTANCE ServerPage WITH MaxEdits <- MaxRowEdits, puts <- pagePuts, edits <- pageEdits

Prefs == INSTANCE Settings

\* The parts that do not run start in one state only.
Init ==
    /\ part \in {"jobs", "page", "settings"}
    /\ Scheduler!Init /\ Page!Init /\ Prefs!Init
    /\ part # "jobs" => enabled = [j \in Scheduler!Jobs |-> TRUE]
    /\ part # "settings" => doc = "base"

Chosen(name) == part = name /\ UNCHANGED part

JobsRun(step)     == Chosen("jobs") /\ step /\ UNCHANGED <<pageVars, settingsVars>>
PageRuns(step)    == Chosen("page") /\ step /\ UNCHANGED <<jobVars, settingsVars>>
SettingsRun(step) == Chosen("settings") /\ step /\ UNCHANGED <<jobVars, pageVars>>

Next == JobsRun(Scheduler!Next) \/ PageRuns(Page!Next) \/ SettingsRun(Prefs!Next)

Spec ==
    /\ Init /\ [][Next]_vars
    /\ \A j \in Scheduler!Jobs :
          WF_vars(JobsRun(Scheduler!TimePasses(j))) /\ WF_vars(JobsRun(Scheduler!Fire(j)))
    /\ WF_vars(JobsRun(Scheduler!Thread))
    /\ \A p \in Puts :
          WF_vars(JobsRun(Scheduler!PutWrites(p))) /\ WF_vars(JobsRun(Scheduler!PutArms(p)))
    /\ WF_vars(PageRuns(Page!PollSent)) /\ WF_vars(PageRuns(Page!PollHandled))
    /\ WF_vars(PageRuns(Page!PollAnswered))
    /\ WF_vars(PageRuns(\E p \in pagePuts : Page!Handle(p)))
    /\ WF_vars(PageRuns(\E p \in pagePuts : Page!Saved(p) \/ Page!Rejected(p)))
    /\ WF_vars(SettingsRun(Prefs!LoadHandled)) /\ WF_vars(SettingsRun(Prefs!LoadArrives))
    /\ WF_vars(SettingsRun(Prefs!TimerFires))
    /\ WF_vars(SettingsRun(\E r \in requests : Prefs!Handle(r)))
    /\ WF_vars(SettingsRun(\E r \in requests : Prefs!Taken(r) \/ Prefs!Refused(r)))

\* Fresh data is always waited for by a derived run, and a schedule that is on has a next run.
SchedulesHold == Scheduler!FreshDataIsAwaited /\ Scheduler!EnabledJobsAreArmed
\* A job that is switched off has none (main.py 499).
PausedStaysPaused == Scheduler!PausedStaysPaused
\* No edit empties a schedule's row, and what a page says was saved is what the server has.
EditorsAgree == Page!NothingIsEmptied /\ Prefs!SavedIsStored
\* A job that is due runs, the row of a page comes to be the server's, and saving ends.
WaitsEnd ==
    /\ part = "jobs" => Scheduler!DueJobsRun
    /\ part = "page" => Page!RowSettles
    /\ part = "settings" => Prefs!SavingEnds
=============================================================================
