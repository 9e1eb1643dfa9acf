-------------------------------- MODULE Jobs --------------------------------
(***************************************************************************)
(* The scheduler of the server (main.py 394-770): one job per source and   *)
(* one for the derived step, all run by one refresh thread.  Three parties *)
(* take turns in it: APScheduler, which fires the jobs that are due, the   *)
(* refresh thread, which runs what was queued and moves the next runs, and *)
(* the administrator's requests, handled by a thread of their own.         *)
(*                                                                         *)
(* Times are no more than these: a job that is "due", one that will be     *)
(* "soon" (within the debounce of the derived step), one that will be      *)
(* "later" and one that is "paused".                                       *)
(***************************************************************************)
EXTENDS Naturals, Sequences

CONSTANTS
    Sources,        \* the sources whose data the derived step reads
    Derived,        \* that step
    Nobody,         \* the thread runs nothing
    Puts,           \* the schedule edits that may be handled at once
    MaxEdits,       \* bound: schedule edits
    MaxManual       \* bound: manual runs

Jobs == Sources \cup {Derived}

VARIABLES
    enabled,        \* the schedule rows: is it on?
    next,           \* APScheduler: each job's next run
    instances,      \* APScheduler: the jobs that are queued or running by it
    pool,           \* the work the refresh thread has before it
    queued,         \* _QUEUED
    thread,         \* where the refresh thread is
    puts,           \* where each schedule edit is
    manual, edits,
    fresh,          \* ghost: a source stored data after the last derived run began
    rearmed         \* ghost: an edit gave the derived step its own clock back meanwhile

scheduler == <<enabled, next, instances>>
work      == <<pool, queued, thread>>
ghosts    == <<fresh, rearmed>>
vars      == <<scheduler, work, puts, manual, edits, ghosts>>

\* A piece of work: the job, and 0 for a scheduled run or the number of a manual one.
Item(job, n) == [job |-> job, n |-> n]

Idle == [at |-> "idle", item |-> Item(Nobody, 0)]
Free == [at |-> "free", job |-> Nobody, on |-> FALSE]

TypeOK ==
    /\ enabled \in [Jobs -> BOOLEAN]
    /\ next \in [Jobs -> {"paused", "later", "soon", "due"}]
    /\ instances \subseteq Jobs
    /\ \A i \in DOMAIN pool : pool[i] \in [job : Jobs, n : 0..MaxManual]
    /\ queued \subseteq [job : Jobs, n : 0..MaxManual]
    /\ thread.at \in {"idle", "run", "stored", "pull", "look", "move", "end", "event"}
    /\ \A p \in Puts : puts[p].at \in {"free", "read", "written"}
    /\ manual \in 0..MaxManual /\ edits \in 0..MaxEdits
    /\ fresh \in BOOLEAN /\ rearmed \in BOOLEAN

\* _install_source_jobs: what was due while the server was down is due soon.
Init ==
    /\ enabled \in [Jobs -> BOOLEAN]
    /\ next = [j \in Jobs |-> IF enabled[j] THEN "later" ELSE "paused"]
    /\ instances = {} /\ pool = <<>> /\ queued = {} /\ thread = Idle
    /\ puts = [p \in Puts |-> Free]
    /\ manual = 0 /\ edits = 0 /\ fresh = FALSE /\ rearmed = FALSE

ModifyJob(job, when) == next' = [next EXCEPT ![job] = when]

(***************************************************************************)
(* APScheduler.  A due job is submitted unless an instance of it is queued *)
(* or running already, and gets its next time either way; both happen      *)
(* under the lock that modify_job and get_job take.                        *)
(***************************************************************************)
TimePasses(j) ==
    /\ next[j] \in {"later", "soon"} /\ ModifyJob(j, "due")
    /\ UNCHANGED <<enabled, instances, work, puts, manual, edits, ghosts>>

DoSubmitJob(j) ==
    /\ queued' = queued \cup {Item(j, 0)}
    /\ pool' = Append(pool, Item(j, 0))
    /\ instances' = instances \cup {j}

\* Mutant: with a grace time, a job the busy thread made late may be dropped.
Fire_orDropped(j) ==
    /\ next[j] = "due"
    /\ \/ j \notin instances /\ DoSubmitJob(j)
       \/ pool # <<>> /\ UNCHANGED <<queued, pool, instances>>
    /\ ModifyJob(j, "later")
    /\ UNCHANGED <<enabled, thread, puts, manual, edits, ghosts>>

Fire(j) ==
    /\ next[j] = "due"
    /\ IF j \notin instances THEN DoSubmitJob(j) ELSE UNCHANGED <<queued, pool, instances>>
    /\ ModifyJob(j, "later")
    /\ UNCHANGED <<enabled, thread, puts, manual, edits, ghosts>>

(***************************************************************************)
(* The refresh thread.                                                     *)
(***************************************************************************)
At(place)   == thread.at = place
Goto(place) == thread' = [thread EXCEPT !.at = place]
Running     == thread.item.job

\* _timed_job, or the body of _enqueue: no longer queued.
Starts ==
    /\ At("idle") /\ pool # <<>>
    /\ thread' = [at |-> "run", item |-> Head(pool)] /\ pool' = Tail(pool)
    /\ queued' = queued \ {Head(pool)}
    /\ IF Head(pool).job = Derived THEN fresh' = FALSE /\ rearmed' = FALSE ELSE UNCHANGED ghosts
    /\ UNCHANGED <<scheduler, puts, manual, edits>>

\* run_source, which never raises; the derived members feed nothing.
RunSource ==
    /\ At("run")
    /\ \/ Running = Derived /\ Goto("end") /\ UNCHANGED ghosts
       \/ Running # Derived /\ Goto("stored") /\ fresh' = TRUE /\ UNCHANGED rearmed
       \/ Running # Derived /\ Goto("look") /\ UNCHANGED ghosts          \* failed, or deferred
    /\ UNCHANGED <<scheduler, pool, queued, puts, manual, edits>>

\* Mutant: any run that waits is taken for the derived one.
DerivedWaits_anyRun == queued # {}

\* _request_derived: not while a derived run waits, and never later than it was.
DerivedWaits == \E e \in queued : e.job = Derived

RequestDerived ==
    /\ At("stored")
    /\ IF ~DerivedWaits /\ next[Derived] = "later" THEN Goto("pull") ELSE Goto("look")
    /\ UNCHANGED <<scheduler, pool, queued, puts, manual, edits, ghosts>>

PullDerivedForward ==
    /\ At("pull") /\ Goto("look") /\ ModifyJob(Derived, "soon")
    /\ UNCHANGED <<enabled, instances, pool, queued, puts, manual, edits, ghosts>>

\* _after_run and _set_next_run: the job is looked at, and then moved.
LookAtJob ==
    /\ At("look") /\ Goto(IF next[Running] = "paused" THEN "end" ELSE "move")
    /\ UNCHANGED <<scheduler, pool, queued, puts, manual, edits, ghosts>>

MoveNextRun ==
    /\ At("move") /\ Goto("end") /\ ModifyJob(Running, "later")
    /\ UNCHANGED <<enabled, instances, pool, queued, puts, manual, edits, ghosts>>

\* A manual run is over with its body; APScheduler counts its own down, and then tells.
Ends ==
    /\ At("end")
    /\ IF thread.item.n = 0
       THEN Goto("event") /\ instances' = instances \ {Running}
       ELSE thread' = Idle /\ UNCHANGED instances
    /\ UNCHANGED <<enabled, next, pool, queued, puts, manual, edits, ghosts>>

\* _on_job_event takes the queue entry of the job away, whosever it is.
OnJobEvent ==
    /\ At("event") /\ thread' = Idle /\ queued' = queued \ {thread.item}
    /\ UNCHANGED <<scheduler, pool, puts, manual, edits, ghosts>>

Thread ==
    \/ Starts \/ RunSource \/ RequestDerived \/ PullDerivedForward
    \/ LookAtJob \/ MoveNextRun \/ Ends \/ OnJobEvent

(***************************************************************************)
(* The administrator.  put_schedule reads the row, writes it with the      *)
(* change in it, and re-arms the job; another edit than the switch keeps   *)
(* the row as on as it was.                                                *)
(***************************************************************************)
PutReads(p, j) ==
    /\ puts[p].at = "free" /\ edits < MaxEdits /\ edits' = edits + 1
    /\ \E on \in {enabled[j], ~enabled[j]} : puts' = [puts EXCEPT ![p] = [at |-> "read", job |-> j, on |-> on]]
    /\ UNCHANGED <<scheduler, work, manual, ghosts>>

PutWrites(p) ==
    /\ puts[p].at = "read" /\ puts' = [puts EXCEPT ![p].at = "written"]
    /\ enabled' = [enabled EXCEPT ![puts[p].job] = puts[p].on]
    /\ UNCHANGED <<next, instances, work, manual, edits, ghosts>>

\* _apply_schedule
PutArms(p) ==
    /\ puts[p].at = "written" /\ puts' = [puts EXCEPT ![p] = Free]
    /\ ModifyJob(puts[p].job, IF puts[p].on THEN "later" ELSE "paused")
    /\ rearmed' = (rearmed \/ puts[p].job = Derived)
    /\ UNCHANGED <<enabled, instances, work, manual, edits, fresh>>

\* run-now, and the manual refresh of a source.
Enqueue(j) ==
    /\ manual < MaxManual /\ manual' = manual + 1
    /\ queued' = queued \cup {Item(j, manual')} /\ pool' = Append(pool, Item(j, manual'))
    /\ UNCHANGED <<scheduler, thread, puts, edits, ghosts>>

Next ==
    \/ \E j \in Jobs : TimePasses(j) \/ Fire(j) \/ Enqueue(j)
    \/ Thread
    \/ \E p \in Puts : (\E j \in Jobs : PutReads(p, j)) \/ PutWrites(p) \/ PutArms(p)

\* Clocks, the scheduler's loop, the refresh thread and the threads of requests run on.
Fairness ==
    /\ \A j \in Jobs : WF_vars(TimePasses(j)) /\ WF_vars(Fire(j))
    /\ WF_vars(Thread)
    /\ \A p \in Puts : WF_vars(PutWrites(p)) /\ WF_vars(PutArms(p))

Spec == Init /\ [][Next]_vars /\ Fairness

BeingEdited(j) == \E p \in Puts : puts[p].at # "free" /\ puts[p].job = j

\* Fresh data is always waited for by a derived run: one that is queued or due within the
\* debounce, or that the thread is just asking for - unless the step is paused, or an edit of it
\* has set its clock anew.  Whatever is queued, coalesced or started meanwhile (main.py 527-545).
FreshDataIsAwaited ==
    fresh => \/ thread.at \in {"stored", "pull"}
             \/ \E i \in DOMAIN pool : pool[i].job = Derived
             \/ next[Derived] \in {"soon", "due", "paused"}
             \/ rearmed \/ BeingEdited(Derived)

\* A schedule that is on has a next run, whatever the thread and the edits do to it in turn.
EnabledJobsAreArmed == \A j \in Jobs : enabled[j] /\ ~BeingEdited(j) => next[j] # "paused"

\* "A paused (disabled) job stays paused" (main.py 499).
PausedStaysPaused == \A j \in Jobs : ~enabled[j] /\ ~BeingEdited(j) => next[j] = "paused"

\* What waits for the thread is on the list the Server page shows (main.py 411-413: a job is
\* recorded "as queued before the pool can start it").
WaitingIsListed == \A i \in DOMAIN pool : pool[i] \in queued

\* "A late job runs late instead of being dropped" (main.py 436-439): one that is due starts, if
\* it is not running already or paused before that.
DueJobsRun == \A j \in Jobs : next[j] = "due" ~> (Running = j \/ next[j] = "paused")
=============================================================================
