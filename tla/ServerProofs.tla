---------------------------- MODULE ServerProofs ----------------------------
(***************************************************************************)
(* Proofs about what is set on the server, for any jobs, rows, values and  *)
(* bounds: fresh data is waited for by a derived run and a schedule that   *)
(* is on has a next run; no edit empties a row, and "saved" is what the    *)
(* server has.                                                             *)
(***************************************************************************)
EXTENDS MCServer, Sequences, TLAPS

(***************************************************************************)
(* Queues.                                                                 *)
(***************************************************************************)
Entries(s) == {s[i] : i \in DOMAIN s}

\* What is put at the end of a queue joins its entries.
LEMMA EntriesOfAppend ==
    ASSUME NEW S, NEW s \in Seq(S), NEW x \in S
    PROVE  Append(s, x) \in Seq(S) /\ Entries(Append(s, x)) = Entries(s) \cup {x}
<1>1. /\ Append(s, x) \in Seq(S) /\ Len(s) \in Nat /\ DOMAIN s = 1..Len(s)
      /\ DOMAIN Append(s, x) = 1..(Len(s) + 1)
      /\ Append(s, x)[Len(s) + 1] = x /\ \A i \in 1..Len(s) : Append(s, x)[i] = s[i]
  OBVIOUS
<1>2. 1..(Len(s) + 1) = 1..Len(s) \cup {Len(s) + 1}
  BY <1>1
<1> QED BY <1>1, <1>2 DEF Entries

\* What is taken off the front may leave them.
LEMMA EntriesOfTail ==
    ASSUME NEW S, NEW s \in Seq(S), s # <<>>
    PROVE  Tail(s) \in Seq(S) /\ Head(s) \in S /\ Entries(s) = {Head(s)} \cup Entries(Tail(s))
<1>1. /\ Tail(s) \in Seq(S) /\ Head(s) = s[1] /\ Len(s) \in Nat /\ Len(s) > 0 /\ DOMAIN s = 1..Len(s)
      /\ DOMAIN Tail(s) = 1..(Len(s) - 1) /\ \A i \in 1..(Len(s) - 1) : Tail(s)[i] = s[i + 1]
      /\ Head(s) \in S
  OBVIOUS
<1>2. ASSUME NEW i \in 1..Len(s), i # 1
      PROVE  s[i] \in Entries(Tail(s))
  <2>1. PICK j \in 1..(Len(s) - 1) : j + 1 = i
    <3>1. i - 1 \in 1..(Len(s) - 1) /\ (i - 1) + 1 = i
      BY <1>1, <1>2
    <3> QED BY <3>1
  <2> QED BY <1>1, <2>1 DEF Entries
<1>3. Entries(s) \subseteq {Head(s)} \cup Entries(Tail(s))
  <2> SUFFICES ASSUME NEW i \in DOMAIN s PROVE s[i] \in {Head(s)} \cup Entries(Tail(s))
    BY DEF Entries
  <2> QED BY <1>1, <1>2
<1>4. Entries(Tail(s)) \subseteq Entries(s)
  BY <1>1 DEF Entries
<1>5. Head(s) \in Entries(s)
  BY <1>1 DEF Entries
<1> QED BY <1>1, <1>3, <1>4, <1>5

(***************************************************************************)
(* The scheduler.  A derived run that APScheduler counts waits for the     *)
(* thread or is the one it runs; while the thread runs it, no source       *)
(* stores anything; and what _QUEUED lists does wait.                      *)
(***************************************************************************)
Job      == Scheduler!Jobs
Work     == [job : Job, n : Nat]
Scheduled == Scheduler!Item(Derived, 0)

JobsTyped ==
    /\ enabled \in [Job -> BOOLEAN]
    /\ next \in [Job -> {"paused", "later", "soon", "due"}]
    /\ pool \in Seq(Work) /\ manual \in Nat /\ fresh \in BOOLEAN /\ rearmed \in BOOLEAN
    /\ thread \in [at : {"idle", "run", "stored", "pull", "look", "move", "end", "event"},
                   item : [job : Job \cup {Nobody}, n : Nat]]
    /\ thread.at # "idle" => thread.item \in Work
    /\ puts \in [Puts -> [at : {"free", "read", "written"}, job : Job \cup {Nobody}, on : BOOLEAN]]
    /\ \A p \in Puts : puts[p].at # "free" => puts[p].job \in Job

DerivedRuns == thread.at \in {"run", "end", "event"} /\ thread.item.job = Derived

QueuesAgree ==
    /\ queued \subseteq Entries(pool)
    /\ Derived \in instances =>
         Scheduled \in Entries(pool) \/ (thread.at \in {"run", "end"} /\ thread.item = Scheduled)
    /\ thread.at \in {"stored", "pull", "look", "move"} => thread.item.job # Derived
    /\ DerivedRuns => ~fresh

\* FreshDataIsAwaited, of the entries of the queue.
DerivedPending == \E w \in Entries(pool) : w.job = Derived

Awaited ==
    fresh => \/ thread.at \in {"stored", "pull"} \/ DerivedPending
             \/ next[Derived] \in {"soon", "due", "paused"}
             \/ rearmed \/ Scheduler!BeingEdited(Derived)

JobsInv == JobsTyped /\ QueuesAgree /\ Awaited

\* What an edit has written is what the row says until it has armed the job.
ArmedInv ==
    /\ \A p \in Puts : puts[p].at = "written" => enabled[puts[p].job] = puts[p].on
    /\ Scheduler!EnabledJobsAreArmed

(***************************************************************************)
(* The steps of the scheduler and of the refresh thread.                   *)
(***************************************************************************)
LEMMA JobsInitHasInv ==
    ASSUME Init
    PROVE  JobsInv /\ ArmedInv
<1>1. /\ enabled \in [Job -> BOOLEAN] /\ next = [j \in Job |-> IF enabled[j] THEN "later" ELSE "paused"]
      /\ instances = {} /\ pool = <<>> /\ queued = {} /\ thread = Scheduler!Idle
      /\ puts = [p \in Puts |-> Scheduler!Free]
      /\ manual = 0 /\ fresh = FALSE /\ rearmed = FALSE
  BY DEF Init, Scheduler!Init, Job
<1>2. JobsTyped
  <2>1. pool \in Seq(Work)
    BY <1>1
  <2>2. thread = [at |-> "idle", item |-> [job |-> Nobody, n |-> 0]]
    BY <1>1 DEF Scheduler!Idle, Scheduler!Item
  <2>3. next \in [Job -> {"paused", "later", "soon", "due"}]
    BY <1>1
  <2>4. puts \in [Puts -> [at : {"free", "read", "written"}, job : Job \cup {Nobody}, on : BOOLEAN]]
    BY <1>1 DEF Scheduler!Free
  <2>5. \A p \in Puts : puts[p].at = "free"
    BY <1>1 DEF Scheduler!Free
  <2>6. /\ thread.at = "idle"
        /\ thread \in [at : {"idle", "run", "stored", "pull", "look", "move", "end", "event"},
                       item : [job : Job \cup {Nobody}, n : Nat]]
    BY <2>2
  <2>7. manual \in Nat /\ fresh \in BOOLEAN /\ rearmed \in BOOLEAN
    BY <1>1
  <2>8. enabled \in [Job -> BOOLEAN]
    BY <1>1
  <2> QED BY <2>1, <2>3, <2>4, <2>5, <2>6, <2>7, <2>8 DEF JobsTyped
<1>3. QueuesAgree /\ Awaited
  BY <1>1 DEF QueuesAgree, DerivedRuns, Awaited, Scheduler!Idle
<1>4. ArmedInv
  BY <1>1 DEF ArmedInv, Scheduler!EnabledJobsAreArmed, Scheduler!Free, Job
<1> QED BY <1>2, <1>3, <1>4 DEF JobsInv

\* APScheduler: a due job that is not submitted is one that waits or that the thread runs.
LEMMA ClocksKeepInv ==
    ASSUME JobsInv, NEW j \in Job, Scheduler!TimePasses(j) \/ Scheduler!Fire(j) \/ Scheduler!Enqueue(j)
    PROVE  JobsInv'
<1> USE DEF JobsInv
<1>1. CASE Scheduler!TimePasses(j)
  <2>1. /\ next' = [next EXCEPT ![j] = "due"]
        /\ UNCHANGED <<enabled, instances, pool, queued, thread, puts, manual, fresh, rearmed>>
    BY <1>1 DEF Scheduler!TimePasses, Scheduler!ModifyJob, Scheduler!work, Scheduler!ghosts
  <2> QED BY <2>1 DEF JobsTyped, QueuesAgree, DerivedRuns, Awaited, DerivedPending, Scheduler!BeingEdited
<1>2. CASE Scheduler!Fire(j)
  <2>1. /\ next[j] = "due" /\ next' = [next EXCEPT ![j] = "later"]
        /\ UNCHANGED <<enabled, thread, puts, manual, fresh, rearmed>>
    BY <1>2 DEF Scheduler!Fire, Scheduler!ModifyJob, Scheduler!ghosts
  <2>2. Scheduler!Item(j, 0) \in Work
    BY DEF Scheduler!Item, Work
  <2>3. CASE j \notin instances
    <3>1. /\ pool' = Append(pool, Scheduler!Item(j, 0)) /\ queued' = queued \cup {Scheduler!Item(j, 0)}
          /\ instances' = instances \cup {j}
      BY <1>2, <2>3 DEF Scheduler!Fire, Scheduler!DoSubmitJob
    <3>2. pool' \in Seq(Work) /\ Entries(pool') = Entries(pool) \cup {Scheduler!Item(j, 0)}
      BY <2>2, <3>1, EntriesOfAppend DEF JobsTyped
    <3>3. Scheduler!Item(j, 0).job = j
      BY DEF Scheduler!Item
    <3>4. j = Derived => DerivedPending'
      BY <3>2, <3>3 DEF DerivedPending
    <3> QED BY <2>1, <3>1, <3>2, <3>4 DEF JobsTyped, QueuesAgree, DerivedRuns, Awaited,
                                         DerivedPending, Scheduler!BeingEdited, Scheduled
  <2>4. CASE j \in instances
    <3>1. UNCHANGED <<queued, pool, instances>>
      BY <1>2, <2>4 DEF Scheduler!Fire
    <3>2. j = Derived => DerivedPending \/ ~fresh
      BY <2>4 DEF QueuesAgree, DerivedPending, DerivedRuns, Scheduled, Scheduler!Item
    <3> QED BY <2>1, <3>1, <3>2 DEF JobsTyped, QueuesAgree, DerivedRuns, Awaited, DerivedPending,
                                    Scheduler!BeingEdited
  <2> QED BY <2>3, <2>4
<1>3. CASE Scheduler!Enqueue(j)
  <2>1. /\ manual' = manual + 1 /\ manual' \in Nat
        /\ UNCHANGED <<enabled, next, instances, thread, puts, fresh, rearmed>>
    BY <1>3 DEF Scheduler!Enqueue, JobsTyped, Scheduler!scheduler, Scheduler!ghosts
  <2>2. Scheduler!Item(j, manual') \in Work
    BY <2>1 DEF Scheduler!Item, Work
  <2>3. /\ pool' \in Seq(Work) /\ Entries(pool') = Entries(pool) \cup {Scheduler!Item(j, manual')}
        /\ queued' = queued \cup {Scheduler!Item(j, manual')}
    BY <1>3, <2>2, EntriesOfAppend DEF Scheduler!Enqueue, JobsTyped
  <2> QED BY <2>1, <2>3 DEF JobsTyped, QueuesAgree, DerivedRuns, Awaited, DerivedPending,
                           Scheduler!BeingEdited
<1> QED BY <1>1, <1>2, <1>3

\* The refresh thread takes the next piece of work.
LEMMA StartsKeepsInv ==
    ASSUME JobsInv, Scheduler!Starts
    PROVE  JobsInv'
<1> DEFINE item == Head(pool)
<1>1. /\ thread' = [at |-> "run", item |-> item] /\ queued' = queued \ {item} /\ pool' = Tail(pool)
      /\ UNCHANGED <<enabled, next, instances, puts, manual>>
      /\ IF item.job = Derived THEN fresh' = FALSE /\ rearmed' = FALSE ELSE UNCHANGED <<fresh, rearmed>>
      /\ pool # <<>> /\ thread.at = "idle"
  BY DEF Scheduler!Starts, Scheduler!scheduler, Scheduler!ghosts, Scheduler!At
<1>2. /\ pool' \in Seq(Work) /\ item \in Work /\ Entries(pool) = {item} \cup Entries(pool')
  BY <1>1, EntriesOfTail DEF JobsInv, JobsTyped
<1> HIDE DEF item
<1>3. thread'.at = "run" /\ thread'.item = item
  BY <1>1
<1>4. JobsTyped'
  BY <1>1, <1>2, <1>3 DEF JobsInv, JobsTyped, Work
<1>5. QueuesAgree'
  <2>1. queued' \subseteq Entries(pool')
    BY <1>1, <1>2 DEF JobsInv, QueuesAgree
  <2>2. Derived \in instances' => Scheduled \in Entries(pool') \/ item = Scheduled
    BY <1>1, <1>2 DEF JobsInv, QueuesAgree
  <2>3. item.job = Derived => ~fresh'
    BY <1>1
  <2> QED BY <1>3, <2>1, <2>2, <2>3 DEF QueuesAgree, DerivedRuns
<1>6. Awaited'
  <2>1. item.job # Derived /\ DerivedPending => DerivedPending'
    BY <1>2 DEF DerivedPending
  <2> QED BY <1>1, <2>1 DEF JobsInv, Awaited, Scheduler!BeingEdited
<1> QED BY <1>4, <1>5, <1>6 DEF JobsInv

\* It only goes on, and may move the next run of a job.
LEMMA ThreadKeepsInv ==
    ASSUME JobsInv, Scheduler!Thread
    PROVE  JobsInv'
<1> USE DEF JobsInv
<1> USE DEF Scheduler!At, Scheduler!Goto, Scheduler!Running, Scheduler!scheduler, Scheduler!ghosts,
            Scheduler!ModifyJob
<1>1. CASE Scheduler!Starts
  BY <1>1, StartsKeepsInv
<1>2. CASE Scheduler!RunSource
  <2>1. /\ thread.at = "run" /\ thread.item \in Work
        /\ UNCHANGED <<enabled, next, instances, pool, queued, puts, manual, rearmed>>
    BY <1>2 DEF Scheduler!RunSource, JobsTyped
  <2>2. CASE thread.item.job = Derived /\ thread' = [thread EXCEPT !.at = "end"] /\ UNCHANGED fresh
    BY <2>1, <2>2 DEF JobsTyped, QueuesAgree, DerivedRuns, Awaited, DerivedPending, Scheduler!BeingEdited
  <2>3. CASE thread.item.job # Derived /\ thread' = [thread EXCEPT !.at = "stored"] /\ fresh' = TRUE
    BY <2>1, <2>3 DEF JobsTyped, QueuesAgree, DerivedRuns, Awaited, Scheduled, Scheduler!Item
  <2>4. CASE thread.item.job # Derived /\ thread' = [thread EXCEPT !.at = "look"] /\ UNCHANGED fresh
    BY <2>1, <2>4 DEF JobsTyped, QueuesAgree, DerivedRuns, Awaited, DerivedPending, Scheduled,
                      Scheduler!Item, Scheduler!BeingEdited
  <2> QED BY <1>2, <2>2, <2>3, <2>4 DEF Scheduler!RunSource
<1>3. CASE Scheduler!RequestDerived
  <2>1. /\ thread.at = "stored" /\ UNCHANGED <<enabled, next, instances, pool, queued, puts, manual, fresh, rearmed>>
        /\ \/ thread' = [thread EXCEPT !.at = "pull"]
           \/ /\ Scheduler!DerivedWaits \/ next[Derived] # "later"
              /\ thread' = [thread EXCEPT !.at = "look"]
    BY <1>3 DEF Scheduler!RequestDerived
  <2>2. Scheduler!DerivedWaits => DerivedPending
    BY DEF QueuesAgree, DerivedPending, Scheduler!DerivedWaits
  <2>3. next[Derived] \in {"paused", "later", "soon", "due"}
    BY DEF JobsTyped, Job, Scheduler!Jobs
  <2> QED BY <2>1, <2>2, <2>3 DEF JobsTyped, QueuesAgree, DerivedRuns, Awaited, DerivedPending,
                                  Scheduled, Scheduler!BeingEdited
<1>4. CASE Scheduler!PullDerivedForward
  <2>1. /\ thread.at = "pull" /\ thread' = [thread EXCEPT !.at = "look"]
        /\ next' = [next EXCEPT ![Derived] = "soon"]
        /\ UNCHANGED <<enabled, instances, pool, queued, puts, manual, fresh, rearmed>>
    BY <1>4 DEF Scheduler!PullDerivedForward
  <2>2. next'[Derived] = "soon"
    BY <2>1 DEF JobsTyped, Job, Scheduler!Jobs
  <2> QED BY <2>1, <2>2 DEF JobsTyped, QueuesAgree, DerivedRuns, Awaited, Scheduled
<1>5. CASE Scheduler!LookAtJob
  <2>1. /\ thread.at = "look"
        /\ thread' = [thread EXCEPT !.at = "end"] \/ thread' = [thread EXCEPT !.at = "move"]
        /\ UNCHANGED <<enabled, next, instances, pool, queued, puts, manual, fresh, rearmed>>
    BY <1>5 DEF Scheduler!LookAtJob
  <2> QED BY <2>1 DEF JobsTyped, QueuesAgree, DerivedRuns, Awaited, DerivedPending, Scheduled,
                      Scheduler!BeingEdited
<1>6. CASE Scheduler!MoveNextRun
  <2>1. /\ thread.at = "move" /\ thread' = [thread EXCEPT !.at = "end"]
        /\ next' = [next EXCEPT ![thread.item.job] = "later"]
        /\ UNCHANGED <<enabled, instances, pool, queued, puts, manual, fresh, rearmed>>
    BY <1>6 DEF Scheduler!MoveNextRun
  <2>2. next'[Derived] = next[Derived]
    BY <2>1 DEF QueuesAgree, JobsTyped, Job, Scheduler!Jobs
  <2> QED BY <2>1, <2>2 DEF JobsTyped, QueuesAgree, DerivedRuns, Awaited, DerivedPending, Scheduled,
                            Scheduler!BeingEdited
<1>7. CASE Scheduler!Ends
  <2>1. /\ thread.at = "end" /\ UNCHANGED <<enabled, next, pool, queued, puts, manual, fresh, rearmed>>
        /\ \/ /\ thread.item.n = 0 /\ thread' = [thread EXCEPT !.at = "event"]
              /\ instances' = instances \ {thread.item.job}
           \/ /\ thread.item.n # 0 /\ thread' = Scheduler!Idle /\ UNCHANGED instances
    BY <1>7 DEF Scheduler!Ends
  <2>2. thread.item.n # 0 => thread.item # Scheduled
    BY DEF Scheduled, Scheduler!Item
  <2>3. thread.item = Scheduled => thread.item.job = Derived
    BY DEF Scheduled, Scheduler!Item
  <2> QED BY <2>1, <2>2, <2>3 DEF JobsTyped, QueuesAgree, DerivedRuns, Awaited, DerivedPending,
                            Scheduler!Idle, Scheduler!Item, Scheduler!BeingEdited
<1>8. CASE Scheduler!OnJobEvent
  <2>1. /\ thread.at = "event" /\ thread' = Scheduler!Idle /\ queued' = queued \ {thread.item}
        /\ UNCHANGED <<enabled, next, instances, pool, puts, manual, fresh, rearmed>>
    BY <1>8 DEF Scheduler!OnJobEvent
  <2> QED BY <2>1 DEF JobsTyped, QueuesAgree, DerivedRuns, Awaited, DerivedPending, Scheduler!Idle,
                      Scheduler!Item, Scheduler!BeingEdited
<1> QED BY <1>1, <1>2, <1>3, <1>4, <1>5, <1>6, <1>7, <1>8 DEF Scheduler!Thread

\* The administrator's edits.
LEMMA EditsKeepInv ==
    ASSUME JobsInv, NEW p \in Puts,
           (\E j \in Job : Scheduler!PutReads(p, j)) \/ Scheduler!PutWrites(p) \/ Scheduler!PutArms(p)
    PROVE  JobsInv'
<1> USE DEF JobsInv
<1> USE DEF Scheduler!scheduler, Scheduler!work, Scheduler!ghosts, Scheduler!ModifyJob
<1>1. ASSUME NEW j \in Job, Scheduler!PutReads(p, j) PROVE JobsInv'
  <2>1. PICK on \in BOOLEAN :
          /\ puts[p].at = "free" /\ puts' = [puts EXCEPT ![p] = [at |-> "read", job |-> j, on |-> on]]
          /\ UNCHANGED <<enabled, next, instances, pool, queued, thread, manual, fresh, rearmed>>
    BY <1>1 DEF Scheduler!PutReads, JobsTyped
  <2>2. Scheduler!BeingEdited(Derived) => Scheduler!BeingEdited(Derived)'
    BY <2>1 DEF Scheduler!BeingEdited, JobsTyped
  <2> QED BY <2>1, <2>2 DEF JobsTyped, QueuesAgree, DerivedRuns, Awaited, DerivedPending
<1>2. CASE Scheduler!PutWrites(p)
  <2>1. /\ puts[p].at = "read" /\ puts' = [puts EXCEPT ![p].at = "written"]
        /\ enabled' = [enabled EXCEPT ![puts[p].job] = puts[p].on]
        /\ UNCHANGED <<next, instances, pool, queued, thread, manual, fresh, rearmed>>
    BY <1>2 DEF Scheduler!PutWrites
  <2>2. Scheduler!BeingEdited(Derived) => Scheduler!BeingEdited(Derived)'
    BY <2>1 DEF Scheduler!BeingEdited, JobsTyped
  <2> QED BY <2>1, <2>2 DEF JobsTyped, QueuesAgree, DerivedRuns, Awaited, DerivedPending
<1>3. CASE Scheduler!PutArms(p)
  <2>1. /\ puts[p].at = "written" /\ puts' = [puts EXCEPT ![p] = Scheduler!Free]
        /\ next' = [next EXCEPT ![puts[p].job] = IF puts[p].on THEN "later" ELSE "paused"]
        /\ rearmed' = (rearmed \/ puts[p].job = Derived)
        /\ UNCHANGED <<enabled, instances, pool, queued, thread, manual, fresh>>
    BY <1>3 DEF Scheduler!PutArms
  <2>2. JobsTyped'
    BY <2>1 DEF JobsTyped, Scheduler!Free
  <2>3. Awaited'
    <3>1. CASE puts[p].job = Derived
      BY <2>1, <3>1 DEF Awaited
    <3>2. CASE puts[p].job # Derived
      <4>1. next'[Derived] = next[Derived]
        BY <2>1, <3>2 DEF JobsTyped, Job, Scheduler!Jobs
      <4>2. Scheduler!BeingEdited(Derived) => Scheduler!BeingEdited(Derived)'
        BY <2>1, <3>2 DEF Scheduler!BeingEdited, JobsTyped
      <4> QED BY <2>1, <4>1, <4>2 DEF Awaited, DerivedPending, JobsTyped
    <3> QED BY <3>1, <3>2
  <2> QED BY <2>1, <2>2, <2>3 DEF QueuesAgree, DerivedRuns
<1> QED BY <1>1, <1>2, <1>3

\* With one edit at once, the last word on a job is that of the edit that wrote its row.
LEMMA StepsKeepArmed ==
    ASSUME NEW e, Puts = {e}, JobsInv, ArmedInv, Scheduler!Next
    PROVE  ArmedInv'
<1> USE DEF JobsInv
<1> USE DEF Scheduler!scheduler, Scheduler!work, Scheduler!ghosts, Scheduler!ModifyJob,
            Scheduler!At, Scheduler!Goto, Scheduler!Running
<1>1. ASSUME UNCHANGED <<enabled, puts>>, \A j \in Job : next'[j] = "paused" => next[j] = "paused"
      PROVE  ArmedInv'
  BY <1>1 DEF ArmedInv, Scheduler!EnabledJobsAreArmed, Scheduler!BeingEdited, Job
<1>2. ASSUME NEW j \in Job, Scheduler!TimePasses(j) \/ Scheduler!Fire(j) \/ Scheduler!Enqueue(j)
      PROVE  ArmedInv'
  <2>1. UNCHANGED <<enabled, puts>>
    BY <1>2 DEF Scheduler!TimePasses, Scheduler!Fire, Scheduler!Enqueue
  <2>2. \/ UNCHANGED next
        \/ \E when \in {"later", "due"} : next' = [next EXCEPT ![j] = when]
    BY <1>2 DEF Scheduler!TimePasses, Scheduler!Fire, Scheduler!Enqueue
  <2>3. \A k \in Job : next'[k] = "paused" => next[k] = "paused"
    BY <2>2 DEF JobsTyped
  <2> QED BY <1>1, <2>1, <2>3
<1>3. CASE Scheduler!Thread
  <2>1. UNCHANGED <<enabled, puts>>
    BY <1>3 DEF Scheduler!Thread, Scheduler!Starts, Scheduler!RunSource, Scheduler!RequestDerived,
         Scheduler!PullDerivedForward, Scheduler!LookAtJob, Scheduler!MoveNextRun, Scheduler!Ends,
         Scheduler!OnJobEvent
  <2>2. \/ UNCHANGED next
        \/ \E j \in Job, when \in {"later", "soon"} : next' = [next EXCEPT ![j] = when]
    <3>1. CASE Scheduler!PullDerivedForward
      BY <3>1 DEF Scheduler!PullDerivedForward, Job, Scheduler!Jobs
    <3>2. CASE Scheduler!MoveNextRun
      BY <3>2 DEF Scheduler!MoveNextRun, JobsTyped, Work
    <3>3. CASE ~Scheduler!PullDerivedForward /\ ~Scheduler!MoveNextRun
      BY <1>3, <3>3 DEF Scheduler!Thread, Scheduler!Starts, Scheduler!RunSource, Scheduler!RequestDerived,
         Scheduler!LookAtJob, Scheduler!Ends, Scheduler!OnJobEvent
    <3> QED BY <3>1, <3>2, <3>3
  <2>3. \A k \in Job : next'[k] = "paused" => next[k] = "paused"
    BY <2>2 DEF JobsTyped
  <2> QED BY <1>1, <2>1, <2>3
<1>4. ASSUME NEW j \in Job, Scheduler!PutReads(e, j) PROVE ArmedInv'
  <2>1. PICK on \in BOOLEAN :
          /\ puts' = [puts EXCEPT ![e] = [at |-> "read", job |-> j, on |-> on]]
          /\ UNCHANGED <<enabled, next>> /\ puts[e].at = "free"
    BY <1>4 DEF Scheduler!PutReads, JobsTyped
  <2>2. puts'[e].at = "read"
    BY <2>1 DEF JobsTyped
  <2>3. \A k \in Job : ~Scheduler!BeingEdited(k)
    BY <2>1 DEF Scheduler!BeingEdited
  <2> QED BY <2>1, <2>2, <2>3 DEF ArmedInv, Scheduler!EnabledJobsAreArmed, Job
<1>5. CASE Scheduler!PutWrites(e)
  <2>1. /\ puts[e].at = "read" /\ puts' = [puts EXCEPT ![e].at = "written"]
        /\ enabled' = [enabled EXCEPT ![puts[e].job] = puts[e].on] /\ UNCHANGED next
    BY <1>5 DEF Scheduler!PutWrites
  <2>2. /\ puts'[e].at = "written" /\ puts'[e].job = puts[e].job /\ puts'[e].on = puts[e].on
        /\ puts[e].job \in Job
    BY <2>1 DEF JobsTyped
  <2>3. enabled'[puts'[e].job] = puts'[e].on
    BY <2>1, <2>2 DEF JobsTyped
  <2>4. \A k \in Job : ~Scheduler!BeingEdited(k)' => k # puts[e].job
    BY <2>2 DEF Scheduler!BeingEdited
  <2>5. \A k \in Job : k # puts[e].job => ~Scheduler!BeingEdited(k) /\ enabled'[k] = enabled[k]
    BY <2>1 DEF Scheduler!BeingEdited, JobsTyped
  <2> QED BY <2>1, <2>3, <2>4, <2>5 DEF ArmedInv, Scheduler!EnabledJobsAreArmed, Job
<1>6. CASE Scheduler!PutArms(e)
  <2>1. /\ puts[e].at = "written" /\ puts' = [puts EXCEPT ![e] = Scheduler!Free]
        /\ next' = [next EXCEPT ![puts[e].job] = IF puts[e].on THEN "later" ELSE "paused"]
        /\ UNCHANGED enabled
    BY <1>6 DEF Scheduler!PutArms
  <2>2. puts'[e].at = "free" /\ puts[e].job \in Job
    BY <2>1 DEF JobsTyped, Scheduler!Free
  <2>3. enabled'[puts[e].job] => next'[puts[e].job] # "paused"
    BY <2>1, <2>2 DEF ArmedInv, JobsTyped
  <2>4. \A k \in Job : k # puts[e].job => ~Scheduler!BeingEdited(k) /\ next'[k] = next[k]
    BY <2>1 DEF Scheduler!BeingEdited, JobsTyped
  <2> QED BY <2>1, <2>2, <2>3, <2>4 DEF ArmedInv, Scheduler!EnabledJobsAreArmed, Job
<1> QED BY <1>2, <1>3, <1>4, <1>5, <1>6 DEF Scheduler!Next, Job

(***************************************************************************)
(* What waits is said of every behaviour of the server's parts.            *)
(***************************************************************************)
LEMMA JobsInvIsKept ==
    ASSUME JobsInv, [Next]_vars
    PROVE  JobsInv'
<1>1. CASE Scheduler!Next
  BY <1>1, ClocksKeepInv, ThreadKeepsInv, EditsKeepInv DEF Scheduler!Next, Job
<1>2. CASE UNCHANGED jobVars
  BY <1>2 DEF jobVars, JobsInv, JobsTyped, QueuesAgree, DerivedRuns, Awaited, DerivedPending,
              Scheduler!BeingEdited
<1> QED BY <1>1, <1>2 DEF Next, vars, JobsRun, PageRuns, SettingsRun

\* Where one edit is handled at a time, a job that is on stays armed.
LEMMA ArmedIsKept ==
    ASSUME NEW e, Puts = {e}, JobsInv, ArmedInv, [Next]_vars
    PROVE  ArmedInv'
<1>1. CASE Scheduler!Next
  BY <1>1, StepsKeepArmed
<1>2. CASE UNCHANGED jobVars
  BY <1>2 DEF jobVars, ArmedInv, Scheduler!EnabledJobsAreArmed, Scheduler!BeingEdited
<1> QED BY <1>1, <1>2 DEF Next, vars, JobsRun, PageRuns, SettingsRun

\* Fresh data is always waited for by a derived run, however many edits are handled at once.
THEOREM FreshIsAwaited == Spec => []Scheduler!FreshDataIsAwaited
<1>1. Init => JobsInv
  BY JobsInitHasInv
<1>2. JobsInv /\ [Next]_vars => JobsInv'
  BY JobsInvIsKept
<1>3. JobsInv => Scheduler!FreshDataIsAwaited
  BY DEF JobsInv, Awaited, DerivedPending, Entries, Scheduler!FreshDataIsAwaited
<1> QED BY <1>1, <1>2, <1>3, PTL DEF Spec

\* And where one edit is handled at a time, a schedule that is on has a next run as well.
THEOREM SchedulesAreHeld ==
    ASSUME NEW e, Puts = {e}
    PROVE  Spec => []SchedulesHold
<1>1. Init => ArmedInv
  BY JobsInitHasInv
<1>2. JobsInv /\ ArmedInv /\ [Next]_vars => ArmedInv'
  BY ArmedIsKept
<1>3. Init => JobsInv
  BY JobsInitHasInv
<1>4. JobsInv /\ [Next]_vars => JobsInv'
  BY JobsInvIsKept
<1>5. JobsInv /\ ArmedInv => SchedulesHold
  BY DEF JobsInv, ArmedInv, Awaited, DerivedPending, Entries, SchedulesHold,
         Scheduler!FreshDataIsAwaited
<1> QED BY <1>1, <1>2, <1>3, <1>4, <1>5, PTL DEF Spec

(***************************************************************************)
(* The page.  Every row there is, and every patch, has a day, and a time   *)
(* where it runs at times: a patch put over any such row makes another.    *)
(***************************************************************************)
GoodRows == {r \in Page!Rows : Page!AtLeastOne(r)}

Sound(patch) ==
    /\ patch = [f \in DOMAIN patch |-> patch[f]]
    /\ "mode" \in DOMAIN patch => /\ patch["mode"] \in {"interval", "times"}
                                  /\ patch["mode"] = "times" => "times" \in DOMAIN patch
    /\ "every" \in DOMAIN patch => patch["every"] \in {"hour", "seconds"}
    /\ "times" \in DOMAIN patch => patch["times"] \in SUBSET Times /\ patch["times"] # {}
    /\ "days" \in DOMAIN patch => patch["days"] \in SUBSET Days /\ patch["days"] # {}
    /\ "on" \in DOMAIN patch => patch["on"] \in BOOLEAN

PageInv ==
    /\ kept \in GoodRows /\ row \in GoodRows
    /\ poll.at = "answered" => poll.answer \in GoodRows
    /\ poll = [at |-> poll.at, answer |-> poll.answer]
    /\ \A p \in pagePuts :
         /\ p = [n |-> p.n, patch |-> p.patch, prev |-> p.prev, at |-> p.at, saved |-> p.saved]
         /\ Sound(p.patch) /\ p.prev \in GoodRows /\ p.saved \in GoodRows

\* A patch that says nothing empty empties no row.
LEMMA OverKeepsGood ==
    ASSUME NEW r \in GoodRows, NEW patch, Sound(patch)
    PROVE  Page!Over(patch, r) \in GoodRows
<1> DEFINE new == Page!Over(patch, r)
<1>1. /\ r = [mode |-> r.mode, every |-> r.every, times |-> r.times, days |-> r.days, on |-> r.on]
      /\ DOMAIN r = {"mode", "every", "times", "days", "on"}
      /\ r.mode \in {"interval", "times"} /\ r.every \in {"hour", "seconds"}
      /\ r.times \in SUBSET Times /\ r.days \in SUBSET Days /\ r.on \in BOOLEAN
      /\ r.days # {} /\ (r.mode = "times" => r.times # {})
  BY DEF GoodRows, Page!Rows, Page!AtLeastOne
<1>2. new = [mode |-> new.mode, every |-> new.every, times |-> new.times, days |-> new.days, on |-> new.on]
  BY <1>1 DEF Page!Over
<1>3. /\ new.mode = IF "mode" \in DOMAIN patch THEN patch["mode"] ELSE r.mode
      /\ new.every = IF "every" \in DOMAIN patch THEN patch["every"] ELSE r.every
      /\ new.times = IF "times" \in DOMAIN patch THEN patch["times"] ELSE r.times
      /\ new.days = IF "days" \in DOMAIN patch THEN patch["days"] ELSE r.days
      /\ new.on = IF "on" \in DOMAIN patch THEN patch["on"] ELSE r.on
  BY <1>1 DEF Page!Over
<1> HIDE DEF new
<1>4. new \in Page!Rows
  BY <1>1, <1>2, <1>3 DEF Page!Rows, Sound
<1>5. Page!AtLeastOne(new)
  BY <1>1, <1>3 DEF Page!AtLeastOne, Sound
<1> QED BY <1>4, <1>5 DEF GoodRows, new

\* A row is saved: the patch is sound, and the row it is rolled back to is a good one.
LEMMA SaveKeepsInv ==
    ASSUME PageInv, NEW patch, Sound(patch), Page!save(patch)
    PROVE  PageInv'
<1>1. /\ row' = Page!Over(patch, row) /\ UNCHANGED <<kept, poll>>
      /\ pagePuts' = pagePuts \cup
           {[n |-> pageEdits, patch |-> patch, prev |-> row, at |-> "sent", saved |-> row]}
  BY DEF Page!save
<1>2. row' \in GoodRows
  BY <1>1, OverKeepsGood DEF PageInv
<1> QED BY <1>1, <1>2 DEF PageInv

\* Each editor of a row leaves the last day and the last time where they are.
LEMMA EditKeepsInv ==
    ASSUME PageInv, Page!Edit
    PROVE  PageInv'
<1>1. row.days \in SUBSET Days /\ row.days # {} /\ row.times \in SUBSET Times /\ row.on \in BOOLEAN
  BY DEF PageInv, GoodRows, Page!Rows, Page!AtLeastOne
<1>2. ASSUME NEW d \in Days, Page!toggleDay(d) PROVE PageInv'
  <2> DEFINE days == IF d \in row.days THEN row.days \ {d} ELSE row.days \cup {d}
  <2>1. days \in SUBSET Days /\ days # {}
    BY <1>1, <1>2 DEF Page!toggleDay
  <2>2. Page!save([days |-> days])
    BY <1>2 DEF Page!toggleDay
  <2> HIDE DEF days
  <2>3. Sound([days |-> days])
    BY <2>1 DEF Sound
  <2> QED BY <2>2, <2>3, SaveKeepsInv
<1>3. ASSUME NEW t \in Times, Page!AddTime(t) PROVE PageInv'
  <2>1. Sound([times |-> row.times \cup {t}])
    BY <1>1 DEF Sound
  <2> QED BY <1>3, <2>1, SaveKeepsInv DEF Page!AddTime
<1>4. ASSUME NEW t \in Times, Page!RemoveTime(t) PROVE PageInv'
  <2>1. row.times \ {t} # {}
    BY <1>4 DEF Page!RemoveTime
  <2>2. Sound([times |-> row.times \ {t}])
    BY <1>1, <2>1 DEF Sound
  <2> QED BY <1>4, <2>2, SaveKeepsInv DEF Page!RemoveTime
<1>5. ASSUME NEW every \in {"hour", "seconds"}, Page!CommitInterval(every) PROVE PageInv'
  <2>1. Sound([every |-> every])
    BY DEF Sound
  <2> QED BY <1>5, <2>1, SaveKeepsInv DEF Page!CommitInterval
<1>6. CASE Page!SetMode
  <2>1. Sound([mode |-> "interval", every |-> row.every])
    BY DEF Sound, PageInv, GoodRows, Page!Rows
  <2>2. ASSUME NEW times, times \in SUBSET Times, times # {}
        PROVE  Sound([mode |-> "times", times |-> times])
    BY <2>2 DEF Sound
  <2>3. LET times == IF row.times = {} THEN {Morning} ELSE row.times
        IN  times \in SUBSET Times /\ times # {}
    BY <1>1, ServerAssumption
  <2> QED BY <1>6, <2>1, <2>2, <2>3, SaveKeepsInv DEF Page!SetMode
<1>7. CASE Page!Switch
  <2>1. Sound([on |-> ~row.on])
    BY <1>1 DEF Sound
  <2> QED BY <1>7, <2>1, SaveKeepsInv DEF Page!Switch
<1> QED BY <1>2, <1>3, <1>4, <1>5, <1>6, <1>7 DEF Page!Edit

\* The answers to an edit, and the server's own step on it.
LEMMA AnswersKeepInv ==
    ASSUME PageInv, NEW p \in pagePuts,
           Page!Handle(p) \/ Page!Saved(p) \/ Page!Rejected(p) \/ Page!Lost(p)
    PROVE  PageInv'
<1>1. /\ p = [n |-> p.n, patch |-> p.patch, prev |-> p.prev, at |-> p.at, saved |-> p.saved]
      /\ Sound(p.patch) /\ p.prev \in GoodRows /\ p.saved \in GoodRows
  BY DEF PageInv
<1>2. CASE Page!Handle(p)
  <2> DEFINE merged == Page!Over(p.patch, kept)
             done   == [p EXCEPT !.at = IF Page!Valid(merged) THEN "saved" ELSE "rejected",
                                 !.saved = IF Page!Valid(merged) THEN merged ELSE @]
  <2>1. merged \in GoodRows
    BY <1>1, OverKeepsGood DEF PageInv
  <2>2. /\ kept' = (IF Page!Valid(merged) THEN merged ELSE kept)
        /\ pagePuts' = (pagePuts \ {p}) \cup {done} /\ UNCHANGED <<row, poll>>
    BY <1>2 DEF Page!Handle, Page!page
  <2>3. ASSUME NEW at \in {"saved", "rejected"}, NEW saved \in GoodRows
        PROVE  [p EXCEPT !.at = at, !.saved = saved]
                 \in [n : {p.n}, patch : {p.patch}, prev : GoodRows, at : {p.at, "saved", "rejected"},
                      saved : GoodRows]
    <3>1. p \in [n : {p.n}, patch : {p.patch}, prev : GoodRows, at : {p.at, "saved", "rejected"},
                saved : GoodRows]
      BY <1>1
    <3> QED BY <3>1
  <2>4. done \in [n : {p.n}, patch : {p.patch}, prev : GoodRows, at : {p.at, "saved", "rejected"},
                 saved : GoodRows]
    <3>1. CASE Page!Valid(merged)
      BY <2>1, <2>3, <3>1
    <3>2. CASE ~Page!Valid(merged)
      BY <1>1, <2>3, <3>2
    <3> QED BY <3>1, <3>2
  <2> HIDE DEF done, merged
  <2>5. /\ done = [n |-> done.n, patch |-> done.patch, prev |-> done.prev, at |-> done.at,
                   saved |-> done.saved]
        /\ Sound(done.patch) /\ done.prev \in GoodRows /\ done.saved \in GoodRows
    BY <1>1, <2>4
  <2> QED BY <2>1, <2>2, <2>5 DEF PageInv
<1>3. CASE Page!Saved(p) \/ Page!Rejected(p) \/ Page!Lost(p)
  <2>1. row' \in {p.prev, p.saved} /\ pagePuts' = pagePuts \ {p} /\ UNCHANGED <<kept, poll>>
    BY <1>3 DEF Page!Saved, Page!Rejected, Page!Lost, Page!RolledBack
  <2> QED BY <1>1, <2>1 DEF PageInv
<1> QED BY <1>2, <1>3

\* Every step of the schedule page, the server and the other administrator.
LEMMA PageInvIsKept ==
    ASSUME PageInv, [Next]_vars
    PROVE  PageInv'
<1>1. CASE Page!Next
  <2>1. CASE Page!Edit
    BY <2>1, EditKeepsInv
  <2>2. CASE \E p \in pagePuts : Page!Handle(p) \/ Page!Saved(p) \/ Page!Rejected(p) \/ Page!Lost(p)
    BY <2>2, AnswersKeepInv
  <2>3. ASSUME NEW patch \in Page!Patches, Page!Elsewhere(patch) PROVE PageInv'
    <3>1. Sound(patch)
      BY DEF Page!Patches, Sound
    <3> QED BY <2>3, <3>1, OverKeepsGood DEF PageInv, Page!Elsewhere, Page!page
  <2>4. CASE Page!PollSent \/ Page!PollHandled \/ Page!PollAnswered \/ Page!PollFails
    BY <2>4 DEF Page!PollSent, Page!PollHandled, Page!PollAnswered, Page!PollFails, Page!NoPoll,
                Page!page, PageInv
  <2> QED BY <1>1, <2>1, <2>2, <2>3, <2>4 DEF Page!Next
<1>2. CASE UNCHANGED pageVars
  BY <1>2 DEF pageVars, PageInv
<1> QED BY <1>1, <1>2 DEF Next, vars, JobsRun, PageRuns, SettingsRun

\* So the rows stay good.
LEMMA PageInvHolds == Spec => []PageInv
<1>1. Init => PageInv
  <2> SUFFICES ASSUME Init PROVE PageInv
    OBVIOUS
  <2>1. /\ kept = [mode |-> "times", every |-> "hour", times |-> {Morning}, days |-> Days, on |-> TRUE]
        /\ row = kept /\ pagePuts = {} /\ poll = [at |-> "sent", answer |-> {}]
    BY DEF Init, Page!Init, Page!NoPoll
  <2>2. kept \in GoodRows
    BY <2>1, ServerAssumption DEF GoodRows, Page!Rows, Page!AtLeastOne
  <2> QED BY <2>1, <2>2 DEF PageInv
<1>2. PageInv /\ [Next]_vars => PageInv'
  BY PageInvIsKept
<1> QED BY <1>1, <1>2, PTL DEF Spec

\* And good rows are not empty.
LEMMA PageInvSuffices == PageInv => Page!NothingIsEmptied
  BY OverKeepsGood DEF PageInv, Page!NothingIsEmptied, GoodRows

(***************************************************************************)
(* The settings.  While no two requests cross there is one at most, made   *)
(* when the draft had come; the way that sent it is not "saved", and what  *)
(* it writes belongs to no other way.                                      *)
(***************************************************************************)
Values == [Prefs!Fields -> Nat]

SomeValues == UNION {[F -> Nat] : F \in SUBSET Prefs!Fields}

SaveRequest ==
    [n : Nat, way : Prefs!Ways, sends : SomeValues, before : Values, at : {"sent", "taken", "refused"},
     answer : SomeValues, here : BOOLEAN]

Unsaid == \A w \in Prefs!Ways : said[w] = "none"

SettingsTyped ==
    /\ doc \in DOMAIN Prefs!Policy /\ open \in BOOLEAN /\ crossed \in BOOLEAN /\ moves \in Nat
    /\ draft \in Values /\ loading \in Values /\ stored \in Values
    /\ timer \subseteq Values
    /\ timer # {} => open /\ Prefs!P.by = "timer"
    /\ said \in [Prefs!Ways -> {"none", "saving", "saved", "error"}]
    /\ ~open => Unsaid
    /\ \A r \in requests :
         /\ r \in SaveRequest /\ (r.here => open)
         /\ DOMAIN r.sends \subseteq Prefs!P.saves[r.way]
         /\ r.at = "taken" => r.answer \in Values

SavedAgree ==
    \A w \in Prefs!Ways : said[w] = "saved" =>
        \A f \in Prefs!P.saves[w] \ typed : draft[f] = stored[f]

Uncrossed ==
    /\ \A q, r \in requests : q = r
    /\ load \in {"asked", "answered"} => requests = {} /\ Unsaid
    /\ \A r \in requests :
         /\ IF r.here THEN said[r.way] = "saving" ELSE ~open /\ Unsaid
         /\ r.at = "taken" => r.answer = stored
    /\ SavedAgree

SettingsInv == SettingsTyped /\ (~crossed => Uncrossed)

\* The four ways the settings are saved, as far as the proof looks into the table.
LEMMA PolicyFacts ==
    ASSUME doc \in DOMAIN Prefs!Policy
    PROVE  /\ \A w \in Prefs!Ways : Prefs!P.saves[w] \subseteq Prefs!Fields
           /\ \A v, w \in Prefs!Ways : v # w => Prefs!P.saves[v] \cap Prefs!P.saves[w] = {}
           /\ Prefs!P.by = "change" =>
                Prefs!Ways = {"base"} /\ Prefs!P.saves["base"] = Prefs!Fields /\ ~Prefs!P.stays
           /\ Prefs!P.by = "timer" =>
                /\ Prefs!Ways = {"pairs"} /\ Prefs!P.saves["pairs"] = Prefs!Fields
                /\ ~Prefs!P.stays /\ ~Prefs!P.early
<1>1. DOMAIN Prefs!Policy = {"profile", "app", "base", "pairs"}
  BY DEF Prefs!Policy
<1>2. \A w \in Prefs!Ways : Prefs!P.saves[w] \subseteq Prefs!Fields
  BY DEF Prefs!Fields
<1>3. CASE doc = "profile"
  <2>1. Prefs!P.saves = [profile |-> {"contact", "base"}] /\ Prefs!P.by = "press"
    BY <1>3 DEF Prefs!P, Prefs!Policy
  <2> QED BY <1>2, <2>1 DEF Prefs!Ways
<1>4. CASE doc = "app"
  <2>1. Prefs!P.saves = [schedule |-> {"clock"}, xAccounts |-> {"accounts"}] /\ Prefs!P.by = "press"
    BY <1>4 DEF Prefs!P, Prefs!Policy
  <2> QED BY <1>2, <2>1 DEF Prefs!Ways
<1>5. CASE doc = "base"
  <2>1. Prefs!P.saves = [base |-> {"base"}] /\ Prefs!P.by = "change" /\ ~Prefs!P.stays
    BY <1>5 DEF Prefs!P, Prefs!Policy
  <2> QED BY <1>2, <2>1 DEF Prefs!Ways, Prefs!Fields
<1>6. CASE doc = "pairs"
  <2>1. /\ Prefs!P.saves = [pairs |-> {"pairs"}] /\ Prefs!P.by = "timer" /\ ~Prefs!P.stays
        /\ ~Prefs!P.early
    BY <1>6 DEF Prefs!P, Prefs!Policy
  <2> QED BY <1>2, <2>1 DEF Prefs!Ways, Prefs!Fields
<1> QED BY <1>1, <1>3, <1>4, <1>5, <1>6

\* The table of ways to save depends on the document alone.
LEMMA TableStays ==
    ASSUME UNCHANGED doc
    PROVE  /\ Prefs!P' = Prefs!P /\ Prefs!Ways' = Prefs!Ways /\ Prefs!Fields' = Prefs!Fields
           /\ Values' = Values /\ SomeValues' = SomeValues /\ SaveRequest' = SaveRequest
  BY DEF Prefs!P, Prefs!Ways, Prefs!Fields, Values, SomeValues, SaveRequest

\* A request is made, by a page that is open.
LEMMA SentKeepsInv ==
    ASSUME SettingsInv, NEW way \in Prefs!Ways, NEW values \in SomeValues, NEW before \in Values,
           DOMAIN values \subseteq Prefs!P.saves[way], Prefs!Sent(way, values, before),
           open, moves' \in Nat, draft' \in Values, timer' \subseteq Values,
           timer' # {} => Prefs!P.by = "timer",
           \A w \in Prefs!Ways \ {way} : \A f \in Prefs!P.saves[w] \ typed' :
              f \notin typed /\ draft'[f] = draft[f],
           UNCHANGED <<doc, open, load, loading, stored>>
    PROVE  SettingsInv'
<1> DEFINE new == [n |-> moves', way |-> way, sends |-> values, before |-> before, at |-> "sent",
                   answer |-> values, here |-> TRUE]
<1>1. /\ requests' = requests \cup {new} /\ said' = [said EXCEPT ![way] = "saving"]
      /\ crossed' = (crossed \/ Prefs!Busy)
  BY DEF Prefs!Sent
<1>2. /\ new \in SaveRequest /\ new.at = "sent" /\ new.way = way /\ new.sends = values /\ new.here = TRUE
  BY DEF SaveRequest
<1> HIDE DEF new
<1>3. Prefs!P' = Prefs!P /\ Prefs!Ways' = Prefs!Ways /\ Prefs!Fields' = Prefs!Fields
      /\ Values' = Values /\ SomeValues' = SomeValues /\ SaveRequest' = SaveRequest
  BY TableStays
<1>4. SettingsTyped'
  BY <1>1, <1>2, <1>3 DEF SettingsInv, SettingsTyped, Prefs!Busy
<1>5. ASSUME ~crossed' PROVE Uncrossed'
  <2>1. ~crossed /\ requests = {} /\ load \notin {"asked", "answered"} /\ requests' = {new} /\ Uncrossed
    BY <1>1, <1>5 DEF Prefs!Busy, SettingsInv
  <2>2. said'[way] = "saving" /\ \A w \in Prefs!Ways \ {way} : said'[w] = said[w]
    BY <1>1 DEF SettingsInv, SettingsTyped
  <2>3. SavedAgree'
    BY <1>3, <2>1, <2>2 DEF Uncrossed, SavedAgree
  <2> QED BY <1>2, <2>1, <2>2, <2>3 DEF Uncrossed
<1> QED BY <1>4, <1>5 DEF SettingsInv

\* The page loads, is left and opened, and its form is typed into.
LEMMA PageStepsKeepInv ==
    ASSUME SettingsInv, Prefs!LoadHandled \/ Prefs!LoadArrives \/ Prefs!LoadFails \/ Prefs!Leave \/ Prefs!Open
    PROVE  SettingsInv'
<1>1. /\ Prefs!P' = Prefs!P /\ Prefs!Ways' = Prefs!Ways /\ Prefs!Fields' = Prefs!Fields
      /\ Values' = Values /\ SomeValues' = SomeValues /\ SaveRequest' = SaveRequest
  BY TableStays DEF Prefs!LoadHandled, Prefs!LoadArrives, Prefs!LoadFails, Prefs!Leave, Prefs!Open
<1> USE DEF SettingsInv
<1>2. CASE Prefs!LoadHandled
  <2>1. load = "asked" /\ load' = "answered" /\ loading' = stored
        /\ UNCHANGED <<doc, open, draft, said, timer, requests, stored, typed, crossed, moves>>
    BY <1>2 DEF Prefs!LoadHandled
  <2> QED BY <1>1, <2>1 DEF SettingsTyped, Uncrossed, Unsaid, SavedAgree
<1>3. CASE Prefs!LoadArrives
  <2>1. load = "answered" /\ load' = "done" /\ draft' = loading
        /\ UNCHANGED <<doc, open, loading, said, timer, requests, stored, typed, crossed, moves>>
    BY <1>3 DEF Prefs!LoadArrives
  <2> QED BY <1>1, <2>1 DEF SettingsTyped, Uncrossed, Unsaid, SavedAgree
<1>4. CASE Prefs!LoadFails
  <2>1. load' = "failed"
        /\ UNCHANGED <<doc, open, draft, loading, said, timer, requests, stored, typed, crossed, moves>>
    BY <1>4 DEF Prefs!LoadFails
  <2> QED BY <1>1, <2>1 DEF SettingsTyped, Uncrossed, Unsaid, SavedAgree
<1>5. CASE Prefs!Leave
  <2>1. /\ open' = FALSE /\ said' = Prefs!Quiet /\ timer' = {} /\ moves' = moves + 1
        /\ requests' = {[r EXCEPT !.here = FALSE] : r \in requests}
        /\ \/ UNCHANGED <<draft, load, loading>>
           \/ draft' = Prefs!Defaults /\ load' = "failed" /\ loading' = Prefs!Defaults
        /\ UNCHANGED <<doc, stored, crossed>>
    BY <1>5 DEF Prefs!Leave, Prefs!Move
  <2>2. \A w \in Prefs!Ways : said'[w] = "none"
    BY <2>1 DEF Prefs!Quiet
  <2>3. said' \in [Prefs!Ways -> {"none", "saving", "saved", "error"}] /\ Prefs!Defaults \in Values
    BY <2>1 DEF Prefs!Quiet, Prefs!Defaults, Values
  <2>4. ASSUME NEW q \in requests'
        PROVE  \E r \in requests : /\ q = [r EXCEPT !.here = FALSE] /\ q \in SaveRequest /\ ~q.here
                                   /\ q.way = r.way /\ q.sends = r.sends /\ q.at = r.at
                                   /\ q.answer = r.answer
    <3>1. PICK r \in requests : q = [r EXCEPT !.here = FALSE]
      BY <2>1
    <3> QED BY <3>1 DEF SettingsTyped, SaveRequest
  <2>5. SettingsTyped'
    <3>1. /\ draft' \in Values /\ loading' \in Values /\ stored' \in Values /\ timer' \subseteq Values
          /\ moves' \in Nat /\ doc' \in DOMAIN Prefs!Policy /\ open' \in BOOLEAN /\ crossed' \in BOOLEAN
      <4>1. draft' \in Values /\ loading' \in Values /\ stored' \in Values
        BY <2>1, <2>3 DEF SettingsTyped
      <4>2. moves' \in Nat /\ timer' \subseteq Values
        BY <2>1 DEF SettingsTyped
      <4>3. doc' \in DOMAIN Prefs!Policy /\ crossed' \in BOOLEAN
        BY <2>1 DEF SettingsTyped
      <4>4. open' \in BOOLEAN
        BY <2>1, Zenon
      <4> QED BY <4>1, <4>2, <4>3, <4>4
    <3>2. ASSUME NEW q \in requests'
          PROVE  /\ q \in SaveRequest /\ ~q.here /\ DOMAIN q.sends \subseteq Prefs!P.saves[q.way]
                 /\ q.at = "taken" => q.answer \in Values
      BY <2>4 DEF SettingsTyped
    <3>3. timer' = {} /\ Unsaid'
      BY <1>1, <2>1, <2>2 DEF Unsaid
    <3> QED BY <1>1, <2>3, <3>1, <3>2, <3>3 DEF SettingsTyped
  <2>6. ASSUME ~crossed' PROVE Uncrossed'
    <3>1. Uncrossed /\ ~crossed
      BY <2>1, <2>6
    <3>2. SavedAgree' /\ Unsaid'
      BY <1>1, <2>2 DEF SavedAgree, Unsaid
    <3>3. \A q, r \in requests' : q = r
      BY <2>1, <3>1 DEF Uncrossed
    <3>4. load' \in {"asked", "answered"} => requests' = {}
      BY <2>1, <3>1 DEF Uncrossed
    <3>5. \A q \in requests' : ~q.here /\ (q.at = "taken" => q.answer = stored')
      BY <2>1, <2>4, <3>1 DEF Uncrossed
    <3> QED BY <2>1, <3>2, <3>3, <3>4, <3>5 DEF Uncrossed
  <2> QED BY <2>5, <2>6
<1>6. CASE Prefs!Open
  <2>1. /\ ~open /\ open' = TRUE /\ moves' = moves + 1 /\ load' \in {load, "asked"}
        /\ crossed' = (crossed \/ requests # {})
        /\ UNCHANGED <<doc, draft, loading, said, timer, requests, stored, typed>>
    BY <1>6 DEF Prefs!Open, Prefs!Move
  <2>2. SettingsTyped'
    BY <1>1, <2>1 DEF SettingsTyped
  <2>3. Unsaid'
    BY <1>1, <2>1 DEF SettingsTyped, Unsaid
  <2> QED BY <1>1, <2>1, <2>2, <2>3 DEF Uncrossed, SavedAgree, Unsaid
<1> QED BY <1>2, <1>3, <1>4, <1>5, <1>6

\* The user types, or presses a button of the settings.
LEMMA EditsOfSettingsKeepInv ==
    ASSUME SettingsInv,
           \/ \E f \in Prefs!Fields : Prefs!Type(f) \/ Prefs!changeBase(f) \/ Prefs!commit(f)
           \/ \E w \in Prefs!Ways : Prefs!Press(w)
           \/ Prefs!TimerFires
    PROVE  SettingsInv'
<1> USE DEF SettingsInv
<1>1. /\ Prefs!P' = Prefs!P /\ Prefs!Ways' = Prefs!Ways /\ Prefs!Fields' = Prefs!Fields
      /\ Values' = Values /\ SomeValues' = SomeValues /\ SaveRequest' = SaveRequest
  BY TableStays DEF Prefs!Type, Prefs!changeBase, Prefs!commit, Prefs!Press, Prefs!TimerFires
<1>2. ASSUME NEW f \in Prefs!Fields, NEW v \in Nat
      PROVE  [draft EXCEPT ![f] = v] \in Values
  BY DEF SettingsTyped, Values
<1>3. ASSUME NEW vals \in Values, NEW F \in SUBSET Prefs!Fields
      PROVE  Prefs!Part(vals, F) \in SomeValues /\ DOMAIN Prefs!Part(vals, F) = F
  <2>1. Prefs!Part(vals, F) \in [F -> Nat]
    BY DEF Prefs!Part, Values
  <2> QED BY <2>1 DEF SomeValues
<1>4. ASSUME NEW f \in Prefs!Fields, Prefs!Type(f) PROVE SettingsInv'
  <2>1. /\ draft' = [draft EXCEPT ![f] = moves' + 1] /\ typed' = typed \cup {f} /\ moves' = moves + 1
        /\ UNCHANGED <<doc, open, load, loading, said, timer, requests, stored, crossed>>
    BY <1>4 DEF Prefs!Type, Prefs!Move
  <2>2. draft' \in Values /\ moves' \in Nat /\ \A g \in Prefs!Fields \ {f} : draft'[g] = draft[g]
    BY <1>2, <2>1 DEF SettingsTyped, Values
  <2>3. SettingsTyped'
    BY <1>1, <2>1, <2>2 DEF SettingsTyped, Unsaid
  <2>4. Uncrossed => Uncrossed'
    BY <1>1, <2>1, <2>2, PolicyFacts DEF Uncrossed, SavedAgree, Unsaid, SettingsTyped
  <2> QED BY <2>1, <2>3, <2>4
<1>5. ASSUME NEW w \in Prefs!Ways, Prefs!Press(w) PROVE SettingsInv'
  <2>1. /\ open /\ moves' = moves + 1
        /\ Prefs!Sent(w, Prefs!Part(draft, Prefs!P.saves[w]), draft)
        /\ typed' = typed \ Prefs!P.saves[w] /\ UNCHANGED <<doc, open, draft, load, loading, timer, stored>>
    BY <1>5 DEF Prefs!Press, Prefs!Ready, Prefs!Move
  <2>2. Prefs!P.saves[w] \in SUBSET Prefs!Fields
    BY PolicyFacts DEF SettingsTyped
  <2>3. \A v \in Prefs!Ways \ {w} : \A f \in Prefs!P.saves[v] \ typed' : f \notin typed
    BY <2>1, PolicyFacts DEF SettingsTyped
  <2> QED BY <1>3, <2>1, <2>2, <2>3, SentKeepsInv DEF SettingsTyped
<1>6. ASSUME NEW f \in Prefs!Fields, Prefs!changeBase(f) PROVE SettingsInv'
  <2>1. /\ open /\ moves' = moves + 1 /\ Prefs!P.by = "change"
        /\ draft' = [draft EXCEPT ![f] = moves' + 1]
        /\ Prefs!Sent("base", Prefs!Part(draft', {f}), draft)
        /\ UNCHANGED <<doc, open, load, loading, timer, stored, typed>>
    BY <1>6 DEF Prefs!changeBase, Prefs!Ready, Prefs!Move
  <2>2. Prefs!Ways = {"base"} /\ Prefs!P.saves["base"] = Prefs!Fields
    BY <2>1, PolicyFacts DEF SettingsTyped
  <2>3. draft' \in Values /\ moves' \in Nat
    <3>1. moves' \in Nat /\ moves' + 1 \in Nat
      BY <2>1 DEF SettingsTyped
    <3> QED BY <1>2, <2>1, <3>1
  <2>4. Prefs!Part(draft', {f}) \in SomeValues /\ DOMAIN Prefs!Part(draft', {f}) \subseteq Prefs!Fields
    BY <1>3, <2>3
  <2> QED BY <2>1, <2>2, <2>3, <2>4, SentKeepsInv DEF SettingsTyped
<1>7. ASSUME NEW f \in Prefs!Fields, Prefs!commit(f) PROVE SettingsInv'
  <2>1. /\ open /\ load = "done" /\ moves' = moves + 1 /\ Prefs!P.by = "timer"
        /\ draft' = [draft EXCEPT ![f] = moves' + 1] /\ timer' = {draft'}
        /\ said' = [said EXCEPT !["pairs"] = "saving"]
        /\ UNCHANGED <<doc, open, load, loading, requests, stored, crossed>>
    BY <1>7, PolicyFacts DEF Prefs!commit, Prefs!Ready, Prefs!Move, SettingsTyped
  <2>2. Prefs!Ways = {"pairs"}
    BY <2>1, PolicyFacts DEF SettingsTyped
  <2>3. draft' \in Values /\ moves' \in Nat
    <3>1. moves' \in Nat /\ moves' + 1 \in Nat
      BY <2>1 DEF SettingsTyped
    <3> QED BY <1>2, <2>1, <3>1
  <2>4. said'["pairs"] = "saving" /\ said' \in [Prefs!Ways -> {"none", "saving", "saved", "error"}]
    BY <2>1, <2>2 DEF SettingsTyped
  <2>5. SettingsTyped'
    BY <1>1, <2>1, <2>3, <2>4 DEF SettingsTyped
  <2>6. Uncrossed => Uncrossed'
    BY <1>1, <2>1, <2>2, <2>4 DEF Uncrossed, SavedAgree, SettingsTyped, SaveRequest
  <2> QED BY <2>1, <2>5, <2>6
<1>8. CASE Prefs!TimerFires
  <2>1. PICK next_ \in timer :
          /\ timer' = {} /\ typed' = {} /\ Prefs!Sent("pairs", next_, draft)
          /\ UNCHANGED <<doc, open, draft, load, loading, stored, moves>>
    BY <1>8 DEF Prefs!TimerFires
  <2>2. open /\ Prefs!Ways = {"pairs"} /\ Prefs!P.saves["pairs"] = Prefs!Fields
    BY <2>1, PolicyFacts DEF SettingsTyped
  <2>3. next_ \in SomeValues /\ DOMAIN next_ = Prefs!Fields
    BY <2>1 DEF SettingsTyped, SomeValues, Values
  <2> QED BY <2>1, <2>2, <2>3, SentKeepsInv DEF SettingsTyped
<1> QED BY <1>4, <1>5, <1>6, <1>7, <1>8

\* A request is handled, answered or lost.
LEMMA RequestsKeepInv ==
    ASSUME SettingsInv, NEW r \in requests,
           Prefs!Handle(r) \/ Prefs!Taken(r) \/ Prefs!Refused(r) \/ Prefs!Lost(r)
    PROVE  SettingsInv'
<1> USE DEF SettingsInv
<1>1. /\ Prefs!P' = Prefs!P /\ Prefs!Ways' = Prefs!Ways /\ Prefs!Fields' = Prefs!Fields
      /\ Values' = Values /\ SomeValues' = SomeValues /\ SaveRequest' = SaveRequest
  BY TableStays DEF Prefs!Handle, Prefs!Taken, Prefs!Refused, Prefs!Lost, Prefs!Failed
<1>2. /\ r \in SaveRequest /\ r.way \in Prefs!Ways /\ (r.here => open)
      /\ DOMAIN r.sends \subseteq Prefs!P.saves[r.way]
      /\ r.before \in Values /\ r.here \in BOOLEAN /\ r.sends \in SomeValues
  BY DEF SettingsTyped, SaveRequest
<1>3. CASE Prefs!Handle(r)
  <2>1. /\ r.at = "sent"
        /\ UNCHANGED <<doc, open, draft, load, loading, said, timer, typed, crossed, moves>>
        /\ \/ /\ stored' = [f \in Prefs!Fields |-> IF f \in DOMAIN r.sends THEN r.sends[f] ELSE stored[f]]
              /\ requests' = (requests \ {r}) \cup {[r EXCEPT !.at = "taken", !.answer = stored']}
           \/ /\ stored' = stored
              /\ requests' = (requests \ {r}) \cup {[r EXCEPT !.at = "refused"]}
    BY <1>3 DEF Prefs!Handle
  <2>2. stored' \in Values
    <3>1. \A f \in DOMAIN r.sends : r.sends[f] \in Nat
      BY <1>2 DEF SomeValues
    <3> QED BY <2>1, <3>1 DEF SettingsTyped, Values
  <2>3. PICK new : /\ requests' = (requests \ {r}) \cup {new} /\ new \in SaveRequest
                   /\ new.way = r.way /\ new.sends = r.sends /\ new.here = r.here
                   /\ new.at # "sent"
                   /\ new.at = "taken" => new.answer = stored'
    <3>1. [r EXCEPT !.at = "refused"] \in SaveRequest
      BY <1>2 DEF SaveRequest
    <3>2. stored' \in SomeValues
      BY <2>2 DEF Values, SomeValues
    <3>3. [r EXCEPT !.at = "taken", !.answer = stored'] \in SaveRequest
      BY <1>2, <3>2 DEF SaveRequest
    <3>4. CASE requests' = (requests \ {r}) \cup {[r EXCEPT !.at = "taken", !.answer = stored']}
      <4> DEFINE new == [r EXCEPT !.at = "taken", !.answer = stored']
      <4>1. /\ new.way = r.way /\ new.sends = r.sends /\ new.here = r.here
            /\ new.at = "taken" /\ new.answer = stored'
        BY <1>2 DEF SaveRequest
      <4> HIDE DEF new
      <4> QED BY <3>3, <3>4, <4>1 DEF new
    <3>5. CASE requests' = (requests \ {r}) \cup {[r EXCEPT !.at = "refused"]}
      <4> DEFINE new == [r EXCEPT !.at = "refused"]
      <4>1. new.way = r.way /\ new.sends = r.sends /\ new.here = r.here /\ new.at = "refused"
        BY <1>2 DEF SaveRequest
      <4> HIDE DEF new
      <4> QED BY <3>1, <3>5, <4>1 DEF new
    <3> QED BY <2>1, <3>4, <3>5
  <2>4. SettingsTyped'
    <3>1. UNCHANGED Unsaid
      BY <1>1, <2>1 DEF Unsaid
    <3>2. /\ new \in SaveRequest /\ (new.here => open)
          /\ DOMAIN new.sends \subseteq Prefs!P.saves[new.way]
          /\ new.at = "taken" => new.answer \in Values
      BY <1>2, <2>2, <2>3
    <3>3. \A q \in requests' : q \in requests \/ q = new
      BY <2>3
    <3>4. \A q \in requests' : /\ q \in SaveRequest /\ (q.here => open)
                               /\ DOMAIN q.sends \subseteq Prefs!P.saves[q.way]
                               /\ q.at = "taken" => q.answer \in Values
      BY <3>2, <3>3 DEF SettingsTyped
    <3>5. /\ doc' \in DOMAIN Prefs!Policy' /\ open' \in BOOLEAN /\ crossed' \in BOOLEAN /\ moves' \in Nat
          /\ draft' \in Values' /\ loading' \in Values' /\ stored' \in Values' /\ timer' \subseteq Values'
      BY <1>1, <2>1, <2>2 DEF SettingsTyped
    <3>6. /\ timer' # {} => open' /\ Prefs!P'.by = "timer"
          /\ said' \in [Prefs!Ways' -> {"none", "saving", "saved", "error"}]
          /\ ~open' => Unsaid'
      BY <1>1, <2>1, <3>1 DEF SettingsTyped
    <3>7. \A q \in requests' : /\ q \in SaveRequest' /\ (q.here => open')
                               /\ DOMAIN q.sends \subseteq Prefs!P'.saves[q.way]
                               /\ q.at = "taken" => q.answer \in Values'
      BY <1>1, <2>1, <3>4
    <3> QED BY <3>5, <3>6, <3>7 DEF SettingsTyped
  <2>5. ASSUME ~crossed PROVE Uncrossed'
    <3>1. Uncrossed /\ requests = {r} /\ requests' = {new}
      BY <2>3, <2>5 DEF Uncrossed
    <3>2. said[r.way] # "saved"
      BY <1>2, <3>1 DEF Uncrossed, Unsaid
    <3>3. ASSUME NEW w \in Prefs!Ways, w # r.way, NEW f \in Prefs!P.saves[w]
          PROVE  stored'[f] = stored[f]
      BY <1>2, <2>1, <3>3, PolicyFacts DEF SettingsTyped, Values
    <3>4. SavedAgree'
      BY <1>1, <2>1, <3>1, <3>2, <3>3 DEF Uncrossed, SavedAgree
    <3> QED BY <1>1, <2>1, <2>3, <3>1, <3>4 DEF Uncrossed, Unsaid
  <2> QED BY <2>1, <2>4, <2>5
<1>4. CASE Prefs!Taken(r)
  <2>1. /\ r.at = "taken" /\ requests' = requests \ {r}
        /\ draft' = (IF Prefs!Heard(r) THEN r.answer ELSE draft)
        /\ said' = (IF r.here THEN [said EXCEPT ![r.way] = "saved"] ELSE said)
        /\ UNCHANGED <<doc, open, load, loading, timer, stored, typed, crossed, moves>>
    BY <1>4 DEF Prefs!Taken
  <2>2. draft' \in Values /\ said' \in [Prefs!Ways -> {"none", "saving", "saved", "error"}]
    BY <1>2, <2>1 DEF SettingsTyped
  <2>3. SettingsTyped'
    BY <1>1, <1>2, <2>1, <2>2 DEF SettingsTyped, Unsaid
  <2>4. ASSUME ~crossed PROVE Uncrossed'
    <3>1. Uncrossed /\ requests' = {} /\ r.answer = stored
      BY <2>1, <2>4 DEF Uncrossed
    <3>2. load \notin {"asked", "answered"}
      BY <3>1 DEF Uncrossed
    <3>3. SavedAgree'
      <4>1. CASE Prefs!Heard(r)
        BY <1>1, <1>2, <2>1, <3>1, <4>1 DEF SavedAgree
      <4>2. CASE ~Prefs!Heard(r)
        BY <1>1, <1>2, <2>1, <3>1, <4>2 DEF SavedAgree, Uncrossed, Unsaid, Prefs!Heard
      <4> QED BY <4>1, <4>2
    <3> QED BY <2>1, <3>1, <3>2, <3>3 DEF Uncrossed
  <2> QED BY <2>1, <2>3, <2>4
<1>5. CASE Prefs!Refused(r) \/ Prefs!Lost(r)
  <2>1. /\ requests' = requests \ {r}
        /\ draft' = (IF Prefs!P.by = "change" /\ r.here THEN r.before ELSE draft)
        /\ said' = (IF r.here THEN [said EXCEPT ![r.way] = "error"] ELSE said)
        /\ UNCHANGED <<doc, open, load, loading, timer, stored, typed, crossed, moves>>
    BY <1>5 DEF Prefs!Refused, Prefs!Lost, Prefs!Failed
  <2>2. draft' \in Values /\ said' \in [Prefs!Ways -> {"none", "saving", "saved", "error"}]
    BY <1>2, <2>1 DEF SettingsTyped
  <2>3. SettingsTyped'
    BY <1>1, <1>2, <2>1, <2>2 DEF SettingsTyped, Unsaid
  <2>4. ASSUME ~crossed PROVE Uncrossed'
    <3>1. Uncrossed /\ requests' = {}
      BY <2>1, <2>4 DEF Uncrossed
    <3>2. load \notin {"asked", "answered"}
      BY <3>1 DEF Uncrossed
    <3>3. SavedAgree'
      <4>1. CASE Prefs!P.by = "change" /\ r.here
        <5>1. \A w \in Prefs!Ways : said'[w] = "error"
          BY <1>2, <2>1, <4>1, PolicyFacts DEF SettingsTyped
        <5> QED BY <1>1, <5>1 DEF SavedAgree
      <4>2. CASE ~(Prefs!P.by = "change" /\ r.here)
        <5>1. \A w \in Prefs!Ways : said'[w] = "saved" => said[w] = "saved"
          BY <1>2, <2>1 DEF SettingsTyped
        <5> QED BY <1>1, <2>1, <3>1, <4>2, <5>1 DEF SavedAgree, Uncrossed
      <4> QED BY <4>1, <4>2
    <3> QED BY <2>1, <3>1, <3>2, <3>3 DEF Uncrossed
  <2> QED BY <2>1, <2>3, <2>4
<1> QED BY <1>3, <1>4, <1>5

\* So the invariant of the settings holds.
LEMMA SettingsInvHolds == Spec => []SettingsInv
<1>1. Init => SettingsInv
  <2> SUFFICES ASSUME Init PROVE SettingsInv
    OBVIOUS
  <2>1. /\ doc \in DOMAIN Prefs!Policy /\ open = TRUE /\ load = "asked" /\ crossed = FALSE /\ moves = 0
        /\ draft = Prefs!Defaults /\ loading = Prefs!Defaults /\ stored = [f \in Prefs!Fields |-> 1]
        /\ said = Prefs!Quiet /\ timer = {} /\ requests = {}
    BY DEF Init, Prefs!Init
  <2>2. draft \in Values /\ loading \in Values /\ stored \in Values
    BY <2>1 DEF Prefs!Defaults, Values
  <2>3. said \in [Prefs!Ways -> {"none", "saving", "saved", "error"}] /\ Unsaid
    BY <2>1 DEF Prefs!Quiet, Unsaid
  <2>4. SettingsTyped
    BY <2>1, <2>2, <2>3 DEF SettingsTyped
  <2> QED BY <2>1, <2>3, <2>4 DEF SettingsInv, Uncrossed, SavedAgree, Unsaid
<1>2. SettingsInv /\ [Next]_vars => SettingsInv'
  <2> SUFFICES ASSUME SettingsInv, [Next]_vars PROVE SettingsInv'
    OBVIOUS
  <2>1. CASE Prefs!Next
    BY <2>1, PageStepsKeepInv, EditsOfSettingsKeepInv, RequestsKeepInv DEF Prefs!Next
  <2>2. CASE UNCHANGED settingsVars
    <3>1. UNCHANGED <<doc, open, draft, load, loading, said, timer, requests, stored, typed, crossed,
                      moves>>
      BY <2>2 DEF settingsVars
    <3>2. UNCHANGED <<Prefs!P, Prefs!Ways, Prefs!Fields, Values, SaveRequest>>
      BY <3>1, TableStays
    <3>3. SettingsTyped' /\ (Uncrossed => Uncrossed')
      BY <3>1, <3>2 DEF SettingsInv, SettingsTyped, Uncrossed, SavedAgree, Unsaid
    <3> QED BY <3>1, <3>3 DEF SettingsInv
  <2> QED BY <2>1, <2>2 DEF Next, vars, JobsRun, PageRuns, SettingsRun
<1> QED BY <1>1, <1>2, PTL DEF Spec

\* No edit empties a schedule's row, and where requests did not cross and nothing was typed since,
\* what the settings page says is saved is what the server has.
THEOREM EditorsStayTrue == Spec => []EditorsAgree
<1>1. PageInv /\ SettingsInv => EditorsAgree
  BY PageInvSuffices DEF SettingsInv, Uncrossed, SavedAgree, Prefs!SavedIsStored, EditorsAgree
<1> QED BY <1>1, PageInvHolds, SettingsInvHolds, PTL
=============================================================================
