------------------------------- MODULE Executor -------------------------------
(***************************************************************************)
(* The execution service: one goroutine that reads the stream              *)
(* schedule.task.execution through a consumer group and starts a goroutine *)
(* for each task, and the task goroutines, which share a semaphore of      *)
(* MaxConcurrentTasks and record their outcome in task_execution_history   *)
(* (executor_service.go, consumer.go, cmd/execution-service/main.go).      *)
(*                                                                         *)
(* The scheduling service is the environment here: its poller publishes    *)
(* tasks, in the steps and with the failures of publishTask (when is left  *)
(* to module Scheduler), and its API edits and deletes jobs and schedules  *)
(* at any time.  What a strategy does is left open: it returns with or     *)
(* without an error, panics or hangs.                                      *)
(***************************************************************************)
EXTENDS JobStore, FiniteSets, SequencesExt

CONSTANTS MaxConcurrentTasks,   \* cfg.Executor.MaxConcurrentTasks
          MaxMishaps            \* bound: crashes, stops, panics and failed calls in a behaviour

ASSUME PoolAssumption == MaxConcurrentTasks \in Nat /\ MaxMishaps \in Nat

VARIABLES cur,       \* the poller's publishTask in progress: sched, row, hist, stage
          phase,     \* the process: serving, or stopping after SIGTERM
          read,      \* entries the group has delivered (up to last-delivered-id)
          pending,   \* entries delivered and not acknowledged
          step,      \* the consumer goroutine's place in ProcessTask
          held,      \* the entry ProcessTask holds
          run,       \* the goroutine of each task
          late,      \* tasks whose execution context is past its deadline
          slots,     \* values in the semaphore channel
          starts,    \* history variable: how often each task's strategy was started
          hit,       \* history variable: tasks hit by a crash, a panic or a failed call
          mishaps    \* number of those so far

readerVars == <<read, pending, step, held>>
taskVars == <<run, late, slots, starts>>
vars == <<storeVars, streamVars, cur, phase, readerVars, taskVars, hit, mishaps>>

Outcome == {"completed", "failed"}

\* A task's goroutine: not started, blocked on the semaphore, inside Execute,
\* about to record an outcome, over; or the task was given up before it had
\* one, or died with the process.
RunState == {"none", "waiting", "executing"} \cup Outcome \cup {"over", "dropped", "killed"}

HoldsSlot(h) == run[h] \in {"executing"} \cup Outcome
Holders == {h \in History : HoldsSlot(h)}
InFlight(h) == run[h] = "waiting" \/ HoldsSlot(h)

\* publishTask has inserted its history, got an error from XADD, or added the entry
Publication ==
  [sched : Schedule, row : ScheduleRow, hist : History, stage : {"enqueue", "fail", "save"}]

ASSUME LocalsAssumption == Null \notin Publication

TypeOK ==
  /\ StoreTypeOK
  /\ StreamTypeOK
  /\ cur \in Publication \cup {Null}
  /\ phase \in {"serving", "stopping"}
  /\ read \subseteq History
  /\ pending \subseteq History
  /\ step \in {"read", "lookup", "ack", "del"}
  /\ held \in History \cup {Null}
  /\ run \in [History -> RunState]
  /\ late \subseteq History
  /\ slots \in Nat
  /\ starts \in [History -> Nat]
  /\ hit \subseteq History
  /\ mishaps \in Nat

Init ==
  /\ StoreInit
  /\ StreamInit
  /\ cur = Null
  /\ phase = "serving"
  /\ read = {} /\ pending = {}
  /\ step = "read" /\ held = Null
  /\ run = [h \in History |-> "none"]
  /\ late = {}
  /\ slots = 0
  /\ starts = [h \in History |-> 0]
  /\ hit = {}
  /\ mishaps = 0

\* Something goes wrong for the tasks in H.
Mishap(H) ==
  /\ mishaps < MaxMishaps
  /\ mishaps' = mishaps + 1
  /\ hit' = hit \cup H

NoMishap == UNCHANGED <<hit, mishaps>>

-----------------------------------------------------------------------------
(* The scheduling service.                                                 *)

\* publishTask: a history row, status running
CreateHistory(s) ==
  /\ cur = Null
  /\ sched[s] # Null
  /\ \E h \in History : payload[h] = Null
  /\ LET h   == NextHistory
         row == [job |-> sched[s].job, sched |-> s, status |-> "running", started |-> 0]
     IN  /\ history' = [history EXCEPT ![h] = row]
         /\ payload' = [payload EXCEPT ![h] = row]
         /\ cur' = [sched |-> s, row |-> sched[s], hist |-> h, stage |-> "enqueue"]
  /\ UNCHANGED <<jobs, sched, spent, stream>> /\ NoMishap

\* XADD
Enqueue ==
  /\ cur # Null /\ cur.stage = "enqueue"
  /\ stream' = Enqueued(cur.hist)
  /\ cur' = [cur EXCEPT !.stage = "save"]
  /\ UNCHANGED <<storeVars, payload>> /\ NoMishap

\* XADD returns an error; the entry may have been added all the same
EnqueueFails ==
  /\ cur # Null /\ cur.stage = "enqueue"
  /\ stream' \in {stream, Enqueued(cur.hist)}
  /\ cur' = [cur EXCEPT !.stage = "fail"]
  /\ Mishap({cur.hist})
  /\ UNCHANGED <<storeVars, payload>>

\* The error path marks the history failed, whatever the executor made of it.
MarkFailed ==
  /\ cur # Null /\ cur.stage = "fail"
  /\ history' = IF history[cur.hist] = Null THEN history
                ELSE [history EXCEPT ![cur.hist].status = "failed"]
  /\ cur' = Null
  /\ UNCHANGED <<jobs, sched, spent, streamVars>> /\ NoMishap

\* Save inserts a schedule again that was deleted meanwhile; or it fails, or
\* the expression was refused.
SaveSchedule ==
  /\ cur # Null /\ cur.stage = "save"
  /\ \/ /\ SaveAccepted(cur.sched, cur.row)
        /\ sched' = [sched EXCEPT ![cur.sched] = SavedRow(cur.sched, cur.row)]
     \/ UNCHANGED sched
  /\ cur' = Null
  /\ UNCHANGED <<jobs, history, spent, streamVars>> /\ NoMishap

\* The scheduling service dies in the middle of publishTask, or MarkFailed fails.
PublishEnds ==
  /\ cur # Null
  /\ cur' = Null
  /\ Mishap({cur.hist})
  /\ UNCHANGED <<storeVars, streamVars>>

Publish ==
  \/ \E s \in Schedule : CreateHistory(s)
  \/ Enqueue \/ EnqueueFails \/ MarkFailed \/ SaveSchedule \/ PublishEnds

ApiRequest ==
  /\ \/ \E j \in Job, new \in FreshSchedules :
          CreateJob(j, new) \/ (j \in spent /\ ReplaceSchedules(j, new))
     \/ \E s \in Schedule : DeleteSchedule(s)
     \/ \E j \in Job : DeleteJob(j)
  /\ UNCHANGED <<streamVars, cur>> /\ NoMishap

Environment ==
  /\ ApiRequest \/ Publish
  /\ UNCHANGED <<phase, readerVars, taskVars>>

-----------------------------------------------------------------------------
(* The consumer goroutine: ProcessTask.                                    *)

\* Mutant of Unread: the consumer's pending entries as well
UnreadOrPending(h) ==
  \E i \in DOMAIN stream : stream[i] = h /\ (h \notin read \/ h \in pending)

\* XREADGROUP ">" Count 1 delivers the oldest entry never delivered before.
Unread(h) ==
  \E i \in DOMAIN stream :
    /\ stream[i] = h
    /\ h \notin read
    /\ \A k \in 1..(i - 1) : stream[k] \in read

Read ==
  /\ step = "read" /\ phase = "serving"
  /\ \E h \in History :
       /\ Unread(h)
       /\ held' = h
       /\ read' = read \cup {h}
       /\ pending' = pending \cup {h}
  /\ step' = "lookup"
  /\ UNCHANGED <<storeVars, streamVars, cur, phase, taskVars>> /\ NoMishap

\* The group delivers an entry, but the reply does not arrive in time.
ReadLost ==
  /\ step = "read" /\ phase = "serving"
  /\ \E h \in History :
       /\ Unread(h)
       /\ read' = read \cup {h}
       /\ pending' = pending \cup {h}
       /\ Mishap({h})
  /\ UNCHANGED <<storeVars, streamVars, cur, phase, step, held, taskVars>>

\* jobRepo.FindByID finds the job, and GoSafe starts the task's goroutine.
StartTask ==
  /\ step = "lookup" /\ phase = "serving"
  /\ payload[held].job \in jobs
  /\ run' = [run EXCEPT ![held] = "waiting"]
  /\ step' = "ack"
  /\ UNCHANGED <<storeVars, streamVars, cur, phase, read, pending, held, late, slots, starts>>
  /\ NoMishap

\* FindByID fails: the job is deleted, the context cancelled, or the database down.
DropTask ==
  /\ step = "lookup"
  /\ \/ payload[held].job \notin jobs /\ NoMishap
     \/ phase = "stopping" /\ hit' = hit \cup {held} /\ UNCHANGED mishaps
     \/ Mishap({held})
  /\ run' = [run EXCEPT ![held] = "dropped"]
  /\ step' = "ack"
  /\ UNCHANGED <<storeVars, streamVars, cur, phase, read, pending, held, late, slots, starts>>

\* A deferred Redis call whose error is ignored: with the context cancelled
\* it always fails.
Works == phase = "serving" /\ NoMishap
Fails == IF phase = "stopping" THEN NoMishap ELSE Mishap({})

\* The deferred XACK
Ack ==
  /\ step = "ack"
  /\ \/ Works /\ pending' = pending \ {held}
     \/ Fails /\ UNCHANGED pending
  /\ step' = "del"
  /\ UNCHANGED <<storeVars, streamVars, cur, phase, read, held, taskVars>>

\* The deferred XDEL
StreamWithout(h) ==
  IF \E i \in DOMAIN stream : stream[i] = h
    THEN RemoveAt(stream, CHOOSE i \in DOMAIN stream : stream[i] = h)
    ELSE stream

Del ==
  /\ step = "del"
  /\ \/ Works /\ stream' = StreamWithout(held)
     \/ Fails /\ UNCHANGED stream
  /\ step' = "read" /\ held' = Null
  /\ UNCHANGED <<storeVars, payload, cur, phase, read, pending, taskVars>>

Consume == Read \/ StartTask \/ DropTask \/ Ack \/ Del

-----------------------------------------------------------------------------
(* The goroutine of a task.                                                *)

\* Mutant of Acquire: no semaphore
AcquireAlways(h) ==
  /\ run[h] = "waiting"
  /\ slots' = slots + 1
  /\ run' = [run EXCEPT ![h] = "executing"]
  /\ starts' = [starts EXCEPT ![h] = @ + 1]
  /\ UNCHANGED <<storeVars, streamVars, cur, phase, readerVars, late>> /\ NoMishap

\* s.semaphore <- struct{}{}, then the execution context and Execute
Acquire(h) ==
  /\ run[h] = "waiting"
  /\ slots < MaxConcurrentTasks
  /\ slots' = slots + 1
  /\ run' = [run EXCEPT ![h] = "executing"]
  /\ starts' = [starts EXCEPT ![h] = @ + 1]
  /\ UNCHANGED <<storeVars, streamVars, cur, phase, readerVars, late>> /\ NoMishap

\* Execute returns, or there is no strategy for the job's type
Return(h) ==
  /\ run[h] = "executing"
  /\ \E o \in Outcome : run' = [run EXCEPT ![h] = o]
  /\ UNCHANGED <<storeVars, streamVars, cur, phase, readerVars, late, slots, starts>> /\ NoMishap

\* job.Timeout passes
Expire(h) ==
  /\ HoldsSlot(h)
  /\ h \notin late
  /\ late' = late \cup {h}
  /\ UNCHANGED <<storeVars, streamVars, cur, phase, readerVars, run, slots, starts>> /\ NoMishap

\* Mutant of Release: the slot is received twice, in place and deferred
ReleaseTwice(h) ==
  /\ run' = [run EXCEPT ![h] = "over"]
  /\ slots' = slots - 2
  /\ UNCHANGED <<streamVars, cur, phase, readerVars, late, starts>>

\* The goroutine ends and gives its slot back.
Release(h) ==
  /\ run' = [run EXCEPT ![h] = "over"]
  /\ slots' = slots - 1
  /\ UNCHANGED <<streamVars, cur, phase, readerVars, late, starts>>

\* Mutant of RecordAccepted: no foreign keys
RecordAnyway(h) == TRUE

\* historyRepo.Update is a Save of the record the entry carried: it
\* overwrites the row, or inserts it again if what it refers to is there.
RecordAccepted(h) ==
  \/ history[h] # Null
  \/ sched[payload[h].sched] # Null /\ payload[h].job \in jobs

\* Mutant of Record: saved before the outcome is set
RecordEarly(h) ==
  /\ run[h] \in Outcome
  /\ h \notin late
  /\ RecordAccepted(h)
  /\ history' = [history EXCEPT ![h] = payload[h]]
  /\ Release(h)
  /\ UNCHANGED <<jobs, sched, spent>> /\ NoMishap

Record(h) ==
  /\ run[h] \in Outcome
  /\ h \notin late
  /\ RecordAccepted(h)
  /\ history' = [history EXCEPT ![h] = [payload[h] EXCEPT !.status = run[h]]]
  /\ Release(h)
  /\ UNCHANGED <<jobs, sched, spent>> /\ NoMishap

\* historyRepo.Update fails: its context has expired, a foreign key is gone,
\* or the database is down.  The error is only logged.
RecordFails(h) ==
  /\ run[h] \in Outcome
  /\ \/ (h \in late \/ ~RecordAccepted(h)) /\ NoMishap
     \/ Mishap({h})
  /\ Release(h)
  /\ UNCHANGED storeVars

\* Mutant of Panic: the slot is not received by a deferred function
PanicKeepsSlot(h) ==
  /\ run[h] = "executing"
  /\ Mishap({h})
  /\ run' = [run EXCEPT ![h] = "over"]
  /\ UNCHANGED <<storeVars, streamVars, cur, phase, readerVars, late, slots, starts>>

\* A strategy panics: GoSafe recovers and the deferred receive frees the slot.
Panic(h) ==
  /\ run[h] = "executing"
  /\ Mishap({h})
  /\ Release(h)
  /\ UNCHANGED storeVars

Finish(h) == Record(h) \/ RecordFails(h)

-----------------------------------------------------------------------------
(* The process.                                                            *)

\* The process ends and is started again: what was in memory is lost.
Restarted ==
  /\ phase' = "serving"
  /\ step' = "read" /\ held' = Null
  /\ run' = [h \in History |-> IF InFlight(h) THEN "killed" ELSE run[h]]
  /\ slots' = 0
  /\ UNCHANGED <<storeVars, streamVars, cur, read, pending, late, starts>>

InMemory == {h \in History : InFlight(h)} \cup ({held} \ {Null})

\* A crash; also log.Fatal in stock_news_repository.go
Crash == Mishap(InMemory) /\ Restarted

\* SIGTERM: the context of the consumer is cancelled.
Sigterm ==
  /\ phase = "serving"
  /\ phase' = "stopping"
  /\ Mishap({})
  /\ UNCHANGED <<storeVars, streamVars, cur, readerVars, taskVars>>

\* Stop returns as soon as the consumer goroutine has left its loop, and main
\* returns; the container is started again.
Stop ==
  /\ phase = "stopping" /\ step = "read"
  /\ hit' = hit \cup InMemory /\ UNCHANGED mishaps
  /\ Restarted

Work(h) == Acquire(h) \/ Return(h) \/ Expire(h) \/ Finish(h) \/ Panic(h)

Service ==
  \/ Consume \/ ReadLost
  \/ \E h \in History : Work(h)
  \/ Crash \/ Sigterm \/ Stop

Next == Environment \/ Service

Spec == Init /\ [][Next]_vars

\* The consumer loop and the task goroutines run; a strategy returns in the
\* end (the HTTP clients, the database and the rate limiters take the
\* execution context); the semaphore serves blocked senders in turn.
FairSpec ==
  /\ Spec
  /\ WF_vars(Consume) /\ WF_vars(Stop)
  /\ \A h \in History : WF_vars(Acquire(h)) /\ WF_vars(Return(h)) /\ WF_vars(Finish(h))

-----------------------------------------------------------------------------
(* Properties.                                                             *)

\* No task is executed twice, across crashes, restarts, lost replies and
\* acknowledgements that fail: ProcessTask reads new entries only.
AtMostOnce == \A h \in History : starts[h] <= 1

\* The semaphore holds one value for each goroutine between acquiring and
\* ending, and never more than the configured number, whichever way the
\* goroutines end.
SlotsAccounted ==
  /\ slots = Cardinality(Holders)
  /\ slots <= MaxConcurrentTasks

\* What is acknowledged was decided on: the deferred XACK comes after the task
\* got its goroutine or was given up, so a crash in between leaves the entry
\* pending.
AckedIsHandled == \A h \in read \ pending : run[h] # "none"

\* A goroutine that ended left its outcome in the history, or the row is
\* deleted, unless the task ran past its deadline or something failed.
EndedIsRecorded ==
  \A h \in History : run[h] = "over" /\ h \notin late \cup hit =>
    history[h] = Null \/ history[h].status \in Outcome

\* A recorded outcome is never overwritten, unless a failure hit the task: not
\* by another execution, a restart, the insert of a deleted row, nor by the
\* poller.  Where XADD reports an error for an entry it added, executor and
\* poller both write.
FinalIsFinal ==
  [][\A h \in History \ hit :
       history[h] # Null /\ history[h].status \in Outcome /\ history'[h] # Null
         => history'[h] = history[h]]_vars

\* Every task that was added (and no limit trims the stream) is settled:
\* executed to the end, given up with its job, or hit by a failure.
TaskSettles ==
  \A h \in History :
    (\E i \in DOMAIN stream : stream[i] = h) ~> run[h] \in {"over", "dropped"} \/ h \in hit

\* StatusTimeout exists for executions that time out: one that ended past its
\* deadline is not left running.
TimeoutIsMarked ==
  \A h \in History : run[h] = "over" /\ h \in late \ hit =>
    history[h] = Null \/ history[h].status # "running"

-----------------------------------------------------------------------------
(* The executor is a pool that runs each task at most once.                *)

TaskState(h) ==
  IF payload[h] = Null THEN "absent"
  ELSE IF HoldsSlot(h) THEN "running"
  ELSE IF starts[h] > 0 THEN "ended" ELSE "queued"

PoolState == [h \in History |-> TaskState(h)]

Pool == INSTANCE TaskPool WITH
          Task <- History, Limit <- MaxConcurrentTasks, state <- PoolState

\* Seen through TaskState, every step of the service, its failures, crashes
\* and restarts included, is a step of TaskPool or leaves the pool alone: a
\* task lost with its process never comes back, a dropped one never starts.
PoolSpec == Pool!Spec
=============================================================================
