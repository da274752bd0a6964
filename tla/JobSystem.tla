------------------------------ MODULE JobSystem ------------------------------
(***************************************************************************)
(* Both services over one database and one stream: the poller and the API  *)
(* of Scheduler publish tasks, the consumer and the goroutines of Executor *)
(* take them from the stream and write their outcomes back.  The           *)
(* environment of module Executor is replaced by the real poller, with its *)
(* clock, its snapshot and next_execution, and what neither module can say *)
(* alone is said here: what becomes of a slot of a cron expression.        *)
(***************************************************************************)
EXTENDS Scheduler

CONSTANT MaxConcurrentTasks   \* as in Executor

VARIABLES phase, read, pending, step, held, run, late, slots, starts, hit,
          trimmed   \* history variable: tasks whose entry MAXLEN pushed out unread

\* The publication in hand, as module Executor sees it
InHand ==
  IF cur = Null THEN Null
  ELSE [sched |-> cur.sched, row |-> cur.row, hist |-> cur.hist, stage |-> pc]

\* The failures of both services are counted together.
E == INSTANCE Executor WITH cur <- InHand, mishaps <- faults, MaxMishaps <- MaxFaults

ASSUME SystemAssumption ==
  MaxConcurrentTasks \in Nat /\ Null \notin E!Publication

processVars == <<phase, read, pending, step, held, run, late, slots, starts>>
systemVars == <<vars, processVars, hit, trimmed>>

SystemTypeOK == TypeOK /\ E!TypeOK /\ trimmed \subseteq History

SystemInit == Init /\ E!Init /\ trimmed = {}

Queued(h) == \E i \in DOMAIN stream : stream[i] = h

\* The scheduling service leaves the other process alone.  An XADD that
\* reports an error counts as a mishap of its task.
BySchedulingService ==
  /\ hit' = IF pc = "enqueue" /\ pc' = "fail" THEN hit \cup {cur.hist} ELSE hit
  /\ trimmed' = trimmed \cup {h \in History \ read : Queued(h) /\ ~Queued(h)'}
  /\ UNCHANGED processVars

\* The execution service shares the tables and the stream, and nothing else.
ByExecutionService == UNCHANGED <<now, loopVars, api, slips, trimmed>>

SystemNext ==
  \/ Next /\ BySchedulingService
  \/ ByExecutionService /\ E!Service

System == SystemInit /\ [][SystemNext]_systemVars

\* Each goroutine runs: the poller, the consumer, and those of the tasks.
FairSystem ==
  /\ System
  /\ WF_systemVars((FindDue \/ Publish) /\ BySchedulingService)
  /\ WF_systemVars(ByExecutionService /\ (E!Consume \/ E!Stop))
  /\ \A h \in History :
       WF_systemVars(ByExecutionService /\ (E!Acquire(h) \/ E!Return(h) \/ E!Finish(h)))

-----------------------------------------------------------------------------
(* Properties.                                                             *)

\* A slot leads to at most one execution: no task is started twice, and a
\* fire instant lies between any two tasks of a schedule that were started,
\* unless a failure, a lost update or an unusable expression hit the schedule.
\* Crashes, restarts, lost replies and failed acknowledgements of the
\* execution service need no exception.
SlotRunsOnce ==
  /\ \A h \in History : starts[h] <= 1
  /\ \A g, h \in History :
       /\ g # h /\ starts[g] > 0 /\ starts[h] > 0
       /\ payload[g].sched = payload[h].sched /\ payload[g].sched \notin slips
       /\ payload[g].started <= payload[h].started
       => NewSlot(payload[g].started, payload[h].started)

Running(h) == history[h] # Null /\ history[h].status = "running"

\* What a failure of either service, a deadline or MAXLEN did to a task
Disturbed(h) == payload[h].sched \in slips \/ h \in hit \cup late \cup trimmed

\* A history that says running is in somebody's hands: publishTask is about
\* to add its entry, the entry waits to be read, the consumer looks its job
\* up, or its goroutine is there.
RunningIsInHand ==
  \A h \in History : Running(h) /\ ~Disturbed(h) =>
    \/ pc = "enqueue" /\ cur.hist = h
    \/ Queued(h) /\ h \notin read
    \/ step = "lookup" /\ held = h
    \/ E!InFlight(h)

\* No execution stays running for ever: the API deletes it or an outcome is
\* recorded, unless something disturbed it.
RunningEnds == \A h \in History : Running(h) ~> ~Running(h) \/ Disturbed(h)
=============================================================================
