------------------------------ MODULE Scheduler ------------------------------
(***************************************************************************)
(* The scheduling service: one goroutine that polls task_schedules and     *)
(* publishes a task for each schedule that is due                          *)
(* (scheduler_service.go), and the REST API that edits jobs and schedules  *)
(* at the same time (job_service.go, schedule_service.go).                 *)
(*                                                                         *)
(* Every database transaction and every Redis command is one step, so the  *)
(* API, the clock, a failure or a crash may come between any two of them.  *)
(* The consumer of the stream is not part of this module.                  *)
(***************************************************************************)
EXTENDS JobStore

CONSTANTS Client,        \* requests of the API that may be in flight together
          Parsable,      \* the cron expressions the parser accepts
          NextFire,      \* NextFire[c][t]: the instant cron gives after t, 0 for none
          MaxClock,      \* bound: the clock stops here
          MaxFaults      \* bound: failures and crashes in a behaviour

Clock == 1..MaxClock

(***************************************************************************)
(* cron.Schedule.Next returns an instant after its argument, or the zero   *)
(* time when the expression never fires again.                             *)
(***************************************************************************)
ASSUME BoundAssumption == MaxClock \in Nat \ {0} /\ MaxFaults \in Nat
ASSUME CronAssumption ==
  /\ Parsable \subseteq Cron
  /\ \A c \in Parsable : \A t \in Clock :
        /\ NextFire[c][t] \in Nat
        /\ NextFire[c][t] = 0 \/ NextFire[c][t] > t

VARIABLES now,      \* the clock
          pc,       \* where the scheduler goroutine stands
          due,      \* the snapshot FindJobsToSchedule returned, less what was handled
          cur,      \* locals of publishTask: sched, row, hist, at
          api,      \* the request each client has in flight between its two queries
          slips,    \* history variable: schedules hit by a failure, a lost update or an unusable cron
          faults    \* number of failures so far

loopVars == <<pc, due, cur>>
vars == <<storeVars, streamVars, now, loopVars, api, slips, faults>>

PC == {"idle", "next", "enqueue", "fail", "save"}

Publication == [sched : Schedule, row : ScheduleRow, hist : History, at : Clock]

Request == [op : {"updateSchedule"}, sched : Schedule, snap : ScheduleRow]
             \cup [op : {"updateJob"}, job : Job]

ASSUME LocalsAssumption == Null \notin Publication /\ Null \notin Request

TypeOK ==
  /\ StoreTypeOK
  /\ StreamTypeOK
  /\ now \in Clock
  /\ pc \in PC
  /\ due \in [Schedule -> ScheduleRow \cup {Null}]
  /\ cur \in Publication \cup {Null}
  /\ api \in [Client -> Request \cup {Null}]
  /\ slips \subseteq Schedule
  /\ faults \in Nat

NothingDue == [s \in Schedule |-> Null]

Init ==
  /\ StoreInit
  /\ StreamInit
  /\ now = 1
  /\ pc = "idle"
  /\ due = NothingDue
  /\ cur = Null
  /\ api = [c \in Client |-> Null]
  /\ slips = {}
  /\ faults = 0

-----------------------------------------------------------------------------
(* The polling loop.                                                       *)

\* FindJobsToSchedule: is_active and next_execution null or reached
IsDue(s) ==
  /\ sched[s] # Null
  /\ sched[s].active
  /\ sched[s].next # Null => sched[s].next <= now

Fault == faults < MaxFaults /\ faults' = faults + 1

\* Mutant of Continue: the loop does not end with the snapshot
ContinueForever(d) ==
  /\ due' = d
  /\ cur' = Null
  /\ pc' = "next"

\* The loop of ProcessJobs goes on while the snapshot holds schedules.
Continue(d) ==
  /\ due' = d
  /\ cur' = Null
  /\ pc' = IF d = NothingDue THEN "idle" ELSE "next"

Finish == Continue(due)
Skip(s) == Continue([due EXCEPT ![s] = Null])

\* A tick of the poller that finds something; an empty or failed query changes nothing.
FindDue ==
  /\ pc = "idle"
  /\ \E s \in Schedule : IsDue(s)
  /\ due' = [s \in Schedule |-> IF IsDue(s) THEN sched[s] ELSE Null]
  /\ pc' = "next"
  /\ UNCHANGED <<storeVars, streamVars, now, cur, api, slips, faults>>

\* The INSERT of publishTask(s): the history row of the execution, status
\* running.  The job and the schedule of the snapshot have to be there still.
InsertHistory(s) ==
  /\ sched[s] # Null /\ due[s].job \in jobs
  /\ \E h \in History : payload[h] = Null
  /\ LET row == [job |-> due[s].job, sched |-> s, status |-> "running", started |-> now]
     IN  /\ history' = [history EXCEPT ![NextHistory] = row]
         /\ payload' = [payload EXCEPT ![NextHistory] = row]
  /\ UNCHANGED <<jobs, sched, spent, stream>>

\* publishTask(s) as far as historyRepo.Create
CreateHistory(s) ==
  /\ pc = "next" /\ due[s] # Null
  /\ InsertHistory(s)
  /\ cur' = [sched |-> s, row |-> due[s], hist |-> NextHistory, at |-> now]
  /\ due' = [due EXCEPT ![s] = Null]
  /\ pc' = "enqueue"
  /\ UNCHANGED <<now, api, slips, faults>>

\* The INSERT commits and its reply is lost: publishTask returns the error and
\* leaves a history that says running, without a task.
CreateHistoryLost(s) ==
  /\ pc = "next" /\ due[s] # Null
  /\ InsertHistory(s)
  /\ Fault
  /\ slips' = slips \cup {s}
  /\ Skip(s)
  /\ UNCHANGED <<now, api>>

\* historyRepo.Create fails: a foreign key is gone, or the database is
CreateHistoryFails(s) ==
  /\ pc = "next" /\ due[s] # Null
  /\ \/ (sched[s] = Null \/ due[s].job \notin jobs) /\ UNCHANGED faults
     \/ Fault
  /\ Skip(s)
  /\ UNCHANGED <<storeVars, streamVars, now, api, slips>>

\* XADD, then cronParser.Parse, whose failure leaves next_execution as it is
Enqueue ==
  /\ pc = "enqueue"
  /\ stream' = Enqueued(cur.hist)
  /\ IF cur.row.cron \in Parsable
       THEN pc' = "save" /\ UNCHANGED <<due, cur, slips>>
       ELSE Finish /\ slips' = slips \cup {cur.sched}
  /\ UNCHANGED <<storeVars, payload, now, api, faults>>

\* XADD returns an error; the entry may have been added all the same
EnqueueFails ==
  /\ pc = "enqueue"
  /\ Fault
  /\ stream' \in {stream, Enqueued(cur.hist)}
  /\ pc' = "fail"
  /\ slips' = slips \cup {cur.sched}
  /\ UNCHANGED <<storeVars, payload, now, due, cur, api>>

\* The error path: mark the history failed (Updates never inserts) and
\* return without touching the schedule
MarkFailed ==
  /\ pc = "fail"
  /\ \/ /\ history' = IF history[cur.hist] = Null THEN history
                      ELSE [history EXCEPT ![cur.hist].status = "failed"]
        /\ UNCHANGED faults
     \/ Fault /\ UNCHANGED history
  /\ Finish
  /\ UNCHANGED <<jobs, sched, spent, streamVars, now, api, slips>>

\* Mutant of Advanced: the instant of this execution instead of the next one
AdvancedToNow == [cur.row EXCEPT !.next = cur.at]

\* The row publishTask saves: its snapshot with the next execution
Advanced == [cur.row EXCEPT !.next = NextFire[cur.row.cron][cur.at]]

\* scheduleRepo.Update: Save overwrites whatever the row is by now, or
\* inserts the schedule again
SaveSchedule ==
  /\ pc = "save"
  /\ SaveAccepted(cur.sched, cur.row)
  /\ sched' = [sched EXCEPT ![cur.sched] = SavedRow(cur.sched, Advanced)]
  /\ slips' = IF Advanced.next = 0 THEN slips \cup {cur.sched} ELSE slips
  /\ Finish
  /\ UNCHANGED <<jobs, history, spent, streamVars, now, api, faults>>

\* Save fails: the job is gone as well, or the database is
SaveScheduleFails ==
  /\ pc = "save"
  /\ \/ ~SaveAccepted(cur.sched, cur.row) /\ UNCHANGED <<slips, faults>>
     \/ Fault /\ slips' = slips \cup {cur.sched}
  /\ Finish
  /\ UNCHANGED <<storeVars, streamVars, now, api>>

-----------------------------------------------------------------------------
(* The API.  Requests that are one transaction are the actions of JobStore; *)
(* PUT requests first read the row and save it later.                       *)

UnchangedByApi == UNCHANGED <<streamVars, now, loopVars, faults>>

StoreRequest ==
  /\ \/ \E j \in Job, new \in FreshSchedules : CreateJob(j, new) \/ CreateSchedule(j, new)
     \/ \E s \in Schedule : DeleteSchedule(s)
     \/ \E j \in Job : DeleteJob(j)
  /\ UnchangedByApi /\ UNCHANGED <<api, slips>>

\* PUT /schedules/{id}, FindByID
UpdateScheduleFind(c, s) ==
  /\ api[c] = Null
  /\ sched[s] # Null
  /\ api' = [api EXCEPT ![c] = [op |-> "updateSchedule", sched |-> s, snap |-> sched[s]]]
  /\ UnchangedByApi /\ UNCHANGED <<storeVars, slips>>

\* PUT /schedules/{id}, Save: cron_expression and is_active of the request,
\* all other columns of the snapshot
UpdateScheduleSave(c, cron, active) ==
  /\ api[c] # Null /\ api[c].op = "updateSchedule"
  /\ LET s   == api[c].sched
         row == [api[c].snap EXCEPT !.cron = cron, !.active = active]
     IN  /\ SaveAccepted(s, row)
         /\ sched' = [sched EXCEPT ![s] = SavedRow(s, row)]
         /\ slips' = IF sched[s] = api[c].snap THEN slips ELSE slips \cup {s}
  /\ api' = [api EXCEPT ![c] = Null]
  /\ UnchangedByApi /\ UNCHANGED <<jobs, history, spent>>

\* PUT /jobs/{id}, FindByID
UpdateJobFind(c, j) ==
  /\ api[c] = Null
  /\ j \in jobs
  /\ api' = [api EXCEPT ![c] = [op |-> "updateJob", job |-> j]]
  /\ UnchangedByApi /\ UNCHANGED <<storeVars, slips>>

\* PUT /jobs/{id}, the transaction
UpdateJobSave(c, new) ==
  /\ api[c] # Null /\ api[c].op = "updateJob"
  /\ ReplaceSchedules(api[c].job, new)
  /\ api' = [api EXCEPT ![c] = Null]
  /\ UnchangedByApi /\ UNCHANGED slips

\* The second query of a PUT fails or its client hangs up
RequestFails(c) ==
  /\ api[c] # Null
  /\ api' = [api EXCEPT ![c] = Null]
  /\ UnchangedByApi /\ UNCHANGED <<storeVars, slips>>

-----------------------------------------------------------------------------
\* The process dies and is started again: the tables and the stream stay.
Crash ==
  /\ Fault
  /\ pc' = "idle" /\ due' = NothingDue /\ cur' = Null
  /\ api' = [c \in Client |-> Null]
  /\ slips' = IF cur = Null THEN slips ELSE slips \cup {cur.sched}
  /\ UNCHANGED <<storeVars, streamVars, now>>

Tick ==
  /\ now < MaxClock
  /\ now' = now + 1
  /\ UNCHANGED <<storeVars, streamVars, loopVars, api, slips, faults>>

Publish ==
  \/ \E s \in Schedule : CreateHistory(s) \/ CreateHistoryLost(s) \/ CreateHistoryFails(s)
  \/ Enqueue \/ EnqueueFails
  \/ MarkFailed
  \/ SaveSchedule \/ SaveScheduleFails

Edit ==
  \/ StoreRequest
  \/ \E c \in Client :
       \/ \E s \in Schedule : UpdateScheduleFind(c, s)
       \/ \E cron \in Cron, active \in BOOLEAN : UpdateScheduleSave(c, cron, active)
       \/ \E j \in Job : UpdateJobFind(c, j)
       \/ \E new \in FreshSchedules : UpdateJobSave(c, new)
       \/ RequestFails(c)

Next == FindDue \/ Publish \/ Edit \/ Crash \/ Tick

Spec == Init /\ [][Next]_vars

\* The poller's goroutine keeps running; nothing is said of the API, the
\* clock or failures.
FairSpec == Spec /\ WF_vars(FindDue) /\ WF_vars(Publish)

-----------------------------------------------------------------------------
(* Properties.                                                             *)

\* A fire instant of some expression lies after from and no later than to.
NewSlot(from, to) ==
  \E c \in Parsable : from < NextFire[c][from] /\ NextFire[c][from] <= to

\* No schedule is published twice for one slot: unless a failure, a lost
\* update or an unusable expression hit the schedule, a fire instant lies
\* between the starts of any two of its tasks.  Rests on publishTask saving
\* next_execution after each publication, on the snapshot of ProcessJobs, and
\* on no edit of the API bringing an old next_execution back.
OneTaskPerSlot ==
  \A g, h \in History :
    /\ g # h /\ payload[g] # Null /\ payload[h] # Null
    /\ payload[g].sched = payload[h].sched /\ payload[g].sched \notin slips
    /\ payload[g].started <= payload[h].started
    => NewSlot(payload[g].started, payload[h].started)

\* No execution is recorded as running without a task for it: unless its
\* schedule was hit by a failure, a running history is the one in hand, has its
\* entry in the stream, or was pushed out of a full stream, by tasks of
\* which none started before it.
RunningHasTask ==
  \A h \in History :
    /\ history[h] # Null /\ history[h].status = "running"
    /\ history[h].sched \notin slips
    /\ cur # Null => cur.hist # h
    => \/ \E i \in DOMAIN stream : stream[i] = h
       \/ /\ StreamMaxLen > 0 /\ Len(stream) = StreamMaxLen
          /\ \A i \in DOMAIN stream : payload[stream[i]].started >= payload[h].started

\* A schedule that is due is handled: published and moved on, deactivated or
\* deleted.  Failures only delay it (they are bounded), a usable expression is
\* what the poller needs.
DueIsServed == \A s \in Schedule : IsDue(s) ~> ~IsDue(s)

\* "Update an existing schedule with the given details" and "Delete removes a
\* task schedule by its ID": publishing a task leaves the expression and the
\* activation of every schedule as the API set them, and a deleted one deleted.
PublishKeepsEdits ==
  [][Publish => \A s \in Schedule :
       /\ sched[s] = Null => sched'[s] = Null
       /\ sched[s] # Null /\ sched'[s] # Null =>
            sched'[s].cron = sched[s].cron /\ sched'[s].active = sched[s].active]_vars
=============================================================================
