------------------------------ MODULE JobStore ------------------------------
(***************************************************************************)
(* What the scheduling service and the execution service share: the three  *)
(* PostgreSQL tables jobs, task_schedules and task_execution_history       *)
(* (internal/entity, migrations/000001), the Redis stream                  *)
(* schedule.task.execution, and the transactions of the scheduling API     *)
(* that only touch the tables.                                             *)
(*                                                                         *)
(* A table is a function from its ids to its rows, Null where there is no  *)
(* row.  Ids come from SERIAL sequences and are never handed out twice.    *)
(* Columns no decision depends on (name, payload, last_execution, output,  *)
(* error_message, exit_code, created_at, updated_at) are left out.         *)
(***************************************************************************)
EXTENDS Integers, Sequences

CONSTANTS Job,        \* ids of table jobs
          Schedule,   \* ids of table task_schedules
          History,    \* ids of table task_execution_history
          Cron,       \* values of column cron_expression
          Null,       \* SQL NULL, and the absence of a row
          StreamMaxLen \* cfg.Redis.StreamMaxLen, 0 for no limit

VARIABLES jobs,       \* the ids that have a row in table jobs
          sched,      \* table task_schedules
          history,    \* table task_execution_history
          spent,      \* the job and schedule ids the sequences handed out
          stream,     \* the stream, oldest entry first; an entry is its history id
          payload     \* the history record marshalled into the entry of each history id

storeVars == <<jobs, sched, history, spent>>
streamVars == <<stream, payload>>

(***************************************************************************)
(* Null is neither a point in time, nor a history id, nor (RowAssumption)  *)
(* a row, and the ids of jobs and schedules are told apart.                *)
(***************************************************************************)
ASSUME NullAssumption == Null \notin Nat
ASSUME LengthAssumption == StreamMaxLen \in Nat
ASSUME IdAssumption == Job \cap Schedule = {} /\ Null \notin History

Status == {"running", "completed", "failed", "timeout"}

\* next = Null: next_execution IS NULL, due at once
ScheduleRow == [job : Job, cron : Cron, active : BOOLEAN, next : Nat \cup {Null}]

HistoryRow == [job : Job, sched : Schedule, status : Status, started : Nat]

ASSUME RowAssumption == Null \notin ScheduleRow /\ Null \notin HistoryRow

StoreTypeOK ==
  /\ jobs \subseteq Job
  /\ sched \in [Schedule -> ScheduleRow \cup {Null}]
  /\ history \in [History -> HistoryRow \cup {Null}]
  /\ spent \subseteq Job \cup Schedule

StreamTypeOK ==
  /\ stream \in Seq(History)
  /\ payload \in [History -> HistoryRow \cup {Null}]

StoreInit ==
  /\ jobs = {}
  /\ sched = [s \in Schedule |-> Null]
  /\ history = [h \in History |-> Null]
  /\ spent = {}

StreamInit ==
  /\ stream = <<>>
  /\ payload = [h \in History |-> Null]

-----------------------------------------------------------------------------
(* Building blocks of the transactions.                                    *)

\* A schedule as gorm inserts it: is_active has "default:true" and false is
\* the zero value of the field, so every inserted schedule is active.
InsertedRow(j, c, next) == [job |-> j, cron |-> c, active |-> TRUE, next |-> next]

SchedulesOf(j) == {s \in Schedule : sched[s] # Null /\ sched[s].job = j}

\* ON DELETE CASCADE of task_execution_history.schedule_id
HistoryWithout(S) ==
  [h \in History |->
     IF history[h] # Null /\ history[h].sched \in S THEN Null ELSE history[h]]

\* The new schedules of a request, as a function from fresh ids to their
\* cron expressions.
FreshSchedules == UNION {[S -> Cron] : S \in SUBSET (Schedule \ spent)}

\* Table task_schedules after deleting the schedules in gone and inserting new ones for job j
SchedulesReplaced(gone, j, new) ==
  [s \in Schedule |-> IF s \in DOMAIN new THEN InsertedRow(j, new[s], Null)
                     ELSE IF s \in gone THEN Null ELSE sched[s]]

\* Mutant of SaveAccepted: no foreign key from task_schedules to jobs
SaveAnyway(s, row) == TRUE

\* gorm's Save of schedule s: UPDATE ... WHERE id = s, and when no row was hit
\* an INSERT, for which the job must still have its row.
SaveAccepted(s, row) == sched[s] # Null \/ row.job \in jobs

SavedRow(s, row) ==
  IF sched[s] # Null THEN row ELSE InsertedRow(row.job, row.cron, row.next)

\* The next value of the sequence of task_execution_history.id
NextHistory == CHOOSE h \in History : payload[h] = Null

\* Mutant of Enqueued: a stream trimmed before it is full
EnqueuedTrimmed(h) ==
  LET longer == Append(stream, h)
  IN  IF StreamMaxLen > 0 /\ Len(longer) >= StreamMaxLen THEN Tail(longer) ELSE longer

\* XADD MAXLEN: the oldest entry goes when the stream is full, read or not
Enqueued(h) ==
  LET longer == Append(stream, h)
  IN  IF StreamMaxLen > 0 /\ Len(longer) > StreamMaxLen THEN Tail(longer) ELSE longer

-----------------------------------------------------------------------------
(* Requests of the API that are one transaction.                           *)

\* POST /jobs: the job and its schedules
CreateJob(j, new) ==
  /\ j \notin spent
  /\ jobs' = jobs \cup {j}
  /\ sched' = SchedulesReplaced({}, j, new)
  /\ spent' = spent \cup {j} \cup DOMAIN new
  /\ UNCHANGED history

\* POST /schedules: one more schedule for a job that has its row
CreateSchedule(j, new) ==
  /\ j \in jobs
  /\ \E s \in Schedule : DOMAIN new = {s}
  /\ sched' = SchedulesReplaced({}, j, new)
  /\ spent' = spent \cup DOMAIN new
  /\ UNCHANGED <<jobs, history>>

\* DELETE /schedules/{id}
DeleteSchedule(s) ==
  /\ sched[s] # Null
  /\ sched' = [sched EXCEPT ![s] = Null]
  /\ history' = HistoryWithout({s})
  /\ UNCHANGED <<jobs, spent>>

\* DELETE /jobs/{id}: histories, schedules and the job in one transaction
DeleteJob(j) ==
  /\ j \in jobs
  /\ jobs' = jobs \ {j}
  /\ sched' = [s \in Schedule |-> IF s \in SchedulesOf(j) THEN Null ELSE sched[s]]
  /\ history' = [h \in History |->
                   IF history[h] # Null /\ history[h].job = j THEN Null
                   ELSE HistoryWithout(SchedulesOf(j))[h]]
  /\ UNCHANGED spent

\* The transaction of PUT /jobs/{id}: delete the job's schedules, save the
\* job, insert the schedules of the request.  When the job row is gone, the
\* new schedules violate their foreign key and all is rolled back; without
\* new schedules Save inserts the job again.
ReplaceSchedules(j, new) ==
  /\ j \in jobs \/ DOMAIN new = {}
  /\ jobs' = jobs \cup {j}
  /\ sched' = SchedulesReplaced(SchedulesOf(j), j, new)
  /\ history' = HistoryWithout(SchedulesOf(j))
  /\ spent' = spent \cup DOMAIN new

-----------------------------------------------------------------------------
\* What the tables refer to exists, across every race of the API's
\* transactions with the scheduler's inserts and upserts: the job of a
\* schedule, the schedule and the job of a history.
Referential ==
  /\ \A s \in Schedule : sched[s] # Null => sched[s].job \in jobs
  /\ \A h \in History : history[h] # Null =>
        sched[history[h].sched] # Null /\ history[h].job \in jobs
=============================================================================
