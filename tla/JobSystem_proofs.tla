-------------------------- MODULE JobSystem_proofs --------------------------
(***************************************************************************)
(* Proofs about Scheduler, first alone (its specification is Spec), then   *)
(* composed with Executor (System), for all values of the constants.       *)
(* What Executor_proofs shows of single steps of the execution service is  *)
(* used again for the composed system, through the instance P.             *)
(***************************************************************************)
EXTENDS JobSystem, JobStore_proofs

(***************************************************************************)
(* The inductive invariant behind OneTaskPerSlot.  What the property says  *)
(* of two tasks follows from what the schedule's row promises about the    *)
(* next one (NextIsLater), through the snapshot the poller works from      *)
(* (SnapshotAgrees) and the locals of publishTask (CurAgrees).             *)
(***************************************************************************)

\* Every task started no later than now.
StartedAgrees == \A h \in History : payload[h] # Null => payload[h].started \in 1..now

\* Whatever refers to a schedule refers to an id the sequence handed out.
SpentAgrees ==
  /\ \A s \in Schedule : sched[s] # Null \/ due[s] # Null => s \in spent
  /\ \A h \in History : payload[h] # Null => payload[h].sched \in spent
  /\ \A c \in Client : api[c] # Null /\ api[c].op = "updateSchedule" => api[c].sched \in spent
  /\ cur # Null => cur.sched \in spent

\* Every trace of a schedule, in its table, the snapshot, the locals and the
\* requests, names the same job.
OwnedBy(owner) ==
  /\ \A s \in Schedule : sched[s] # Null => sched[s].job = owner[s]
  /\ \A s \in Schedule : due[s] # Null => due[s].job = owner[s]
  /\ cur # Null => cur.row.job = owner[cur.sched]
  /\ \A c \in Client : api[c] # Null /\ api[c].op = "updateSchedule" =>
        api[c].snap.job = owner[api[c].sched]

Owned == \E owner \in [Schedule -> Job \cup {Null}] : OwnedBy(owner)

RefInv == Referential /\ SpentAgrees /\ Owned

\* The snapshot holds what was due, and still shows next_execution.
SnapshotAgrees ==
  \A s \in Schedule : due[s] # Null =>
    /\ due[s].next # Null => due[s].next <= now
    /\ sched[s] # Null /\ s \notin slips => due[s].next = sched[s].next

\* publishTask is running exactly when its locals are set, and saves only
\* what it could parse.
CurHeld ==
  /\ pc \in {"enqueue", "fail", "save"} <=> cur # Null
  /\ pc = "save" => cur.row.cron \in Parsable

\* The locals of publishTask describe a task that no earlier one collides with.
CurAgrees ==
  /\ cur # Null =>
       /\ payload[cur.hist] # Null
       /\ payload[cur.hist].sched = cur.sched
       /\ payload[cur.hist].started = cur.at
       /\ due[cur.sched] = Null
       /\ pc = "fail" => cur.sched \in slips
       /\ \A h \in History \ {cur.hist} :
            payload[h] # Null /\ payload[h].sched = cur.sched /\ cur.sched \notin slips
              => NewSlot(payload[h].started, cur.at)

\* next_execution lies in a later slot than every task of the schedule.
NextIsLater ==
  \A h \in History :
    /\ payload[h] # Null /\ payload[h].sched \notin slips
    /\ sched[payload[h].sched] # Null
    /\ cur # Null => cur.sched # payload[h].sched
    => /\ sched[payload[h].sched].next # Null
       /\ NewSlot(payload[h].started, sched[payload[h].sched].next)

SlotInv ==
  /\ StartedAgrees
  /\ SnapshotAgrees
  /\ CurAgrees
  /\ NextIsLater
  /\ OneTaskPerSlot

-----------------------------------------------------------------------------
\* An accepted expression's next instant is in the future, or the zero time.
LEMMA AdvancedNext ==
  ASSUME cur \in Publication, cur.row.cron \in Parsable
  PROVE  /\ Advanced \in ScheduleRow
         /\ Advanced.next \in Nat
         /\ Advanced.next = 0 \/ Advanced.next > cur.at
         /\ Advanced.next = NextFire[cur.row.cron][cur.at]
         /\ Advanced.job = cur.row.job
<1>1. cur.row \in ScheduleRow /\ cur.at \in Clock
  BY DEF Publication
<1>2. /\ NextFire[cur.row.cron][cur.at] \in Nat
      /\ NextFire[cur.row.cron][cur.at] = 0 \/ NextFire[cur.row.cron][cur.at] > cur.at
  BY <1>1, CronAssumption
<1>3. QED
  BY <1>1, <1>2 DEF Advanced, ScheduleRow

-----------------------------------------------------------------------------
\* Types, and when the locals of publishTask are set.
TypeInv == TypeOK /\ CurHeld

LEMMA InitTypeInv == Init => TypeInv
<1> SUFFICES ASSUME Init PROVE TypeInv
  OBVIOUS
<1>1. StoreTypeOK /\ StreamTypeOK
  BY DEF Init, StoreInit, StreamInit, StoreTypeOK, StreamTypeOK
<1>2. now \in Clock
  BY BoundAssumption DEF Init, Clock
<1>3. QED
  BY <1>1, <1>2 DEF Init, TypeInv, TypeOK, CurHeld, PC, NothingDue

\* The poller's steps.
LEMMA PublishTypeInv ==
  ASSUME TypeInv, FindDue \/ Publish
  PROVE  TypeInv'
<1> USE DEF TypeInv, TypeOK, StreamTypeOK, CurHeld, PC, storeVars, streamVars
<1>1. pc \in {"enqueue", "fail", "save"} => cur \in Publication
  OBVIOUS
<1>2. cur \in Publication => /\ cur.sched \in Schedule /\ cur.row \in ScheduleRow
                             /\ cur.hist \in History /\ cur.at \in Clock
  BY DEF Publication
<1>3. NothingDue \in [Schedule -> ScheduleRow \cup {Null}]
  BY DEF NothingDue
<1>4. CASE FindDue
  BY <1>4 DEF FindDue, StoreTypeOK
<1>5. ASSUME NEW s \in Schedule, CreateHistory(s) PROVE TypeInv'
  <2> DEFINE row == [job |-> due[s].job, sched |-> s, status |-> "running", started |-> now]
  <2>1. NextHistory \in History
    BY <1>5, NextHistoryIsFresh DEF CreateHistory, InsertHistory
  <2>2. due[s] \in ScheduleRow /\ due[s].job \in Job
    BY <1>5 DEF CreateHistory, InsertHistory, ScheduleRow
  <2>3. row \in HistoryRow
    BY <2>2 DEF HistoryRow, Status, Clock
  <2>4. StoreTypeOK'
    BY <1>5, <2>1, <2>3 DEF CreateHistory, InsertHistory, StoreTypeOK
  <2>5. cur' \in Publication
    BY <1>5, <2>1, <2>2 DEF CreateHistory, InsertHistory, Publication
  <2>6. payload' \in [History -> HistoryRow \cup {Null}]
    BY <1>5, <2>1, <2>3 DEF CreateHistory, InsertHistory
  <2>7. due' \in [Schedule -> ScheduleRow \cup {Null}]
    BY <1>5 DEF CreateHistory, InsertHistory
  <2>8. pc' = "enqueue" /\ cur' # Null
    BY <1>5, <2>5, LocalsAssumption DEF CreateHistory, InsertHistory
  <2>9. UNCHANGED <<stream, now, api, slips, faults>>
    BY <1>5 DEF CreateHistory, InsertHistory
  <2>10. QED
    BY <2>4, <2>5, <2>6, <2>7, <2>8, <2>9
<1>12. ASSUME NEW s \in Schedule, CreateHistoryLost(s) PROVE TypeInv'
  <2> DEFINE row == [job |-> due[s].job, sched |-> s, status |-> "running", started |-> now]
  <2>1. NextHistory \in History
    BY <1>12, NextHistoryIsFresh DEF CreateHistoryLost, InsertHistory
  <2>2. due[s] \in ScheduleRow /\ due[s].job \in Job
    BY <1>12 DEF CreateHistoryLost, ScheduleRow
  <2>3. row \in HistoryRow
    BY <2>2 DEF HistoryRow, Status, Clock
  <2>4. StoreTypeOK' /\ payload' \in [History -> HistoryRow \cup {Null}]
    BY <1>12, <2>1, <2>3 DEF CreateHistoryLost, InsertHistory, StoreTypeOK
  <2>5. /\ due' = [due EXCEPT ![s] = Null] /\ cur' = Null /\ pc' \in {"idle", "next"}
        /\ UNCHANGED <<stream, now, api>> /\ slips' = slips \cup {s} /\ faults' = faults + 1
    BY <1>12 DEF CreateHistoryLost, InsertHistory, Fault, Skip, Continue
  <2>6. QED
    BY <2>4, <2>5
<1>6. ASSUME NEW s \in Schedule, CreateHistoryFails(s) PROVE TypeInv'
  BY <1>6, <1>3 DEF CreateHistoryFails, Skip, Continue, Fault, StoreTypeOK
<1>7. CASE Enqueue
  <2>1. cur \in Publication /\ stream' \in Seq(History)
    BY <1>7, <1>1, <1>2, EnqueuedTyped DEF Enqueue
  <2>2. UNCHANGED <<storeVars, payload, now, api, faults>>
    BY <1>7 DEF Enqueue
  <2>3. CASE cur.row.cron \in Parsable
    BY <1>7, <2>1, <2>2, <2>3, LocalsAssumption DEF Enqueue, StoreTypeOK
  <2>4. CASE cur.row.cron \notin Parsable
    BY <1>7, <1>2, <2>1, <2>2, <2>4 DEF Enqueue, Finish, Continue, StoreTypeOK
  <2>5. QED
    BY <2>3, <2>4
<1>8. CASE EnqueueFails
  <2>1. cur \in Publication /\ stream' \in Seq(History)
    BY <1>8, <1>1, <1>2, EnqueuedTyped DEF EnqueueFails
  <2>2. QED
    BY <1>8, <1>2, <2>1, LocalsAssumption DEF EnqueueFails, Fault, StoreTypeOK
<1>9. CASE MarkFailed
  <2>1. cur \in Publication
    BY <1>9, <1>1 DEF MarkFailed
  <2>2. \A r \in HistoryRow : [r EXCEPT !.status = "failed"] \in HistoryRow
    BY DEF HistoryRow, Status
  <2>3. history' \in [History -> HistoryRow \cup {Null}]
    <3>1. CASE UNCHANGED history
      BY <3>1 DEF StoreTypeOK
    <3>2. CASE history[cur.hist] # Null /\ history' = [history EXCEPT ![cur.hist].status = "failed"]
      BY <3>2, <1>2, <2>1, <2>2 DEF StoreTypeOK
    <3>3. QED
      BY <1>9, <3>1, <3>2 DEF MarkFailed
  <2>4. faults' \in Nat
    BY <1>9 DEF MarkFailed, Fault
  <2>5. QED
    BY <1>9, <2>3, <2>4 DEF MarkFailed, Finish, Continue, StoreTypeOK
<1>10. CASE SaveSchedule
  <2>1. cur \in Publication
    BY <1>10, <1>1 DEF SaveSchedule
  <2>2. Advanced \in ScheduleRow
    BY <1>10, <2>1, AdvancedNext DEF SaveSchedule
  <2>3. sched' \in [Schedule -> ScheduleRow \cup {Null}]
    BY <1>10, <1>2, <2>1, <2>2, SavedIsRow DEF SaveSchedule, StoreTypeOK
  <2>4. slips' \subseteq Schedule
    BY <1>10, <1>2, <2>1 DEF SaveSchedule
  <2>5. QED
    BY <1>10, <2>3, <2>4 DEF SaveSchedule, Finish, Continue, StoreTypeOK
<1>11. CASE SaveScheduleFails
  BY <1>11, <1>1, <1>2 DEF SaveScheduleFails, Finish, Continue, Fault, StoreTypeOK
<1>13. QED
  BY <1>4, <1>5, <1>6, <1>7, <1>8, <1>9, <1>10, <1>11, <1>12 DEF Publish

\* The steps of the API.
LEMMA EditTypeInv ==
  ASSUME TypeInv, Edit
  PROVE  TypeInv'
<1> USE DEF TypeInv, TypeOK, StreamTypeOK, CurHeld, PC, storeVars, streamVars, loopVars, UnchangedByApi
<1>1. CASE StoreRequest
  <2>1. ASSUME NEW j \in Job, NEW new \in FreshSchedules, CreateJob(j, new)
        PROVE  StoreTypeOK'
    BY <2>1, ReplacedTyped, FreshAreFresh DEF CreateJob, StoreTypeOK
  <2>2. ASSUME NEW j \in Job, NEW new \in FreshSchedules, CreateSchedule(j, new)
        PROVE  StoreTypeOK'
    BY <2>2, ReplacedTyped, FreshAreFresh DEF CreateSchedule, StoreTypeOK
  <2>3. ASSUME NEW s \in Schedule, DeleteSchedule(s)
        PROVE  StoreTypeOK'
    BY <2>3, CascadeTyped DEF DeleteSchedule, StoreTypeOK
  <2>4. ASSUME NEW j \in Job, DeleteJob(j)
        PROVE  StoreTypeOK'
    <3>1. HistoryWithout(SchedulesOf(j)) \in [History -> HistoryRow \cup {Null}]
      BY CascadeTyped DEF StoreTypeOK
    <3>2. QED
      BY <2>4, <3>1 DEF DeleteJob, StoreTypeOK
  <2>5. StoreTypeOK'
    BY <1>1, <2>1, <2>2, <2>3, <2>4 DEF StoreRequest
  <2>6. QED
    BY <1>1, <2>5 DEF StoreRequest
<1>2. ASSUME NEW c \in Client, NEW s \in Schedule, UpdateScheduleFind(c, s)
      PROVE  TypeInv'
  <2>1. [op |-> "updateSchedule", sched |-> s, snap |-> sched[s]] \in Request
    BY <1>2 DEF UpdateScheduleFind, Request, StoreTypeOK
  <2>2. QED
    BY <1>2, <2>1 DEF UpdateScheduleFind, StoreTypeOK
<1>3. ASSUME NEW c \in Client, NEW cron \in Cron, NEW active \in BOOLEAN,
             UpdateScheduleSave(c, cron, active)
      PROVE  TypeInv'
  <2> DEFINE row == [api[c].snap EXCEPT !.cron = cron, !.active = active]
  <2>1. api[c].sched \in Schedule /\ api[c].snap \in ScheduleRow
    BY <1>3 DEF UpdateScheduleSave, Request
  <2>2. row \in ScheduleRow
    BY <2>1 DEF ScheduleRow
  <2>3. SavedRow(api[c].sched, row) \in ScheduleRow
    BY <2>1, <2>2, SavedIsRow
  <2>4. sched' \in [Schedule -> ScheduleRow \cup {Null}] /\ slips' \subseteq Schedule
    BY <1>3, <2>1, <2>3 DEF UpdateScheduleSave, StoreTypeOK
  <2>5. QED
    BY <1>3, <2>4 DEF UpdateScheduleSave, StoreTypeOK
<1>4. ASSUME NEW c \in Client, NEW j \in Job, UpdateJobFind(c, j)
      PROVE  TypeInv'
  <2>1. [op |-> "updateJob", job |-> j] \in Request
    BY DEF Request
  <2>2. QED
    BY <1>4, <2>1 DEF UpdateJobFind, StoreTypeOK
<1>5. ASSUME NEW c \in Client, NEW new \in FreshSchedules, UpdateJobSave(c, new)
      PROVE  TypeInv'
  <2>1. api[c].job \in Job
    BY <1>5 DEF UpdateJobSave, Request
  <2>2. StoreTypeOK'
    BY <1>5, <2>1, ReplacedTyped, CascadeTyped, FreshAreFresh
      DEF UpdateJobSave, ReplaceSchedules, StoreTypeOK
  <2>3. QED
    BY <1>5, <2>2 DEF UpdateJobSave
<1>6. ASSUME NEW c \in Client, RequestFails(c)
      PROVE  TypeInv'
  BY <1>6 DEF RequestFails, StoreTypeOK
<1>7. QED
  BY <1>1, <1>2, <1>3, <1>4, <1>5, <1>6 DEF Edit

LEMMA NextTypeInv == TypeInv /\ [Next]_vars => TypeInv'
<1> SUFFICES ASSUME TypeInv, [Next]_vars PROVE TypeInv'
  OBVIOUS
<1> USE DEF TypeInv, TypeOK, StreamTypeOK, CurHeld, PC, storeVars, streamVars, loopVars, StoreTypeOK
<1>1. CASE FindDue \/ Publish
  BY <1>1, PublishTypeInv
<1>2. CASE Edit
  BY <1>2, EditTypeInv
<1>3. CASE Crash
  <2>1. cur # Null => cur.sched \in Schedule
    BY DEF Publication
  <2>2. QED
    BY <1>3, <2>1 DEF Crash, Fault, NothingDue
<1>4. CASE Tick
  BY <1>4, BoundAssumption DEF Tick, Clock
<1>5. CASE UNCHANGED vars
  BY <1>5 DEF vars
<1>6. QED
  BY <1>1, <1>2, <1>3, <1>4, <1>5 DEF Next

\* Type correctness of the scheduling service: the tables, the stream, the
\* snapshot, the locals of publishTask and the requests in flight keep their
\* types through every handler.
THEOREM TypeCorrect == Spec => []TypeOK
<1>1. TypeInv => TypeOK
  BY DEF TypeInv
<1>2. QED
  BY <1>1, InitTypeInv, NextTypeInv, PTL DEF Spec

-----------------------------------------------------------------------------
(* Referential integrity.                                                  *)

LEMMA InitRefInv == Init => RefInv
<1> SUFFICES ASSUME Init PROVE RefInv
  OBVIOUS
<1> USE DEF Init, StoreInit, StreamInit, NothingDue
<1>1. Referential
  BY DEF Referential
<1>2. SpentAgrees
  BY DEF SpentAgrees
<1>3. Owned
  <2> DEFINE owner == [s \in Schedule |-> Null]
  <2>1. owner \in [Schedule -> Job \cup {Null}] /\ OwnedBy(owner)
    BY DEF OwnedBy
  <2>2. QED
    BY <2>1 DEF Owned
<1>4. QED
  BY <1>1, <1>2, <1>3 DEF RefInv

\* A step that adds no row and drops nothing else than histories keeps the
\* references.
LEMMA PublishRefInv ==
  ASSUME TypeInv, RefInv, FindDue \/ Publish
  PROVE  RefInv'
<1> USE DEF TypeInv, TypeOK, StreamTypeOK, CurHeld, StoreTypeOK, RefInv, storeVars, streamVars
<1>1. PICK owner \in [Schedule -> Job \cup {Null}] : OwnedBy(owner)
  BY DEF Owned
<1>2. cur # Null => /\ cur.sched \in Schedule /\ cur.row \in ScheduleRow
                    /\ cur.hist \in History
  BY DEF Publication
<1>3. CASE FindDue
  <2>1. Referential' /\ SpentAgrees'
    BY <1>3 DEF FindDue, Referential, SpentAgrees
  <2>2. OwnedBy(owner)'
    BY <1>1, <1>3 DEF FindDue, OwnedBy
  <2>3. QED
    BY <2>1, <2>2 DEF Owned
<1>4. ASSUME NEW s \in Schedule, CreateHistory(s) PROVE RefInv'
  <2> USE DEF CreateHistory, InsertHistory
  <2>1. NextHistory \in History
    BY <1>4, NextHistoryIsFresh
  <2>2. Referential'
    BY <1>4, <2>1 DEF Referential
  <2>3. SpentAgrees'
    BY <1>4, <2>1 DEF SpentAgrees
  <2>4. OwnedBy(owner)'
    BY <1>1, <1>4 DEF OwnedBy
  <2>5. QED
    BY <2>2, <2>3, <2>4 DEF Owned
<1>9. ASSUME NEW s \in Schedule, CreateHistoryLost(s) PROVE RefInv'
  <2> USE DEF CreateHistoryLost, InsertHistory, Skip, Continue
  <2>1. NextHistory \in History
    BY <1>9, NextHistoryIsFresh
  <2>2. Referential'
    BY <1>9, <2>1 DEF Referential
  <2>3. SpentAgrees'
    BY <1>9, <2>1 DEF SpentAgrees
  <2>4. OwnedBy(owner)'
    BY <1>1, <1>9 DEF OwnedBy
  <2>5. QED
    BY <2>2, <2>3, <2>4 DEF Owned
<1>5. ASSUME NEW s \in Schedule, CreateHistoryFails(s) PROVE RefInv'
  <2> USE DEF CreateHistoryFails, Skip, Continue
  <2>1. Referential' /\ SpentAgrees'
    BY <1>5 DEF Referential, SpentAgrees
  <2>2. OwnedBy(owner)'
    BY <1>1, <1>5 DEF OwnedBy
  <2>3. QED
    BY <2>1, <2>2 DEF Owned
<1>6. CASE Enqueue \/ EnqueueFails \/ SaveScheduleFails
  <2> USE DEF Enqueue, EnqueueFails, SaveScheduleFails, Finish, Continue
  <2>1. Referential' /\ SpentAgrees'
    BY <1>6 DEF Referential, SpentAgrees
  <2>2. OwnedBy(owner)'
    BY <1>1, <1>6 DEF OwnedBy
  <2>3. QED
    BY <2>1, <2>2 DEF Owned
<1>7. CASE MarkFailed
  <2> USE DEF MarkFailed, Finish, Continue
  <2>1. \A h \in History : /\ history'[h] # Null => history[h] # Null
                           /\ history'[h] # Null => history'[h].sched = history[h].sched
                                                 /\ history'[h].job = history[h].job
    <3>1. \A r \in HistoryRow : LET f == [r EXCEPT !.status = "failed"]
                                IN  f.sched = r.sched /\ f.job = r.job
      BY DEF HistoryRow
    <3>2. CASE UNCHANGED history
      BY <3>2
    <3>3. CASE history[cur.hist] # Null /\ history' = [history EXCEPT ![cur.hist].status = "failed"]
      BY <3>1, <3>3, <1>2, <1>7
    <3>4. QED
      BY <1>7, <3>2, <3>3
  <2>2. Referential'
    BY <1>7, <2>1 DEF Referential
  <2>3. SpentAgrees'
    BY <1>7 DEF SpentAgrees
  <2>4. OwnedBy(owner)'
    BY <1>1, <1>7 DEF OwnedBy
  <2>5. QED
    BY <2>2, <2>3, <2>4 DEF Owned
<1>8. CASE SaveSchedule
  <2> USE DEF SaveSchedule, Finish, Continue
  <2>1. Advanced \in ScheduleRow /\ Advanced.job = cur.row.job /\ cur # Null
    BY <1>8, AdvancedNext
  <2>2. SavedRow(cur.sched, Advanced) \in ScheduleRow
    BY <1>2, <2>1, SavedIsRow
  <2>3. SavedRow(cur.sched, Advanced).job = cur.row.job
    BY <2>1 DEF SavedRow, InsertedRow
  <2>4. cur.row.job \in jobs
    BY <1>1, <1>2, <1>8, <2>1 DEF SaveAccepted, Referential, OwnedBy
  <2>5. Referential'
    BY <1>2, <1>8, <2>1, <2>2, <2>3, <2>4, RowAssumption DEF Referential
  <2>6. SpentAgrees'
    BY <1>2, <1>8, <2>1 DEF SpentAgrees
  <2>7. OwnedBy(owner)'
    BY <1>1, <1>2, <1>8, <2>1, <2>3 DEF OwnedBy
  <2>8. QED
    BY <2>5, <2>6, <2>7 DEF Owned
<1>10. QED
  BY <1>3, <1>4, <1>5, <1>6, <1>7, <1>8, <1>9 DEF Publish

\* Inserting fresh schedules for job j and dropping those in gone with their
\* histories, which are all the others of j or none, keeps the references.
LEMMA ReplaceRefInv ==
  ASSUME TypeInv, RefInv, NEW j \in Job, NEW new \in FreshSchedules,
         NEW gone \in SUBSET Schedule,
         jobs' = jobs \cup {j},
         sched' = SchedulesReplaced(gone, j, new),
         history' = HistoryWithout(gone),
         spent' = spent \cup DOMAIN new \/ spent' = spent \cup {j} \cup DOMAIN new,
         UNCHANGED <<payload, due, cur>>,
         \A c \in Client : api'[c] = api[c] \/ api'[c] = Null
  PROVE  RefInv'
<1> USE DEF TypeInv, TypeOK, StreamTypeOK, CurHeld, StoreTypeOK, RefInv
<1>1. /\ DOMAIN new \subseteq Schedule
      /\ \A s \in DOMAIN new : /\ s \notin spent /\ new[s] \in Cron
                               /\ InsertedRow(j, new[s], Null) \in ScheduleRow
                               /\ InsertedRow(j, new[s], Null).job = j
  BY FreshAreFresh, InsertedIsRow DEF InsertedRow
<1>2. \A s \in Schedule :
        sched'[s] = IF s \in DOMAIN new THEN InsertedRow(j, new[s], Null)
                    ELSE IF s \in gone THEN Null ELSE sched[s]
  BY DEF SchedulesReplaced
<1>3. \A h \in History : history'[h] # Null =>
        history'[h] = history[h] /\ history[h].sched \notin gone
  BY DEF HistoryWithout
<1>4. \A h \in History : history[h] # Null => history[h].sched \in Schedule
  BY DEF HistoryRow
<1>5. Referential'
  BY <1>1, <1>2, <1>3, <1>4, RowAssumption DEF Referential
<1>6. SpentAgrees'
  BY <1>1, <1>2 DEF SpentAgrees
<1>7. Owned'
  <2>1. PICK owner \in [Schedule -> Job \cup {Null}] : OwnedBy(owner)
    BY DEF Owned
  <2> DEFINE owner2 == [s \in Schedule |-> IF s \in DOMAIN new THEN j ELSE owner[s]]
  <2>2. owner2 \in [Schedule -> Job \cup {Null}]
    OBVIOUS
  <2>3. \A s \in Schedule : due[s] # Null \/ sched[s] # Null => s \notin DOMAIN new
    BY <1>1 DEF SpentAgrees
  <2>4. cur # Null => cur.sched \in Schedule /\ cur.sched \notin DOMAIN new
    BY <1>1 DEF SpentAgrees, Publication
  <2>5. \A c \in Client : api[c] # Null /\ api[c].op = "updateSchedule" =>
          api[c].sched \in Schedule /\ api[c].sched \notin DOMAIN new
    BY <1>1 DEF SpentAgrees, Request
  <2>6. OwnedBy(owner2)'
    BY <1>1, <1>2, <2>1, <2>3, <2>4, <2>5 DEF OwnedBy
  <2>7. QED
    BY <2>2, <2>6 DEF Owned
<1>8. QED
  BY <1>5, <1>6, <1>7

\* Dropping rows with all that refers to them keeps the references.
LEMMA DropRefInv ==
  ASSUME TypeInv, RefInv, UNCHANGED <<payload, due, cur, api, spent>>,
         \A s \in Schedule : sched'[s] = sched[s] \/ sched'[s] = Null,
         Referential'
  PROVE  RefInv'
<1> USE DEF TypeInv, TypeOK, StreamTypeOK, StoreTypeOK, RefInv
<1>1. SpentAgrees'
  BY DEF SpentAgrees
<1>2. PICK owner \in [Schedule -> Job \cup {Null}] : OwnedBy(owner)
  BY DEF Owned
<1>3. OwnedBy(owner)'
  BY <1>2 DEF OwnedBy
<1>4. QED
  BY <1>1, <1>3 DEF Owned

LEMMA EditRefInv ==
  ASSUME TypeInv, RefInv, Edit
  PROVE  RefInv'
<1> USE DEF TypeInv, TypeOK, StreamTypeOK, CurHeld, StoreTypeOK, UnchangedByApi, loopVars, storeVars, streamVars
<1>1. HistoryWithout({}) = history
  BY DEF HistoryWithout
<1>2. CASE StoreRequest
  <2> USE DEF StoreRequest
  <2>1. ASSUME NEW j \in Job, NEW new \in FreshSchedules, CreateJob(j, new)
        PROVE  RefInv'
    BY <1>1, <1>2, <2>1, ReplaceRefInv DEF CreateJob
  <2>2. ASSUME NEW j \in Job, NEW new \in FreshSchedules, CreateSchedule(j, new)
        PROVE  RefInv'
    <3>1. jobs' = jobs \cup {j}
      BY <2>2 DEF CreateSchedule
    <3>2. QED
      BY <1>1, <1>2, <2>2, <3>1, ReplaceRefInv DEF CreateSchedule
  <2>3. ASSUME NEW s \in Schedule, DeleteSchedule(s)
        PROVE  RefInv'
    <3>1. Referential'
      BY <2>3 DEF DeleteSchedule, HistoryWithout, RefInv, Referential, HistoryRow
    <3>2. QED
      BY <1>2, <2>3, <3>1, DropRefInv DEF DeleteSchedule
  <2>4. ASSUME NEW j \in Job, DeleteJob(j)
        PROVE  RefInv'
    <3>1. Referential'
      BY <2>4 DEF DeleteJob, HistoryWithout, SchedulesOf, RefInv, Referential, HistoryRow
    <3>2. \A s \in Schedule : sched'[s] = sched[s] \/ sched'[s] = Null
      BY <2>4 DEF DeleteJob
    <3>3. QED
      BY <1>2, <2>4, <3>1, <3>2, DropRefInv DEF DeleteJob
  <2>5. QED
    BY <1>2, <2>1, <2>2, <2>3, <2>4
<1>3. PICK owner \in [Schedule -> Job \cup {Null}] : OwnedBy(owner)
  BY DEF RefInv, Owned
<1>4. ASSUME NEW c \in Client, NEW s \in Schedule, UpdateScheduleFind(c, s)
      PROVE  RefInv'
  <2> USE DEF UpdateScheduleFind
  <2>1. Referential' /\ SpentAgrees'
    BY <1>4 DEF RefInv, Referential, SpentAgrees
  <2>2. OwnedBy(owner)'
    BY <1>3, <1>4 DEF OwnedBy
  <2>3. QED
    BY <2>1, <2>2 DEF RefInv, Owned
<1>5. ASSUME NEW c \in Client, NEW cron \in Cron, NEW active \in BOOLEAN,
             UpdateScheduleSave(c, cron, active)
      PROVE  RefInv'
  <2> DEFINE s == api[c].sched
             row == [api[c].snap EXCEPT !.cron = cron, !.active = active]
  <2>1. s \in Schedule /\ api[c].snap \in ScheduleRow /\ api[c] # Null /\ api[c].op = "updateSchedule"
    BY <1>5 DEF UpdateScheduleSave, Request
  <2>2. row \in ScheduleRow /\ row.job = api[c].snap.job
    BY <2>1 DEF ScheduleRow
  <2>3. SavedRow(s, row) \in ScheduleRow /\ SavedRow(s, row).job = row.job
    BY <2>1, <2>2, SavedIsRow DEF SavedRow, InsertedRow
  <2>4. /\ SaveAccepted(s, row)
        /\ sched' = [sched EXCEPT ![s] = SavedRow(s, row)]
        /\ api' = [api EXCEPT ![c] = Null]
        /\ UNCHANGED <<jobs, history, spent, payload, due, cur>>
    BY <1>5 DEF UpdateScheduleSave
  <2> HIDE DEF s, row
  <2>5. row.job = owner[s]
    BY <1>3, <2>1, <2>2 DEF OwnedBy, s
  <2>6. row.job \in jobs
    BY <1>3, <2>1, <2>4, <2>5 DEF SaveAccepted, RefInv, Referential, OwnedBy
  <2>7. Referential'
    BY <2>1, <2>3, <2>4, <2>6, RowAssumption DEF RefInv, Referential
  <2>8. SpentAgrees'
    BY <2>1, <2>4 DEF RefInv, SpentAgrees, s
  <2>9. OwnedBy(owner)'
    BY <1>3, <2>1, <2>3, <2>4, <2>5 DEF OwnedBy
  <2>10. QED
    BY <2>7, <2>8, <2>9 DEF RefInv, Owned
<1>6. ASSUME NEW c \in Client, NEW j \in Job, UpdateJobFind(c, j)
      PROVE  RefInv'
  <2> USE DEF UpdateJobFind
  <2>1. Referential' /\ SpentAgrees'
    BY <1>6 DEF RefInv, Referential, SpentAgrees
  <2>2. OwnedBy(owner)'
    BY <1>3, <1>6 DEF OwnedBy
  <2>3. QED
    BY <2>1, <2>2 DEF RefInv, Owned
<1>7. ASSUME NEW c \in Client, NEW new \in FreshSchedules, UpdateJobSave(c, new)
      PROVE  RefInv'
  <2>1. api[c].job \in Job
    BY <1>7 DEF UpdateJobSave, Request
  <2>2. SchedulesOf(api[c].job) \in SUBSET Schedule
    BY DEF SchedulesOf
  <2>3. QED
    BY <1>7, <2>1, <2>2, ReplaceRefInv DEF UpdateJobSave, ReplaceSchedules
<1>8. ASSUME NEW c \in Client, RequestFails(c)
      PROVE  RefInv'
  <2> USE DEF RequestFails
  <2>1. Referential' /\ SpentAgrees'
    BY <1>8 DEF RefInv, Referential, SpentAgrees
  <2>2. OwnedBy(owner)'
    BY <1>3, <1>8 DEF OwnedBy
  <2>3. QED
    BY <2>1, <2>2 DEF RefInv, Owned
<1>9. QED
  BY <1>2, <1>4, <1>5, <1>6, <1>7, <1>8 DEF Edit

LEMMA NextRefInv == TypeInv /\ RefInv /\ [Next]_vars => RefInv'
<1> SUFFICES ASSUME TypeInv, RefInv, [Next]_vars PROVE RefInv'
  OBVIOUS
<1> USE DEF storeVars, streamVars, loopVars
<1>1. PICK owner \in [Schedule -> Job \cup {Null}] : OwnedBy(owner)
  BY DEF RefInv, Owned
<1>2. CASE Crash
  <2>1. Referential' /\ SpentAgrees'
    BY <1>2 DEF Crash, NothingDue, RefInv, Referential, SpentAgrees
  <2>2. OwnedBy(owner)'
    BY <1>1, <1>2 DEF Crash, NothingDue, OwnedBy
  <2>3. QED
    BY <2>1, <2>2 DEF RefInv, Owned
<1>3. CASE Tick \/ UNCHANGED vars
  <2>1. UNCHANGED <<storeVars, payload, loopVars, api>>
    BY <1>3 DEF Tick, vars
  <2>2. QED
    BY <2>1 DEF RefInv, Referential, SpentAgrees, Owned, OwnedBy
<1>4. QED
  BY <1>2, <1>3, PublishRefInv, EditRefInv DEF Next

\* No race of the API's transactions with the inserts and upserts of the
\* scheduler leaves a schedule without its job or a history without its
\* schedule and job.
THEOREM ReferencesHold == Spec => []Referential
<1>1. RefInv => Referential
  BY DEF RefInv
<1>2. QED
  BY <1>1, InitTypeInv, NextTypeInv, InitRefInv, NextRefInv, PTL DEF Spec

-----------------------------------------------------------------------------
(* One task per slot.                                                      *)

\* A later instant is in a new slot as well, and an instant is not in a new
\* slot with respect to itself or a later one.
LEMMA NewSlotMonotone ==
  ASSUME NEW from \in Clock, NEW to \in Nat, NEW later \in Nat, to <= later, NewSlot(from, to)
  PROVE  NewSlot(from, later) /\ from < later
BY CronAssumption DEF NewSlot, Clock

LEMMA InitSlotInv == Init => SlotInv
BY DEF Init, StoreInit, StreamInit, NothingDue, SlotInv, StartedAgrees, SnapshotAgrees, CurAgrees,
       NextIsLater, OneTaskPerSlot

\* A step that touches neither the tasks nor the clock, keeps or ends the
\* publication in hand, and writes the table only where NextIsLater and
\* SnapshotAgrees hold again, keeps the invariant.
LEMMA QuietSlotInv ==
  ASSUME TypeInv, SlotInv,
         UNCHANGED <<payload, now>>,
         slips \subseteq slips',
         \A s \in Schedule : due'[s] = due[s] \/ due'[s] = Null,
         \/ cur' = Null
         \/ cur' = cur /\ (cur # Null /\ pc' = "fail" => cur.sched \in slips'),
         SnapshotAgrees', NextIsLater'
  PROVE  SlotInv'
<1> USE DEF TypeInv, TypeOK, StreamTypeOK, SlotInv
<1>1. StartedAgrees'
  BY DEF StartedAgrees
<1>2. CurAgrees'
  <2>1. CASE cur' = Null
    BY <2>1 DEF CurAgrees
  <2>2. CASE cur' = cur /\ cur # Null
    <3>1. cur.sched \in Schedule /\ cur.hist \in History
      BY <2>2 DEF Publication
    <3>2. QED
      BY <2>2, <3>1 DEF CurAgrees
  <2>3. QED
    BY <2>1, <2>2
<1>3. OneTaskPerSlot'
  BY DEF OneTaskPerSlot
<1>4. QED
  BY <1>1, <1>2, <1>3

\* A new task starts in a later slot than the tasks its schedule had.
LEMMA CreateSlotInv ==
  ASSUME TypeInv, SlotInv, NEW s \in Schedule, CreateHistory(s)
  PROVE  SlotInv'
<1> USE DEF TypeInv, TypeOK, StreamTypeOK, CurHeld, PC
<1> DEFINE h == NextHistory
           row == [job |-> due[s].job, sched |-> s, status |-> "running", started |-> now]
<1>1. h \in History /\ payload[h] = Null
  BY NextHistoryIsFresh DEF CreateHistory, InsertHistory
<1>2. /\ payload' = [payload EXCEPT ![h] = row]
      /\ cur' = [sched |-> s, row |-> due[s], hist |-> h, at |-> now]
      /\ due' = [due EXCEPT ![s] = Null]
      /\ due[s] # Null /\ due[s] \in ScheduleRow
      /\ sched[s] # Null /\ sched[s] \in ScheduleRow
      /\ cur = Null /\ pc' = "enqueue"
      /\ UNCHANGED <<sched, now, slips>>
  BY DEF CreateHistory, InsertHistory, StoreTypeOK
<1>3. row # Null /\ row.sched = s /\ row.started = now /\ cur' # Null
  <2>1. row \in HistoryRow
    BY <1>2 DEF HistoryRow, Status, ScheduleRow, Clock
  <2>2. cur' \in Publication
    BY <1>1, <1>2 DEF Publication
  <2>3. QED
    BY <2>1, <2>2, RowAssumption, LocalsAssumption
<1> HIDE DEF h, row
<1>4. \A g \in History : payload[g] # Null /\ payload[g].sched = s /\ s \notin slips
        => NewSlot(payload[g].started, now) /\ payload[g].started < now
  <2> SUFFICES ASSUME NEW g \in History, payload[g] # Null, payload[g].sched = s, s \notin slips
               PROVE  NewSlot(payload[g].started, now) /\ payload[g].started < now
    OBVIOUS
  <2>1. sched[s].next # Null /\ NewSlot(payload[g].started, sched[s].next)
    BY <1>2 DEF SlotInv, NextIsLater
  <2>2. sched[s].next \in Nat /\ sched[s].next <= now
    BY <1>2, <2>1 DEF SlotInv, SnapshotAgrees, ScheduleRow
  <2>3. payload[g].started \in Clock /\ now \in Nat
    BY BoundAssumption DEF SlotInv, StartedAgrees, Clock
  <2>4. QED
    BY <2>1, <2>2, <2>3, NewSlotMonotone
<1>5. StartedAgrees'
  BY <1>1, <1>2, <1>3 DEF SlotInv, StartedAgrees, Clock
<1>6. SnapshotAgrees'
  BY <1>2 DEF SlotInv, SnapshotAgrees
<1>7. CurAgrees'
  BY <1>1, <1>2, <1>3, <1>4 DEF CurAgrees
<1>8. NextIsLater'
  BY <1>1, <1>2, <1>3 DEF SlotInv, NextIsLater
<1>9. OneTaskPerSlot'
  <2>1. \A g \in History : payload[g] # Null => payload[g].started \in 1..now
    BY DEF SlotInv, StartedAgrees
  <2>2. QED
    BY <1>1, <1>2, <1>3, <1>4, <2>1 DEF SlotInv, OneTaskPerSlot, Clock
<1>10. QED
  BY <1>5, <1>6, <1>7, <1>8, <1>9 DEF SlotInv

\* A history whose INSERT was not acknowledged is booked on its schedule.
LEMMA LostSlotInv ==
  ASSUME TypeInv, SlotInv, NEW s \in Schedule, CreateHistoryLost(s)
  PROVE  SlotInv'
<1> USE DEF TypeInv, TypeOK, StreamTypeOK, CurHeld, PC
<1> DEFINE h == NextHistory
           row == [job |-> due[s].job, sched |-> s, status |-> "running", started |-> now]
<1>1. h \in History /\ payload[h] = Null
  BY NextHistoryIsFresh DEF CreateHistoryLost, InsertHistory
<1>2. /\ payload' = [payload EXCEPT ![h] = row]
      /\ cur = Null /\ cur' = Null
      /\ due' = [due EXCEPT ![s] = Null]
      /\ slips' = slips \cup {s}
      /\ UNCHANGED <<sched, now>>
  BY DEF CreateHistoryLost, InsertHistory, Skip, Continue
<1>3. row.sched = s /\ row.started = now
  OBVIOUS
<1> HIDE DEF h, row
<1>4. StartedAgrees'
  BY <1>1, <1>2, <1>3 DEF SlotInv, StartedAgrees, Clock
<1>5. SnapshotAgrees'
  BY <1>2 DEF SlotInv, SnapshotAgrees
<1>6. CurAgrees'
  BY <1>2 DEF CurAgrees
<1>7. NextIsLater' /\ OneTaskPerSlot'
  BY <1>1, <1>2, <1>3 DEF SlotInv, NextIsLater, OneTaskPerSlot
<1>8. QED
  BY <1>4, <1>5, <1>6, <1>7 DEF SlotInv

LEMMA PublishSlotInv ==
  ASSUME TypeInv, RefInv, SlotInv, FindDue \/ Publish
  PROVE  SlotInv'
<1> USE DEF TypeInv, TypeOK, StreamTypeOK, CurHeld, PC, storeVars, streamVars
<1>1. cur # Null => /\ cur.sched \in Schedule /\ cur.hist \in History
                    /\ cur.at \in Clock /\ cur \in Publication
  BY DEF Publication
<1>2. CASE FindDue
  <2>1. cur = Null /\ cur' = Null
    BY <1>2 DEF FindDue
  <2>2. SnapshotAgrees'
    BY <1>2 DEF FindDue, IsDue, SnapshotAgrees
  <2>3. UNCHANGED <<payload, now, sched, slips>>
    BY <1>2 DEF FindDue
  <2>4. StartedAgrees' /\ NextIsLater' /\ OneTaskPerSlot'
    BY <2>1, <2>3 DEF SlotInv, StartedAgrees, NextIsLater, OneTaskPerSlot
  <2>5. CurAgrees'
    BY <2>1 DEF CurAgrees
  <2>6. QED
    BY <2>2, <2>4, <2>5 DEF SlotInv
<1>3. ASSUME NEW s \in Schedule, CreateHistory(s) \/ CreateHistoryLost(s) PROVE SlotInv'
  BY <1>3, CreateSlotInv, LostSlotInv
<1>4. ASSUME NEW s \in Schedule, CreateHistoryFails(s) PROVE SlotInv'
  <2> USE DEF CreateHistoryFails, Skip, Continue
  <2>1. SnapshotAgrees' /\ NextIsLater'
    BY <1>4 DEF SlotInv, SnapshotAgrees, NextIsLater
  <2>2. QED
    BY <1>4, <2>1, QuietSlotInv
<1>5. CASE Enqueue
  <2>1. UNCHANGED <<sched, payload, now, due>> /\ slips \subseteq slips'
    BY <1>5 DEF Enqueue, Finish, Continue
  <2>2. \/ cur' = cur /\ pc' = "save" /\ UNCHANGED slips
        \/ cur' = Null /\ slips' = slips \cup {cur.sched}
    BY <1>5 DEF Enqueue, Finish, Continue
  <2>3. SnapshotAgrees' /\ NextIsLater'
    BY <2>1, <2>2 DEF SlotInv, SnapshotAgrees, NextIsLater
  <2>4. QED
    BY <2>1, <2>2, <2>3, QuietSlotInv
<1>6. CASE EnqueueFails
  <2> USE DEF EnqueueFails
  <2>1. SnapshotAgrees' /\ NextIsLater'
    BY <1>6 DEF SlotInv, SnapshotAgrees, NextIsLater
  <2>2. QED
    BY <1>6, <2>1, QuietSlotInv
<1>7. CASE MarkFailed
  <2> USE DEF MarkFailed, Finish, Continue
  <2>1. cur # Null /\ cur.sched \in slips
    BY <1>7 DEF SlotInv, CurAgrees
  <2>2. SnapshotAgrees' /\ NextIsLater'
    BY <1>7, <2>1 DEF SlotInv, SnapshotAgrees, NextIsLater
  <2>3. QED
    BY <1>7, <2>2, QuietSlotInv
<1>8. CASE SaveSchedule
  <2> USE DEF SaveSchedule, Finish, Continue
  <2>1. /\ cur # Null /\ cur.row.cron \in Parsable
        /\ UNCHANGED <<payload, now, due>> /\ cur' = Null
        /\ slips \subseteq slips'
        /\ Advanced.next = 0 => cur.sched \in slips'
        /\ sched' = [sched EXCEPT ![cur.sched] = SavedRow(cur.sched, Advanced)]
    BY <1>8
  <2>2. /\ Advanced.next \in Nat
        /\ Advanced.next = 0 \/ Advanced.next > cur.at
        /\ Advanced.next = NextFire[cur.row.cron][cur.at]
    BY <1>1, <2>1, AdvancedNext
  <2>3. SavedRow(cur.sched, Advanced).next = Advanced.next
    BY DEF SavedRow, InsertedRow
  <2>4. SnapshotAgrees'
    BY <1>1, <2>1 DEF SlotInv, SnapshotAgrees, CurAgrees, StoreTypeOK
  <2>5. NextIsLater'
    <3> SUFFICES ASSUME NEW h \in History, payload[h] # Null, payload[h].sched \notin slips',
                        sched'[payload[h].sched] # Null
                 PROVE  /\ sched'[payload[h].sched].next # Null
                        /\ NewSlot(payload[h].started, sched'[payload[h].sched].next)
      BY <2>1 DEF NextIsLater
    <3>1. payload[h].sched \in Schedule /\ payload[h].started \in Clock
      BY BoundAssumption DEF HistoryRow, SlotInv, StartedAgrees, Clock
    <3>2. CASE payload[h].sched # cur.sched
      BY <2>1, <3>1, <3>2 DEF SlotInv, NextIsLater, StoreTypeOK
    <3>3. CASE payload[h].sched = cur.sched
      <4>1. sched'[cur.sched].next = Advanced.next /\ Advanced.next > cur.at
        BY <1>1, <2>1, <2>2, <2>3, <3>3 DEF StoreTypeOK
      <4>2. NewSlot(payload[h].started, Advanced.next)
        <5>1. CASE h = cur.hist
          BY <2>1, <2>2, <4>1, <5>1 DEF SlotInv, CurAgrees, NewSlot
        <5>2. CASE h # cur.hist
          <6>1. NewSlot(payload[h].started, cur.at)
            BY <2>1, <3>3, <5>2 DEF SlotInv, CurAgrees
          <6>2. cur.at \in Nat /\ cur.at <= Advanced.next
            BY <1>1, <2>1, <2>2, <4>1 DEF Clock
          <6>3. QED
            BY <2>2, <3>1, <6>1, <6>2, NewSlotMonotone
        <5>3. QED
          BY <5>1, <5>2
      <4>3. QED
        BY <2>2, <3>3, <4>1, <4>2, NullAssumption
    <3>4. QED
      BY <3>2, <3>3
  <2>6. QED
    BY <2>1, <2>4, <2>5, QuietSlotInv
<1>9. CASE SaveScheduleFails
  <2> USE DEF SaveScheduleFails, Finish, Continue
  <2>1. sched[cur.sched] = Null \/ cur.sched \in slips'
    BY <1>9 DEF SaveAccepted
  <2>2. slips \subseteq slips' /\ UNCHANGED <<sched, payload, now, due>> /\ cur' = Null
    BY <1>9
  <2>3. SnapshotAgrees' /\ NextIsLater'
    BY <2>1, <2>2 DEF SlotInv, SnapshotAgrees, NextIsLater
  <2>4. QED
    BY <2>2, <2>3, QuietSlotInv
<1>10. QED
  BY <1>2, <1>3, <1>4, <1>5, <1>6, <1>7, <1>8, <1>9 DEF Publish

\* Fresh schedules have no task and no place in the snapshot.
LEMMA ReplaceSlotInv ==
  ASSUME TypeInv, RefInv, SlotInv, NEW j, NEW new \in FreshSchedules, NEW gone,
         sched' = SchedulesReplaced(gone, j, new),
         UNCHANGED <<payload, now, pc, due, cur, slips>>
  PROVE  SlotInv'
<1> USE DEF TypeInv, TypeOK, StreamTypeOK, StoreTypeOK, CurHeld
<1>1. \A s \in Schedule : /\ s \in DOMAIN new => s \notin spent
                          /\ s \notin DOMAIN new => sched'[s] = sched[s] \/ sched'[s] = Null
  BY FreshAreFresh DEF SchedulesReplaced
<1>2. SnapshotAgrees'
  BY <1>1 DEF SlotInv, SnapshotAgrees, RefInv, SpentAgrees
<1>3. NextIsLater'
  <2>1. \A h \in History : payload[h] # Null =>
          payload[h].sched \in Schedule /\ payload[h].sched \in spent
    BY DEF HistoryRow, RefInv, SpentAgrees
  <2>2. QED
    BY <1>1, <2>1 DEF SlotInv, NextIsLater
<1>4. QED
  BY <1>2, <1>3, QuietSlotInv DEF SlotInv, CurAgrees

LEMMA EditSlotInv ==
  ASSUME TypeInv, RefInv, SlotInv, Edit
  PROVE  SlotInv'
<1> USE DEF TypeInv, TypeOK, StreamTypeOK, StoreTypeOK, UnchangedByApi, loopVars, storeVars, streamVars
<1>1. UNCHANGED <<payload, now, pc, due, cur>> /\ slips \subseteq slips'
  BY DEF Edit, StoreRequest, UpdateScheduleFind, UpdateScheduleSave, UpdateJobFind,
         UpdateJobSave, RequestFails
<1>2. pc = "fail" /\ cur # Null => cur.sched \in slips
  BY DEF SlotInv, CurAgrees
<1>3. CASE StoreRequest
  <2>1. UNCHANGED slips
    BY <1>3 DEF StoreRequest
  <2>2. ASSUME NEW j \in Job, NEW new \in FreshSchedules, CreateJob(j, new) \/ CreateSchedule(j, new)
        PROVE  SlotInv'
    BY <1>1, <2>1, <2>2, ReplaceSlotInv DEF CreateJob, CreateSchedule
  <2>3. ASSUME \A s \in Schedule : sched'[s] = sched[s] \/ sched'[s] = Null
        PROVE  SlotInv'
    <3>1. \A h \in History : payload[h] # Null => payload[h].sched \in Schedule
      BY DEF HistoryRow
    <3>2. SnapshotAgrees' /\ NextIsLater'
      BY <1>1, <2>1, <2>3, <3>1 DEF SlotInv, SnapshotAgrees, NextIsLater
    <3>3. QED
      BY <1>1, <1>2, <3>2, QuietSlotInv
  <2>4. (\E s \in Schedule : DeleteSchedule(s)) \/ (\E j \in Job : DeleteJob(j))
          => \A s \in Schedule : sched'[s] = sched[s] \/ sched'[s] = Null
    BY DEF DeleteSchedule, DeleteJob
  <2>5. QED
    BY <1>3, <2>2, <2>3, <2>4 DEF StoreRequest
<1>4. ASSUME NEW c \in Client, NEW new \in FreshSchedules, UpdateJobSave(c, new)
      PROVE  SlotInv'
  BY <1>1, <1>4, ReplaceSlotInv DEF UpdateJobSave, ReplaceSchedules
<1>5. ASSUME NEW c \in Client, NEW cron \in Cron, NEW active \in BOOLEAN,
             UpdateScheduleSave(c, cron, active)
      PROVE  SlotInv'
  <2> DEFINE s == api[c].sched
             row == [api[c].snap EXCEPT !.cron = cron, !.active = active]
  <2>1. s \in Schedule /\ api[c].snap \in ScheduleRow
    BY <1>5 DEF UpdateScheduleSave, Request
  <2>2. /\ sched' = [sched EXCEPT ![s] = SavedRow(s, row)]
        /\ slips' = IF sched[s] = api[c].snap THEN slips ELSE slips \cup {s}
    BY <1>5 DEF UpdateScheduleSave
  <2>3. CASE sched[s] = api[c].snap
    <3>1. sched[s] # Null
      BY <2>1, <2>3, RowAssumption
    <3>2. SavedRow(s, row).next = sched[s].next
      BY <2>1, <2>3, <3>1 DEF SavedRow, ScheduleRow
    <3>3. \A r \in Schedule : /\ sched'[r] # Null => sched[r] # Null
                              /\ sched'[r] # Null => sched'[r].next = sched[r].next
      BY <2>1, <2>2, <3>1, <3>2
    <3>4. \A h \in History : payload[h] # Null => payload[h].sched \in Schedule
      BY DEF HistoryRow
    <3>5. SnapshotAgrees' /\ NextIsLater'
      BY <1>1, <2>2, <2>3, <3>3, <3>4 DEF SlotInv, SnapshotAgrees, NextIsLater
    <3>6. QED
      BY <1>1, <1>2, <3>5, QuietSlotInv
  <2>4. CASE sched[s] # api[c].snap
    <3>1. s \in slips' /\ \A r \in Schedule \ {s} : sched'[r] = sched[r]
      BY <2>2, <2>4
    <3>2. \A h \in History : payload[h] # Null => payload[h].sched \in Schedule
      BY DEF HistoryRow
    <3>3. SnapshotAgrees' /\ NextIsLater'
      BY <1>1, <3>1, <3>2 DEF SlotInv, SnapshotAgrees, NextIsLater
    <3>4. QED
      BY <1>1, <1>2, <3>3, QuietSlotInv
  <2>5. QED
    BY <2>3, <2>4
<1>6. ASSUME UNCHANGED <<sched, slips>>
      PROVE  SlotInv'
  <2>1. SnapshotAgrees' /\ NextIsLater'
    BY <1>1, <1>6 DEF SlotInv, SnapshotAgrees, NextIsLater
  <2>2. QED
    BY <1>1, <1>2, <2>1, QuietSlotInv
<1>7. QED
  BY <1>3, <1>4, <1>5, <1>6 DEF Edit, UpdateScheduleFind, UpdateJobFind, RequestFails

LEMMA NextSlotInv == TypeInv /\ RefInv /\ SlotInv /\ [Next]_vars => SlotInv'
<1> SUFFICES ASSUME TypeInv, RefInv, SlotInv, [Next]_vars PROVE SlotInv'
  OBVIOUS
<1> USE DEF TypeInv, TypeOK, StreamTypeOK, storeVars, streamVars, loopVars
<1>1. CASE Crash
  <2>1. SnapshotAgrees' /\ NextIsLater'
    BY <1>1 DEF Crash, NothingDue, SlotInv, SnapshotAgrees, NextIsLater
  <2>2. QED
    BY <1>1, <2>1, QuietSlotInv DEF Crash, NothingDue
<1>2. CASE Tick
  <2>1. UNCHANGED <<sched, payload, pc, due, cur, slips>> /\ now' = now + 1
    BY <1>2 DEF Tick
  <2>2. now \in Nat
    BY DEF Clock
  <2>3. StartedAgrees'
    BY <2>1, <2>2 DEF SlotInv, StartedAgrees
  <2>4. \A s \in Schedule : due[s] # Null => due[s].next \in Nat \cup {Null}
    BY DEF ScheduleRow
  <2>5. SnapshotAgrees'
    BY <2>1, <2>2, <2>4 DEF SlotInv, SnapshotAgrees
  <2>6. CurAgrees' /\ NextIsLater' /\ OneTaskPerSlot'
    BY <2>1 DEF SlotInv, CurAgrees, NextIsLater, OneTaskPerSlot
  <2>7. QED
    BY <2>3, <2>5, <2>6 DEF SlotInv
<1>3. CASE UNCHANGED vars
  BY <1>3 DEF vars, SlotInv, StartedAgrees, SnapshotAgrees, CurAgrees, NextIsLater, OneTaskPerSlot
<1>4. QED
  BY <1>1, <1>2, <1>3, PublishSlotInv, EditSlotInv DEF Next

\* A schedule is not published twice for one slot, unless a failure, a lost
\* update or an unusable expression hit it: publishTask saves next_execution
\* behind every task it publishes, and nothing else moves it.
THEOREM SlotsAreServedOnce == Spec => []OneTaskPerSlot
<1>1. SlotInv => OneTaskPerSlot
  BY DEF SlotInv
<1>2. QED
  BY <1>1, InitTypeInv, NextTypeInv, InitRefInv, NextRefInv, InitSlotInv, NextSlotInv, PTL
  DEF Spec

-----------------------------------------------------------------------------
(* Running histories have their task.                                      *)

(***************************************************************************)
(* The histories whose entry was added: it is in the stream, or the stream  *)
(* is full of tasks that started no earlier.                                *)
(***************************************************************************)
Behind(h) == \A i \in DOMAIN stream : payload[stream[i]].started >= payload[h].started

Published ==
  {h \in History : \/ \E i \in DOMAIN stream : stream[i] = h
                   \/ StreamMaxLen > 0 /\ Len(stream) = StreamMaxLen /\ Behind(h)}

Trimmed == StreamMaxLen > 0 => Len(stream) <= StreamMaxLen

\* The entries are in the order their tasks started, and the one in hand is last.
Ordered ==
  /\ \A i \in DOMAIN stream : payload[stream[i]] # Null
  /\ \A i, j \in DOMAIN stream :
       i <= j => payload[stream[i]].started <= payload[stream[j]].started

NewestInHand ==
  pc = "enqueue" =>
    \A i \in DOMAIN stream : payload[stream[i]].started <= payload[cur.hist].started

\* RunningHasTask excuses the task in hand: once it is enqueued it needs no
\* excuse, and until then its history names the schedule a failure is booked on.
TaskInv ==
  /\ Trimmed
  /\ Ordered
  /\ NewestInHand
  /\ \A h \in History : history[h] # Null => payload[h] # Null
  /\ cur # Null /\ history[cur.hist] # Null => history[cur.hist].sched = cur.sched
  /\ pc = "save" => cur.hist \in Published
  /\ RunningHasTask

\* XADD adds its entry, and the entry it pushes out of a full stream leaves
\* later ones behind.
LEMMA EnqueuedPublishes ==
  ASSUME stream \in Seq(History), Trimmed, Ordered, UNCHANGED payload,
         \A g \in History : payload[g] # Null => payload[g].started \in Nat,
         NEW h \in History, payload[h] # Null,
         \A i \in DOMAIN stream : payload[stream[i]].started <= payload[h].started,
         stream' = Enqueued(h)
  PROVE  /\ Trimmed' /\ Ordered' /\ h \in Published'
         /\ \A g \in Published : payload[g] # Null => g \in Published'
<1> DEFINE longer == Append(stream, h)
           at(g) == payload[g].started
<1>1. /\ longer \in Seq(History) /\ longer # <<>>
      /\ Len(longer) = Len(stream) + 1 /\ longer[Len(stream) + 1] = h
      /\ \A i \in 1..Len(stream) : longer[i] = stream[i]
  BY AppendProperties
<1>2. Len(stream) \in Nat /\ DOMAIN stream = 1..Len(stream) /\ DOMAIN longer = 1..Len(longer)
  BY <1>1, LenProperties
<1>3. stream' = IF StreamMaxLen > 0 /\ Len(longer) > StreamMaxLen THEN Tail(longer) ELSE longer
  BY DEF Enqueued
<1> HIDE DEF longer
<1>4. ASSUME NEW i \in 1..Len(longer)
      PROVE  longer[i] \in History /\ payload[longer[i]] # Null /\ at(longer[i]) \in Nat
  <2>1. CASE i \in 1..Len(stream)
    <3>1. longer[i] = stream[i] /\ stream[i] \in History
      BY <1>1, <2>1, ElementOfSeq
    <3>2. QED
      BY <1>2, <2>1, <3>1 DEF Ordered
  <2>2. CASE i = Len(stream) + 1
    BY <1>1, <2>2
  <2>3. QED
    BY <1>1, <1>2, <1>4, <2>1, <2>2
<1>5. ASSUME NEW i \in 1..Len(longer), NEW j \in 1..Len(longer), i <= j
      PROVE  at(longer[i]) <= at(longer[j])
  <2>1. CASE j \in 1..Len(stream)
    <3>1. i \in 1..Len(stream)
      BY <1>2, <1>5, <2>1
    <3>2. QED
      BY <1>1, <1>2, <1>5, <2>1, <3>1 DEF Ordered
  <2>2. CASE j = Len(stream) + 1 /\ i \in 1..Len(stream)
    BY <1>1, <1>2, <2>2
  <2>3. CASE j = Len(stream) + 1 /\ i = j
    BY <1>4, <2>3
  <2>4. QED
    BY <1>1, <1>2, <1>5, <2>1, <2>2, <2>3
<1>6. CASE StreamMaxLen > 0 /\ Len(longer) > StreamMaxLen
  <2>1. /\ stream' = Tail(longer) /\ Tail(longer) \in Seq(History)
        /\ Len(Tail(longer)) = Len(longer) - 1
        /\ \A i \in 1..Len(Tail(longer)) : Tail(longer)[i] = longer[i + 1]
    BY <1>1, <1>3, <1>6, HeadTailProperties
  <2>2. Len(stream') = StreamMaxLen /\ Len(stream) = StreamMaxLen
    <3>1. Len(longer) = Len(stream) + 1 /\ Len(stream') = Len(longer) - 1
      BY <1>1, <2>1
    <3>2. Len(stream) <= StreamMaxLen /\ Len(stream) \in Nat
      BY <1>2, <1>6 DEF Trimmed
    <3>3. QED
      BY <1>6, <3>1, <3>2, LengthAssumption
  <2>3. /\ DOMAIN stream' = 1..Len(stream)
        /\ \A i \in 1..Len(stream) : stream'[i] = longer[i + 1] /\ i + 1 \in 1..Len(longer)
    BY <1>1, <1>2, <2>1, <2>2, LenProperties
  <2>4. Trimmed' /\ Ordered'
    <3>1. ASSUME NEW i \in DOMAIN stream', NEW j \in DOMAIN stream', i <= j
          PROVE  at(stream'[i]) <= at(stream'[j])
      <4>1. i + 1 \in 1..Len(longer) /\ j + 1 \in 1..Len(longer) /\ i + 1 <= j + 1
        BY <1>2, <2>3, <3>1
      <4>2. QED
        BY <1>5, <2>3, <4>1
    <3>2. \A i \in DOMAIN stream' : payload[stream'[i]] # Null
      BY <1>4, <2>3
    <3>3. QED
      BY <2>2, <3>1, <3>2, LengthAssumption DEF Trimmed, Ordered
  <2>5. h \in Published'
    <3>1. Len(stream) \in 1..Len(stream)
      BY <1>2, <1>6, <2>2, LengthAssumption
    <3>2. stream'[Len(stream)] = h
      BY <1>1, <2>3, <3>1
    <3>3. QED
      BY <2>3, <3>1, <3>2 DEF Published
  <2>6. /\ 1 \in 1..Len(stream) /\ at(stream[1]) \in Nat
        /\ \A i \in 1..Len(stream) : at(stream'[i]) \in Nat /\ at(stream[1]) <= at(stream'[i])
    <3>1. /\ 1 \in 1..Len(stream) /\ 1 \in 1..Len(longer) /\ longer[1] = stream[1]
          /\ \A i \in 1..Len(stream) : i + 1 \in 1..Len(longer) /\ 1 <= i + 1
      BY <1>1, <1>2, <1>6, <2>2, LengthAssumption
    <3>2. \A i \in 1..Len(stream) : at(longer[1]) <= at(longer[i + 1])
      BY <1>5, <3>1
    <3>3. QED
      BY <1>4, <2>3, <3>1, <3>2
  <2>7. ASSUME NEW g \in Published, payload[g] # Null PROVE g \in Published'
    <3>1. g \in History /\ at(g) \in Nat
      BY <2>7 DEF Published
    <3>2. ASSUME at(g) <= at(stream[1]) PROVE g \in Published'
      <4>1. \A i \in 1..Len(stream) : at(stream'[i]) >= at(g)
        BY <2>6, <3>1, <3>2
      <4>2. Behind(g)'
        BY <2>3, <4>1 DEF Behind
      <4>3. QED
        BY <1>6, <2>2, <3>1, <4>2 DEF Published
    <3>3. ASSUME NEW k \in 1..Len(stream), stream[k] = g PROVE g \in Published'
      <4>1. CASE k = 1
        BY <2>6, <3>1, <3>2, <3>3, <4>1
      <4>2. CASE k # 1
        <5>1. k - 1 \in 1..Len(stream) /\ (k - 1) + 1 = k
          BY <1>2, <4>2
        <5>2. stream'[k - 1] = g
          BY <1>1, <2>3, <3>3, <5>1
        <5>3. QED
          BY <2>3, <3>1, <5>1, <5>2 DEF Published
      <4>3. QED
        BY <4>1, <4>2
    <3>4. CASE Behind(g)
      <4>1. at(stream[1]) >= at(g)
        BY <1>2, <2>6, <3>4 DEF Behind
      <4>2. QED
        BY <2>6, <3>1, <3>2, <4>1
    <3>5. QED
      BY <1>2, <2>7, <3>3, <3>4 DEF Published
  <2>8. QED
    BY <2>4, <2>5, <2>7
<1>7. CASE ~(StreamMaxLen > 0 /\ Len(longer) > StreamMaxLen)
  <2>1. stream' = longer /\ DOMAIN stream' = 1..Len(longer)
    BY <1>2, <1>3, <1>7
  <2>2. Trimmed'
    BY <1>1, <1>2, <1>7, <2>1, LengthAssumption DEF Trimmed
  <2>3. Ordered'
    BY <1>4, <1>5, <2>1 DEF Ordered
  <2>4. h \in Published'
    <3>1. Len(stream) + 1 \in DOMAIN stream'
      BY <1>1, <1>2, <2>1
    <3>2. QED
      BY <1>1, <2>1, <3>1 DEF Published
  <2>5. ASSUME NEW g \in Published PROVE g \in Published'
    <3>1. ~(StreamMaxLen > 0 /\ Len(stream) = StreamMaxLen)
      <4>1. Len(longer) = Len(stream) + 1 /\ Len(stream) \in Nat
        BY <1>1, <1>2
      <4>2. Len(stream) = StreamMaxLen => Len(longer) > StreamMaxLen
        BY <4>1
      <4>3. QED
        BY <1>7, <4>2
    <3>2. PICK k \in DOMAIN stream : stream[k] = g
      BY <2>5, <3>1 DEF Published
    <3>3. stream'[k] = g /\ k \in DOMAIN stream' /\ g \in History
      BY <1>1, <1>2, <2>1, <2>5, <3>2 DEF Published
    <3>4. QED
      BY <3>3 DEF Published
  <2>6. QED
    BY <2>2, <2>3, <2>4, <2>5
<1>8. QED
  BY <1>6, <1>7

LEMMA InitTaskInv == Init => TaskInv
<1> SUFFICES ASSUME Init PROVE TaskInv
  OBVIOUS
<1>1. stream = <<>> /\ Len(stream) = 0 /\ DOMAIN stream = {}
  BY DEF Init, StreamInit
<1>2. Trimmed /\ Ordered /\ NewestInHand
  BY <1>1, LengthAssumption DEF Trimmed, Ordered, NewestInHand
<1>3. QED
  BY <1>2 DEF Init, StoreInit, TaskInv, RunningHasTask

\* A step that starts no history and adds nothing to the stream, and keeps
\* the publication in hand or ends it with its entry added or its schedule hit.
LEMMA QuietTaskInv ==
  ASSUME TypeInv, TaskInv,
         UNCHANGED <<stream, payload>>, slips \subseteq slips',
         \A h \in History : history'[h] # Null =>
            /\ history[h] # Null
            /\ history'[h].sched = history[h].sched
            /\ history'[h].status = "running" => history[h].status = "running",
         \/ UNCHANGED <<pc, cur>>
         \/ /\ cur' = Null /\ pc' \notin {"enqueue", "save"}
            /\ \/ cur = Null
               \/ cur.hist \in Published
               \/ cur.sched \in slips'
               \/ history'[cur.hist] # Null => history'[cur.hist].status # "running"
  PROVE  TaskInv'
<1> USE DEF TypeInv, TypeOK, StreamTypeOK, CurHeld
<1>1. Trimmed' /\ Ordered' /\ Published' = Published
  BY DEF TaskInv, Trimmed, Ordered, Published, Behind
<1>8. NewestInHand' /\ (\A h \in History : history'[h] # Null => payload'[h] # Null)
  BY DEF TaskInv, NewestInHand
<1>2. cur # Null => cur.hist \in History
  BY DEF Publication
<1>3. cur' # Null /\ history'[cur'.hist] # Null => history'[cur'.hist].sched = cur'.sched
  BY <1>2 DEF TaskInv
<1>4. pc' = "save" => cur'.hist \in Published'
  BY <1>1 DEF TaskInv
<1>5. ASSUME NEW h \in History, history'[h] # Null, history'[h].status = "running",
             history'[h].sched \notin slips', cur' # Null => cur'.hist # h
      PROVE  h \in Published
  <2>1. history[h] # Null /\ history[h].status = "running" /\ history[h].sched \notin slips
    BY <1>5
  <2>2. CASE cur # Null => cur.hist # h
    BY <2>1, <2>2 DEF TaskInv, RunningHasTask, Published, Behind
  <2>3. CASE cur # Null /\ cur.hist = h
    BY <1>5, <2>1, <2>3 DEF TaskInv
  <2>4. QED
    BY <2>2, <2>3
<1>6. RunningHasTask'
  BY <1>1, <1>5 DEF RunningHasTask, Published, Behind
<1>7. QED
  BY <1>1, <1>3, <1>4, <1>6, <1>8 DEF TaskInv

\* The poller's steps.
LEMMA PublishTaskInv ==
  ASSUME TypeInv, SlotInv, TaskInv, FindDue \/ Publish
  PROVE  TaskInv'
<1> USE DEF TypeInv, TypeOK, StreamTypeOK, StoreTypeOK, CurHeld, PC, storeVars, streamVars
<1>1. cur # Null => cur.hist \in History /\ cur.sched \in Schedule
  BY DEF Publication
<1>2. CASE FindDue
  BY <1>2, QuietTaskInv DEF FindDue
<1>9. \A h \in History : payload[h] # Null => payload[h].started \in Nat /\ payload[h].started <= now
  BY DEF SlotInv, StartedAgrees, Clock
<1>10. /\ Trimmed /\ Ordered /\ NewestInHand /\ RunningHasTask
       /\ \A h \in History : history[h] # Null => payload[h] # Null
       /\ \A i \in DOMAIN stream : stream[i] \in History /\ payload[stream[i]] # Null
  <2>1. \A i \in DOMAIN stream : stream[i] \in History
    BY ElementOfSeq, LenProperties
  <2>2. QED
    BY <2>1 DEF TaskInv, Ordered
<1>3. ASSUME NEW s \in Schedule, CreateHistory(s) \/ CreateHistoryLost(s) PROVE TaskInv'
  <2> DEFINE n   == NextHistory
             row == [job |-> due[s].job, sched |-> s, status |-> "running", started |-> now]
  <2>1. n \in History /\ payload[n] = Null /\ row # Null
    <3>1. row \in HistoryRow
      BY <1>3 DEF CreateHistory, CreateHistoryLost, HistoryRow, ScheduleRow, Status, Clock
    <3>2. QED
      BY <1>3, <3>1, NextHistoryIsFresh, RowAssumption
        DEF CreateHistory, CreateHistoryLost, InsertHistory
  <2>2. /\ history' = [history EXCEPT ![n] = row] /\ payload' = [payload EXCEPT ![n] = row]
        /\ UNCHANGED stream /\ slips \subseteq slips' /\ cur = Null
        /\ \/ pc' = "enqueue" /\ cur' # Null /\ cur'.hist = n /\ cur'.sched = s
           \/ pc' \in {"idle", "next"} /\ cur' = Null /\ s \in slips'
    <3>1. CreateHistory(s) => cur' # Null
      BY PublishTypeInv, LocalsAssumption DEF CreateHistory, Publish
    <3>2. QED
      BY <1>3, <3>1 DEF CreateHistory, CreateHistoryLost, InsertHistory, Skip, Continue
  <2>3. row.sched = s /\ row.started = now
    OBVIOUS
  <2> HIDE DEF n, row
  <2>4. \A i \in DOMAIN stream : stream[i] # n /\ payload'[stream[i]] = payload[stream[i]]
    BY <1>10, <2>1, <2>2
  <2>5. Trimmed' /\ Ordered' /\ (\A h \in History : history'[h] # Null => payload'[h] # Null)
    BY <1>10, <2>1, <2>2, <2>4 DEF Trimmed, Ordered
  <2>6. NewestInHand'
    BY <1>9, <1>10, <2>1, <2>2, <2>3, <2>4 DEF NewestInHand
  <2>7. RunningHasTask'
    <3> SUFFICES ASSUME NEW h \in History, history'[h] # Null, history'[h].status = "running",
                        history'[h].sched \notin slips', cur' # Null => cur'.hist # h
                 PROVE  \/ \E i \in DOMAIN stream : stream[i] = h
                        \/ /\ StreamMaxLen > 0 /\ Len(stream) = StreamMaxLen
                           /\ \A i \in DOMAIN stream :
                                payload'[stream[i]].started >= payload'[h].started
      BY <2>2 DEF RunningHasTask
    <3>1. h # n
      BY <2>1, <2>2, <2>3
    <3>2. QED
      BY <1>10, <2>1, <2>2, <2>4, <3>1 DEF RunningHasTask
  <2>8. QED
    BY <2>1, <2>2, <2>3, <2>5, <2>6, <2>7 DEF TaskInv
<1>4. ASSUME NEW s \in Schedule, CreateHistoryFails(s) PROVE TaskInv'
  BY <1>4, QuietTaskInv DEF CreateHistoryFails, Skip, Continue
<1>5. CASE Enqueue \/ EnqueueFails
  <2>1. /\ cur # Null /\ UNCHANGED <<history, payload>> /\ slips \subseteq slips'
        /\ pc = "enqueue" /\ pc' # "enqueue"
        /\ stream' = stream \/ stream' = Enqueued(cur.hist)
        /\ \/ cur' = cur /\ (pc' = "save" => stream' = Enqueued(cur.hist))
           \/ cur' = Null /\ pc' # "save" /\ stream' = Enqueued(cur.hist)
    BY <1>5 DEF Enqueue, EnqueueFails, Finish, Continue
  <2>8. payload[cur.hist] # Null
    BY <2>1 DEF SlotInv, CurAgrees
  <2>9. \A i \in DOMAIN stream : payload[stream[i]].started <= payload[cur.hist].started
    BY <1>10, <2>1 DEF NewestInHand
  <2>2. /\ Trimmed' /\ Ordered' /\ \A h \in Published : payload[h] # Null => h \in Published'
        /\ stream' = Enqueued(cur.hist) => cur.hist \in Published'
    <3>1. CASE stream' = Enqueued(cur.hist)
      BY <3>1, <1>1, <1>9, <1>10, <2>1, <2>8, <2>9, EnqueuedPublishes
    <3>2. CASE stream' = stream /\ stream' # Enqueued(cur.hist)
      BY <3>2, <1>10, <2>1 DEF Trimmed, Ordered, Published, Behind
    <3>3. QED
      BY <2>1, <3>1, <3>2
  <2>3. ASSUME NEW h \in History, history[h] # Null, history[h].status = "running",
               history[h].sched \notin slips', cur' # Null => cur'.hist # h
        PROVE  h \in Published'
    <3>1. CASE cur.hist = h
      BY <2>1, <2>2, <2>3, <3>1
    <3>2. CASE cur.hist # h
      <4>1. h \in Published
        BY <1>10, <2>1, <2>3, <3>2 DEF RunningHasTask, Published, Behind
      <4>2. QED
        BY <1>10, <2>2, <2>3, <4>1
    <3>3. QED
      BY <3>1, <3>2
  <2>4. RunningHasTask'
    BY <2>1, <2>3 DEF RunningHasTask, Published, Behind
  <2>5. cur' # Null /\ history'[cur'.hist] # Null => history'[cur'.hist].sched = cur'.sched
    BY <2>1 DEF TaskInv
  <2>6. pc' = "save" => cur'.hist \in Published'
    BY <2>1, <2>2
  <2>7. QED
    BY <1>10, <2>1, <2>2, <2>4, <2>5, <2>6 DEF TaskInv, NewestInHand
<1>6. CASE MarkFailed
  <2>1. /\ cur # Null /\ cur.sched \in slips
        /\ UNCHANGED <<streamVars, slips>> /\ cur' = Null /\ pc' \notin {"enqueue", "save"}
    BY <1>6 DEF MarkFailed, Finish, Continue, SlotInv, CurAgrees
  <2>2. \A r \in HistoryRow : LET f == [r EXCEPT !.status = "failed"]
                              IN  f.sched = r.sched /\ f.status = "failed"
    BY DEF HistoryRow
  <2>3. \/ history' = history
        \/ history[cur.hist] # Null /\ history' = [history EXCEPT ![cur.hist].status = "failed"]
    BY <1>6 DEF MarkFailed
  <2>4. \A h \in History : history'[h] # Null =>
            /\ history[h] # Null
            /\ history'[h].sched = history[h].sched
            /\ history'[h].status = "running" => history[h].status = "running"
    <3>1. CASE history' = history
      BY <3>1
    <3>2. ASSUME history[cur.hist] # Null,
                 history' = [history EXCEPT ![cur.hist].status = "failed"]
          PROVE  /\ history'[cur.hist].sched = history[cur.hist].sched
                 /\ history'[cur.hist].status = "failed"
                 /\ \A h \in History \ {cur.hist} : history'[h] = history[h]
      BY <1>1, <2>1, <2>2, <3>2
    <3>3. QED
      BY <2>3, <3>1, <3>2
  <2>5. QED
    BY <2>1, <2>4, QuietTaskInv
<1>7. CASE SaveSchedule \/ SaveScheduleFails
  <2>1. /\ UNCHANGED <<streamVars, history>> /\ slips \subseteq slips'
        /\ cur' = Null /\ pc' \notin {"enqueue", "save"} /\ pc = "save"
    BY <1>7 DEF SaveSchedule, SaveScheduleFails, Finish, Continue
  <2>2. cur.hist \in Published
    BY <2>1 DEF TaskInv
  <2>3. QED
    BY <2>1, <2>2, QuietTaskInv
<1>8. QED
  BY <1>2, <1>3, <1>4, <1>5, <1>6, <1>7 DEF Publish

\* A request of the API starts no history: it deletes some or leaves them alone.
LEMMA EditHistory ==
  ASSUME Edit, NEW h \in History
  PROVE  history'[h] = history[h] \/ history'[h] = Null
BY DEF Edit, StoreRequest, CreateJob, CreateSchedule, DeleteSchedule, DeleteJob, UpdateScheduleFind,
       UpdateScheduleSave, UpdateJobFind, UpdateJobSave, RequestFails, ReplaceSchedules,
       HistoryWithout, storeVars

LEMMA NextTaskInv == TypeInv /\ SlotInv /\ TaskInv /\ [Next]_vars => TaskInv'
<1> SUFFICES ASSUME TypeInv, SlotInv, TaskInv, [Next]_vars PROVE TaskInv'
  OBVIOUS
<1> USE DEF storeVars, streamVars, loopVars
<1>1. CASE Edit
  <2>1. UNCHANGED <<streamVars, pc, cur>> /\ slips \subseteq slips'
    BY <1>1 DEF Edit, StoreRequest, UnchangedByApi, UpdateScheduleFind, UpdateScheduleSave,
                UpdateJobFind, UpdateJobSave, RequestFails
  <2>2. QED
    BY <1>1, <2>1, EditHistory, QuietTaskInv
<1>2. CASE Crash
  BY <1>2, QuietTaskInv DEF Crash
<1>3. CASE Tick \/ UNCHANGED vars
  BY <1>3, QuietTaskInv DEF Tick, vars
<1>4. QED
  BY <1>1, <1>2, <1>3, PublishTaskInv DEF Next

\* A history that says running has its task in the stream, unless tasks that
\* started no earlier fill the stream, a failure hit its schedule or publishTask
\* still has it in hand: through every failure, crash and edit, for any length
\* of the stream.
THEOREM RunningHaveTasks == Spec => []RunningHasTask
<1>1. TaskInv => RunningHasTask
  BY DEF TaskInv
<1>2. QED
  BY <1>1, InitTypeInv, NextTypeInv, InitRefInv, NextRefInv, InitSlotInv, NextSlotInv,
     InitTaskInv, NextTaskInv, PTL DEF Spec

-----------------------------------------------------------------------------
(* Without failures.                                                       *)

(***************************************************************************)
(* Nothing fails, no PUT request is in flight, and the parser accepts every *)
(* expression and finds a next instant for it.                             *)
(***************************************************************************)
Undisturbed ==
  /\ MaxFaults = 0 /\ Client = {}
  /\ Cron \subseteq Parsable
  /\ \A c \in Parsable, t \in Clock : NextFire[c][t] # 0

\* The exceptions of OneTaskPerSlot are failures, lost
\* updates and unusable expressions, and nothing else: without them the
\* poller publishes no slot twice.
LEMMA SlipsNeedCauses ==
  ASSUME Undisturbed, TypeInv, slips = {}, Next
  PROVE  slips' = {}
<1> USE DEF Undisturbed, TypeInv, TypeOK, CurHeld
<1>1. ~Fault
  BY DEF Fault
<1>2. CASE FindDue \/ Tick
  BY <1>2 DEF FindDue, Tick
<1>3. ASSUME NEW s \in Schedule,
             CreateHistory(s) \/ CreateHistoryLost(s) \/ CreateHistoryFails(s)
      PROVE  slips' = {}
  BY <1>1, <1>3 DEF CreateHistory, CreateHistoryLost, CreateHistoryFails
<1>4. CASE Enqueue
  <2>1. cur.row.cron \in Parsable
    BY <1>4 DEF Enqueue, Publication, ScheduleRow
  <2>2. QED
    BY <1>4, <2>1 DEF Enqueue
<1>5. CASE MarkFailed \/ SaveScheduleFails
  BY <1>1, <1>5 DEF MarkFailed, SaveScheduleFails
<1>6. CASE SaveSchedule
  <2>1. cur \in Publication /\ cur.row.cron \in Parsable /\ cur.at \in Clock
    BY <1>6 DEF SaveSchedule, Publication
  <2>2. Advanced.next # 0
    BY <2>1, AdvancedNext
  <2>3. QED
    BY <1>6, <2>2 DEF SaveSchedule
<1>7. ~(EnqueueFails \/ Crash)
  BY <1>1 DEF EnqueueFails, Crash
<1>8. CASE Edit
  BY <1>8 DEF Edit, StoreRequest, UnchangedByApi
<1>9. QED
  BY <1>2, <1>3, <1>4, <1>5, <1>6, <1>7, <1>8 DEF Next, Publish

\* A fire instant lies between any two tasks of a schedule, without exception.
EachSlotOnce ==
  \A g, h \in History :
    /\ g # h /\ payload[g] # Null /\ payload[h] # Null
    /\ payload[g].sched = payload[h].sched
    /\ payload[g].started <= payload[h].started
    => NewSlot(payload[g].started, payload[h].started)

\* Alone and undisturbed, the poller publishes each slot of a schedule once,
\* whatever the API creates and deletes meanwhile.
THEOREM UndisturbedSlots ==
  ASSUME Undisturbed
  PROVE  Spec => []EachSlotOnce
<1> DEFINE NoSlips == slips = {}
<1>1. Init => NoSlips
  BY DEF Init
<1>2. TypeInv /\ NoSlips /\ [Next]_vars => NoSlips'
  BY SlipsNeedCauses DEF vars
<1>3. OneTaskPerSlot /\ NoSlips => EachSlotOnce
  BY DEF OneTaskPerSlot, EachSlotOnce
<1> HIDE DEF NoSlips
<1>4. QED
  BY <1>1, <1>2, <1>3, InitTypeInv, NextTypeInv, SlotsAreServedOnce, PTL DEF Spec

-----------------------------------------------------------------------------
(* The composed system.                                                    *)

P == INSTANCE Executor_proofs WITH cur <- InHand, mishaps <- faults, MaxMishaps <- MaxFaults

\* E and P are instances of the same definitions.
LEMMA SameTypes ==
  /\ E!HistoryRow = HistoryRow /\ P!HistoryRow = HistoryRow
  /\ E!ScheduleRow = ScheduleRow /\ P!ScheduleRow = ScheduleRow
  /\ P!Publication = E!Publication
BY DEF E!HistoryRow, P!HistoryRow, HistoryRow, E!ScheduleRow, P!ScheduleRow, ScheduleRow,
       E!Status, P!Status, Status, E!Publication, P!Publication

\* What Executor assumes of its constants holds of the composed system's.
LEMMA ExecutorAssumptions ==
  /\ P!NullAssumption /\ P!LengthAssumption /\ P!IdAssumption /\ P!RowAssumption
  /\ P!PoolAssumption /\ P!LocalsAssumption
BY SameTypes, NullAssumption, LengthAssumption, IdAssumption, RowAssumption, SystemAssumption,
   BoundAssumption

LEMMA SameService == E!Service => P!Service
<1> USE DEF E!storeVars, P!storeVars, E!streamVars, P!streamVars, E!taskVars, P!taskVars,
            E!readerVars, P!readerVars, E!NoMishap, P!NoMishap, E!Mishap, P!Mishap
<1>1. E!Read => P!Read
  BY DEF E!Read, P!Read, E!Unread, P!Unread
<1>2. E!StartTask \/ E!DropTask => P!StartTask \/ P!DropTask
  BY DEF E!StartTask, P!StartTask, E!DropTask, P!DropTask
<1>3. E!Ack \/ E!Del => P!Ack \/ P!Del
  BY DEF E!Ack, P!Ack, E!Del, P!Del, E!Works, P!Works, E!Fails, P!Fails,
         E!StreamWithout, P!StreamWithout, E!RemoveAt, P!RemoveAt
<1>4. E!ReadLost => P!ReadLost
  BY DEF E!ReadLost, P!ReadLost, E!Unread, P!Unread
<1> USE DEF E!HoldsSlot, P!HoldsSlot, E!Outcome, P!Outcome, E!Release, P!Release,
            E!RecordAccepted, P!RecordAccepted
<1>5. ASSUME NEW h \in History, E!Work(h) PROVE P!Work(h)
  <2>1. E!Acquire(h) => P!Acquire(h)
    BY DEF E!Acquire, P!Acquire
  <2>2. E!Return(h) \/ E!Expire(h) \/ E!Panic(h) => P!Return(h) \/ P!Expire(h) \/ P!Panic(h)
    BY DEF E!Return, P!Return, E!Expire, P!Expire, E!Panic, P!Panic
  <2>3. E!Finish(h) => P!Finish(h)
    BY DEF E!Finish, P!Finish, E!Record, P!Record, E!RecordFails, P!RecordFails
  <2>4. QED
    BY <1>5, <2>1, <2>2, <2>3 DEF E!Work, P!Work
<1>6. E!Crash \/ E!Sigterm \/ E!Stop => P!Crash \/ P!Sigterm \/ P!Stop
  BY DEF E!Crash, P!Crash, E!Sigterm, P!Sigterm, E!Stop, P!Stop, E!Restarted, P!Restarted,
         E!InMemory, P!InMemory, E!InFlight, P!InFlight
<1>7. QED
  BY <1>1, <1>2, <1>3, <1>4, <1>5, <1>6 DEF E!Service, P!Service, E!Consume, P!Consume

-----------------------------------------------------------------------------
(***************************************************************************)
(* The inductive invariant of the system: those of the two services, with  *)
(* the publication in hand for the environment of the executor, and        *)
(* HandInv, which follows a running history from hand to hand.  What       *)
(* publishTask is about to add was neither added nor read before.          *)
(***************************************************************************)

Executing == P!IInv /\ P!RefInv

HandInv ==
  /\ trimmed \subseteq History
  /\ pc = "enqueue" => cur.hist \notin read /\ ~Queued(cur.hist)
  /\ RunningIsInHand

SystemInv == TypeInv /\ RefInv /\ SlotInv /\ Executing /\ HandInv

\* Where a step of the scheduling service can go from the place it is at
LEMMA NextPlaces ==
  ASSUME TypeInv, Next
  PROVE  /\ stream' = stream \/ (pc = "enqueue" /\ pc' # "enqueue" /\ stream' = Enqueued(cur.hist))
         /\ slips \subseteq slips'
         /\ pc' = "fail" => cur' = cur /\ pc \in {"enqueue", "fail"}
         /\ pc = "enqueue" /\ cur.sched \notin slips' =>
              (UNCHANGED <<pc, cur, stream>>) \/ stream' = Enqueued(cur.hist)
         /\ pc' = "enqueue" =>
              \/ UNCHANGED <<pc, cur, stream>>
              \/ /\ stream' = stream
                 /\ cur'.hist \in History /\ payload[cur'.hist] = Null
<1> USE DEF TypeInv, TypeOK, CurHeld, PC, storeVars, streamVars, loopVars
<1>1. cur # Null => cur.sched \in Schedule /\ cur.hist \in History
  BY DEF Publication
<1>2. CASE FindDue \/ Tick
  BY <1>2 DEF FindDue, Tick
<1>3. ASSUME NEW s \in Schedule, CreateHistory(s)
      PROVE  /\ UNCHANGED <<stream, slips>> /\ pc = "next" /\ pc' = "enqueue"
             /\ cur'.hist \in History /\ payload[cur'.hist] = Null
  BY <1>3, NextHistoryIsFresh DEF CreateHistory, InsertHistory
<1>4. ASSUME NEW s \in Schedule, CreateHistoryLost(s) \/ CreateHistoryFails(s)
      PROVE  /\ UNCHANGED stream /\ slips \subseteq slips'
             /\ pc = "next" /\ pc' \in {"idle", "next"}
  BY <1>4 DEF CreateHistoryLost, InsertHistory, CreateHistoryFails, Skip, Continue
<1>5. CASE Enqueue
  BY <1>5 DEF Enqueue, Finish, Continue
<1>6. CASE EnqueueFails
  BY <1>6 DEF EnqueueFails
<1>7. CASE MarkFailed \/ SaveSchedule \/ SaveScheduleFails
  BY <1>7 DEF MarkFailed, SaveSchedule, SaveScheduleFails, Finish, Continue
<1>8. CASE Edit
  <2>1. UNCHANGED <<pc, cur, stream>> /\ slips \subseteq slips'
    BY <1>8 DEF Edit, StoreRequest, UnchangedByApi, UpdateScheduleFind, UpdateScheduleSave,
                UpdateJobFind, UpdateJobSave, RequestFails
  <2>2. QED
    BY <2>1
<1>9. CASE Crash
  BY <1>9 DEF Crash
<1>10. QED
  BY <1>2, <1>3, <1>4, <1>5, <1>6, <1>7, <1>8, <1>9 DEF Next, Publish

\* What a step of the scheduling service does to one history: it inserts it,
\* marks it failed, deletes it or leaves it alone.
LEMMA NextHistories ==
  ASSUME TypeInv, Next, NEW h \in History
  PROVE  \/ payload'[h] = payload[h] /\ history'[h] \in {history[h], Null}
         \/ /\ payload'[h] = payload[h]
            /\ pc = "fail" /\ cur.hist = h
            /\ history[h] # Null /\ history'[h] = [history[h] EXCEPT !.status = "failed"]
         \/ /\ payload[h] = Null /\ payload'[h] \in HistoryRow /\ history'[h] = payload'[h]
            /\ payload'[h].status = "running" /\ h = NextHistory
            /\ (pc' = "enqueue" /\ cur'.hist = h) \/ payload'[h].sched \in slips'
<1> USE DEF TypeInv, TypeOK, CurHeld, StoreTypeOK, StreamTypeOK, storeVars, streamVars
<1>1. CASE Edit
  BY <1>1, EditHistory DEF Edit, StoreRequest, UnchangedByApi, UpdateScheduleFind,
     UpdateScheduleSave, UpdateJobFind, UpdateJobSave, RequestFails
<1>2. ASSUME NEW s \in Schedule, CreateHistory(s) \/ CreateHistoryLost(s)
      PROVE  \/ payload'[h] = payload[h] /\ history'[h] = history[h]
             \/ /\ payload[h] = Null /\ payload'[h] \in HistoryRow /\ history'[h] = payload'[h]
                /\ payload'[h].status = "running" /\ h = NextHistory
                /\ (pc' = "enqueue" /\ cur'.hist = h) \/ payload'[h].sched \in slips'
  <2> DEFINE row == [job |-> due[s].job, sched |-> s, status |-> "running", started |-> now]
  <2>1. NextHistory \in History /\ payload[NextHistory] = Null
    BY <1>2, NextHistoryIsFresh DEF CreateHistory, CreateHistoryLost, InsertHistory
  <2>2. /\ history' = [history EXCEPT ![NextHistory] = row]
        /\ payload' = [payload EXCEPT ![NextHistory] = row]
        /\ (cur'.hist = NextHistory /\ pc' = "enqueue") \/ s \in slips'
    BY <1>2 DEF CreateHistory, CreateHistoryLost, InsertHistory
  <2>3. row \in HistoryRow /\ row.status = "running" /\ row.sched = s
    BY <1>2 DEF CreateHistory, CreateHistoryLost, InsertHistory, HistoryRow, ScheduleRow, Status, Clock
  <2> HIDE DEF row
  <2>4. QED
    BY <2>1, <2>2, <2>3
<1>3. CASE MarkFailed
  <2>1. UNCHANGED payload /\ pc = "fail" /\ cur.hist \in History
    BY <1>3 DEF MarkFailed, Publication
  <2>2. \/ history' = history
        \/ history[cur.hist] # Null /\ history' = [history EXCEPT ![cur.hist].status = "failed"]
    BY <1>3 DEF MarkFailed
  <2>3. QED
    BY <2>1, <2>2
<1>4. CASE UNCHANGED <<history, payload>>
  BY <1>4
<1>5. ASSUME NEW s \in Schedule, CreateHistoryFails(s) PROVE UNCHANGED <<history, payload>>
  BY <1>5 DEF CreateHistoryFails
<1>6. CASE FindDue \/ Enqueue \/ EnqueueFails \/ SaveSchedule \/ SaveScheduleFails \/ Crash \/ Tick
  BY <1>4, <1>6 DEF FindDue, Enqueue, EnqueueFails, SaveSchedule, SaveScheduleFails, Crash, Tick
<1>7. QED
  BY <1>1, <1>2, <1>3, <1>4, <1>5, <1>6 DEF Next, Publish

\* XADD puts its entry into the stream.
LEMMA EnqueuedIsQueued ==
  ASSUME stream \in Seq(History), NEW h \in History, stream' = Enqueued(h)
  PROVE  Queued(h)'
<1> DEFINE longer == Append(stream, h)
<1>1. /\ longer \in Seq(History) /\ longer # <<>>
      /\ Len(longer) = Len(stream) + 1 /\ longer[Len(stream) + 1] = h
  BY AppendProperties
<1>2. Len(stream) \in Nat
  BY LenProperties
<1>3. stream' = IF StreamMaxLen > 0 /\ Len(longer) > StreamMaxLen THEN Tail(longer) ELSE longer
  BY DEF Enqueued
<1> HIDE DEF longer
<1>4. CASE StreamMaxLen > 0 /\ Len(longer) > StreamMaxLen
  <2>1. /\ stream' = Tail(longer) /\ Tail(longer) \in Seq(History)
        /\ Len(Tail(longer)) = Len(longer) - 1
        /\ \A i \in 1..Len(Tail(longer)) : Tail(longer)[i] = longer[i + 1]
    BY <1>1, <1>3, <1>4, HeadTailProperties
  <2>2. Len(stream) >= 1 /\ Len(stream') = Len(stream)
    BY <1>1, <1>2, <1>4, <2>1, LengthAssumption
  <2>3. Len(stream) \in 1..Len(stream') /\ stream'[Len(stream)] = h
    BY <1>1, <1>2, <2>1, <2>2
  <2>4. DOMAIN stream' = 1..Len(stream')
    BY <2>1, LenProperties
  <2>5. QED
    BY <2>3, <2>4 DEF Queued
<1>5. CASE ~(StreamMaxLen > 0 /\ Len(longer) > StreamMaxLen)
  <2>1. stream' = longer /\ DOMAIN longer = 1..Len(longer)
    BY <1>1, <1>3, <1>5, LenProperties
  <2>2. Len(stream) + 1 \in DOMAIN stream'
    BY <1>1, <1>2, <2>1
  <2>3. QED
    BY <1>1, <2>1, <2>2 DEF Queued
<1>6. QED
  BY <1>4, <1>5

\* The publication in hand, as the executor's environment
LEMMA HandedIsPublication ==
  ASSUME NEW c \in Publication, NEW p \in {"enqueue", "fail", "save"}
  PROVE  LET r == [sched |-> c.sched, row |-> c.row, hist |-> c.hist, stage |-> p]
         IN  /\ r \in P!Publication /\ r # Null
             /\ r.hist = c.hist /\ r.stage = p /\ r.sched = c.sched /\ r.row = c.row
<1> DEFINE r == [sched |-> c.sched, row |-> c.row, hist |-> c.hist, stage |-> p]
<1>1. c.sched \in Schedule /\ c.row \in ScheduleRow /\ c.hist \in History
  BY DEF Publication
<1>2. r \in P!Publication
  BY <1>1, SameTypes DEF P!Publication
<1>3. P!Publication = E!Publication
  BY SameTypes
<1>4. r # Null
  BY <1>2, <1>3, SystemAssumption
<1>5. QED
  BY <1>2, <1>4

LEMMA InHandTyped ==
  ASSUME TypeInv
  PROVE  /\ InHand \in P!Publication \cup {Null}
         /\ InHand # Null <=> cur # Null
         /\ cur # Null => /\ InHand.hist = cur.hist /\ InHand.stage = pc
                         /\ InHand.sched = cur.sched /\ InHand.row = cur.row
<1>1. cur # Null => cur \in Publication /\ pc \in {"enqueue", "fail", "save"}
  BY DEF TypeInv, TypeOK, CurHeld
<1>2. QED
  BY <1>1, HandedIsPublication DEF InHand

LEMMA InHandTypedNext ==
  ASSUME TypeInv'
  PROVE  /\ InHand' \in P!Publication \cup {Null}
         /\ InHand' # Null <=> cur' # Null
         /\ cur' # Null => /\ InHand'.hist = cur'.hist /\ InHand'.stage = pc'
                          /\ InHand'.sched = cur'.sched /\ InHand'.row = cur'.row
<1>1. cur' # Null => cur' \in Publication /\ pc' \in {"enqueue", "fail", "save"}
  BY DEF TypeInv, TypeOK, CurHeld
<1>2. QED
  BY <1>1, HandedIsPublication DEF InHand

\* The invariant of the executor does not depend on when the scheduling
\* service publishes: any of its steps keeps it.
LEMMA SchedulerExecuting ==
  ASSUME SystemInv, Next, BySchedulingService, TypeInv', RefInv', SlotInv'
  PROVE  Executing'
<1> USE DEF SystemInv, Executing, TypeInv, TypeOK, StoreTypeOK, StreamTypeOK, CurHeld
<1>1. /\ UNCHANGED <<phase, read, pending, step, held, run, late, slots, starts>>
      /\ hit' = IF pc = "enqueue" /\ pc' = "fail" THEN hit \cup {cur.hist} ELSE hit
  BY DEF BySchedulingService, processVars
<1>2. /\ stream' = stream \/ (pc = "enqueue" /\ stream' = Enqueued(cur.hist))
      /\ pc' = "fail" => cur' = cur /\ pc \in {"enqueue", "fail"}
  BY NextPlaces
<1>3. ASSUME NEW h \in History
      PROVE  \/ payload'[h] = payload[h] /\ history'[h] \in {history[h], Null}
             \/ /\ payload'[h] = payload[h]
                /\ pc = "fail" /\ cur.hist = h
                /\ history[h] # Null /\ history'[h] = [history[h] EXCEPT !.status = "failed"]
             \/ /\ payload[h] = Null /\ payload'[h] \in HistoryRow /\ history'[h] = payload'[h]
                /\ payload'[h].status = "running"
  BY <1>3, NextHistories
<1>4. cur # Null => /\ cur.hist \in History /\ cur.sched \in Schedule
                    /\ payload[cur.hist] # Null
  BY DEF SlotInv, CurAgrees, Publication
<1>5. /\ InHand' \in P!Publication \cup {Null}
      /\ InHand' # Null <=> cur' # Null
      /\ cur' # Null => /\ InHand'.hist = cur'.hist /\ InHand'.stage = pc'
                       /\ InHand'.sched = cur'.sched /\ InHand'.row = cur'.row
  BY InHandTypedNext
<1>6. P!TypeOK'
  <2>1. P!StoreTypeOK' /\ P!StreamTypeOK'
    BY SameTypes DEF P!StoreTypeOK, P!StreamTypeOK
  <2>2. hit' \subseteq History
    BY <1>1, <1>2, <1>4 DEF P!IInv, P!TypeInv, P!TypeOK
  <2>3. faults' \in Nat
    OBVIOUS
  <2>4. QED
    BY <1>1, <1>5, <2>1, <2>2, <2>3 DEF P!TypeOK, P!IInv, P!TypeInv, P!RunState, P!Outcome
<1>7. P!Issued \subseteq P!Issued'
  BY <1>3, RowAssumption DEF P!Issued
<1>8. P!ReaderInv'
  <2>1. stream \in Seq(P!Issued) /\ stream' \in Seq(P!Issued)
    <3>1. pc = "enqueue" => cur.hist \in P!Issued
      BY <1>4 DEF P!Issued
    <3>2. stream \in Seq(P!Issued)
      BY DEF P!IInv, P!TypeInv, P!ReaderInv
    <3>3. QED
      BY <1>2, <3>1, <3>2, EnqueuedTyped
  <2>2. stream' \in Seq(P!Issued')
    BY <1>7, <2>1, SeqMonotonic
  <2>3. InHand' # Null => InHand'.hist \in P!Issued'
    BY <1>5 DEF SlotInv, CurAgrees, Publication, P!Issued
  <2>4. QED
    BY <1>1, <1>7, <2>2, <2>3 DEF P!IInv, P!TypeInv, P!ReaderInv, P!AckedIsHandled
<1>9. P!SlotInv' /\ P!StartInv'
  <2>1. \A h \in History : P!HoldsSlot(h)' <=> P!HoldsSlot(h)
    BY <1>1 DEF P!HoldsSlot
  <2>2. P!Holders' = P!Holders
    BY <2>1 DEF P!Holders
  <2>3. QED
    BY <1>1, <2>1, <2>2 DEF P!IInv, P!TypeInv, P!SlotInv, P!SlotsAccounted, P!StartInv, P!AtMostOnce
<1>10. P!FinalInv'
  <2>1. InHand' # Null /\ InHand'.stage = "fail" => InHand'.hist \in hit'
    <3>1. ASSUME pc' = "fail" PROVE cur'.hist \in hit'
      <4>1. CASE pc = "enqueue"
        BY <1>1, <1>2, <3>1, <4>1
      <4>2. CASE pc = "fail"
        BY <1>1, <1>2, <3>1, <4>2, InHandTyped DEF P!IInv, P!FinalInv
      <4>3. QED
        BY <1>2, <3>1, <4>1, <4>2
    <3>2. QED
      BY <1>5, <3>1
  <2>2. ASSUME NEW h \in History \ hit', history'[h] # Null
        PROVE  \/ history[h] # Null /\ history'[h] = history[h]
               \/ history'[h].status = "running" /\ run[h] # "over"
    <3>1. CASE pc = "fail" /\ cur.hist = h
      BY <1>1, <2>2, <3>1, InHandTyped DEF P!IInv, P!FinalInv
    <3>2. CASE payload[h] = Null /\ history'[h] = payload'[h] /\ payload'[h].status = "running"
      BY <3>2 DEF P!IInv, P!TypeInv, P!ReaderInv, P!Issued
    <3>3. QED
      BY <1>3, <2>2, <3>1, <3>2
  <2>3. hit \subseteq hit'
    BY <1>1
  <2>4. QED
    BY <1>1, <2>1, <2>2, <2>3
      DEF P!IInv, P!FinalInv, P!EndedIsRecorded, P!Outcome
<1>11. P!CopyAgrees'
  <2>1. ASSUME NEW h \in History, history'[h] # Null
        PROVE  /\ payload'[h] # Null /\ payload'[h].job = history'[h].job
               /\ payload'[h].sched = history'[h].sched
    <3>1. CASE payload[h] = Null /\ payload'[h] \in HistoryRow /\ history'[h] = payload'[h]
      BY <3>1, RowAssumption
    <3>2. ASSUME payload'[h] = payload[h], history[h] # Null,
                 history'[h] = history[h] \/ history'[h] = [history[h] EXCEPT !.status = "failed"]
          PROVE  /\ payload'[h] # Null /\ payload'[h].job = history'[h].job
                 /\ payload'[h].sched = history'[h].sched
      <4>1. history[h] \in HistoryRow
        BY <3>2
      <4>2. history'[h].job = history[h].job /\ history'[h].sched = history[h].sched
        BY <3>2, <4>1 DEF HistoryRow
      <4>3. QED
        BY <3>2, <4>2 DEF P!RefInv, P!CopyAgrees
    <3>3. QED
      BY <1>3, <2>1, <3>1, <3>2
  <2>2. QED
    BY <2>1 DEF P!CopyAgrees
<1>12. P!SnapshotAgrees'
  <2>1. SpentAgrees' /\ Owned'
    BY DEF RefInv
  <2>2. cur' # Null => cur'.sched \in Schedule
    BY DEF Publication
  <2>3. QED
    BY <1>5, <2>1, <2>2 DEF SpentAgrees, Owned, OwnedBy, P!SnapshotAgrees
<1>13. P!Referential'
  BY DEF RefInv, Referential, P!Referential
<1>14. QED
  BY <1>6, <1>8, <1>9, <1>10, <1>11, <1>12, <1>13 DEF P!IInv, P!TypeInv, P!RefInv

\* Steps of the scheduling service hand a running history on: from publishTask
\* to the stream.
LEMMA SchedulerHand ==
  ASSUME SystemInv, Next, BySchedulingService
  PROVE  HandInv'
<1> USE DEF SystemInv, TypeInv, TypeOK, StoreTypeOK, StreamTypeOK, CurHeld, HandInv
<1>1. /\ UNCHANGED <<phase, read, pending, step, held, run, late, slots, starts>>
      /\ hit \subseteq hit' /\ slips \subseteq slips'
      /\ trimmed' = trimmed \cup {h \in History \ read : Queued(h) /\ ~Queued(h)'}
  BY NextPlaces DEF BySchedulingService, processVars
<1>2. cur # Null => /\ cur.hist \in History
                    /\ payload[cur.hist] # Null /\ payload[cur.hist].sched = cur.sched
  BY DEF SlotInv, CurAgrees, Publication
<1>3. ASSUME NEW h \in History, Queued(h) \/ h \in read PROVE payload[h] # Null
  <2>1. stream \in Seq(P!Issued) /\ read \subseteq P!Issued
    BY DEF Executing, P!IInv, P!TypeInv, P!ReaderInv
  <2>2. \A i \in DOMAIN stream : stream[i] \in P!Issued
    BY <2>1, ElementOfSeq, LenProperties
  <2>3. QED
    BY <1>3, <2>1, <2>2 DEF Queued, P!Issued
<1>4. pc' = "enqueue" => cur'.hist \notin read' /\ ~Queued(cur.hist)'
  <2>1. CASE UNCHANGED <<pc, cur, stream>>
    BY <1>1, <2>1 DEF Queued
  <2>2. CASE stream' = stream /\ cur'.hist \in History /\ payload[cur'.hist] = Null
    BY <1>1, <1>3, <2>2 DEF Queued
  <2>3. QED
    BY <2>1, <2>2, NextPlaces
<1>5. ASSUME NEW h \in History, Running(h)', ~Disturbed(h)'
      PROVE  \/ pc' = "enqueue" /\ cur'.hist = h
             \/ Queued(h)' /\ h \notin read'
             \/ step' = "lookup" /\ held' = h
             \/ E!InFlight(h)'
  <2>1. CASE payload'[h] = payload[h] /\ history'[h] \in {history[h], Null}
    <3>1. Running(h) /\ ~Disturbed(h)
      BY <1>1, <1>5, <2>1 DEF Running, Disturbed
    <3>2. CASE pc = "enqueue" /\ cur.hist = h
      <4>1. cur.sched \notin slips'
        BY <1>2, <1>5, <2>1, <3>2 DEF Disturbed
      <4>2. CASE UNCHANGED <<pc, cur, stream>>
        BY <3>2, <4>2
      <4>3. CASE stream' = Enqueued(cur.hist)
        BY <1>1, <3>2, <4>3, EnqueuedIsQueued
      <4>4. QED
        BY <3>2, <4>1, <4>2, <4>3, NextPlaces
    <3>3. CASE Queued(h) /\ h \notin read
      BY <1>1, <1>5, <3>3 DEF Disturbed
    <3>4. CASE step = "lookup" /\ held = h
      BY <1>1, <3>4
    <3>5. CASE E!InFlight(h)
      BY <1>1, <3>5 DEF E!InFlight, E!HoldsSlot
    <3>6. QED
      BY <3>1, <3>2, <3>3, <3>4, <3>5 DEF RunningIsInHand
  <2>2. CASE history[h] # Null /\ history'[h] = [history[h] EXCEPT !.status = "failed"]
    <3>1. history[h] \in HistoryRow
      BY <2>2
    <3>2. history'[h].status = "failed"
      BY <2>2, <3>1 DEF HistoryRow
    <3>3. QED
      BY <1>5, <3>2 DEF Running
  <2>3. CASE pc' = "enqueue" /\ cur'.hist = h
    BY <2>3
  <2>4. payload'[h].sched \notin slips'
    BY <1>5 DEF Disturbed
  <2>5. QED
    BY <2>1, <2>2, <2>3, <2>4, NextHistories
<1>6. RunningIsInHand'
  BY <1>5 DEF RunningIsInHand
<1>7. trimmed' \subseteq History
  BY <1>1
<1>8. QED
  BY <1>4, <1>6, <1>7

LEMMA SchedulerStep ==
  ASSUME SystemInv, Next, BySchedulingService
  PROVE  SystemInv'
<1>1. TypeInv' /\ RefInv' /\ SlotInv'
  BY NextTypeInv, NextRefInv, NextSlotInv DEF SystemInv
<1>2. QED
  BY <1>1, SchedulerExecuting, SchedulerHand DEF SystemInv

-----------------------------------------------------------------------------
\* XDEL takes one entry out of the stream, and only entries with its id go.
LEMMA DeletedKeeps ==
  ASSUME stream \in Seq(History), NEW h, NEW g, g # h
  PROVE  /\ Queued(g) => \E i \in DOMAIN P!StreamWithout(h) : P!StreamWithout(h)[i] = g
         /\ (\E i \in DOMAIN P!StreamWithout(h) : P!StreamWithout(h)[i] = g) => Queued(g)
<1>1. Len(stream) \in Nat /\ DOMAIN stream = 1..Len(stream)
  BY LenProperties
<1>2. CASE ~\E i \in DOMAIN stream : stream[i] = h
  BY <1>2 DEF P!StreamWithout, Queued
<1>3. ASSUME NEW k \in DOMAIN stream, stream[k] = h,
             P!StreamWithout(h) = P!RemoveAt(stream, k)
      PROVE  /\ Queued(g) => \E i \in DOMAIN P!StreamWithout(h) : P!StreamWithout(h)[i] = g
             /\ (\E i \in DOMAIN P!StreamWithout(h) : P!StreamWithout(h)[i] = g) => Queued(g)
  <2> DEFINE left  == SubSeq(stream, 1, k - 1)
             right == SubSeq(stream, k + 1, Len(stream))
             rest  == left \o right
  <2>1. k \in Nat /\ 1 <= k /\ k <= Len(stream)
    BY <1>1
  <2>2. /\ left \in Seq(History) /\ Len(left) = k - 1
        /\ \A i \in 1..(k - 1) : left[i] = stream[i]
    BY <1>1, <2>1, ElementOfSeq, SubSeqProperties
  <2>3. /\ right \in Seq(History) /\ Len(right) = Len(stream) - k
        /\ \A i \in 1..(Len(stream) - k) : right[i] = stream[k + i]
    BY <1>1, <2>1, ElementOfSeq, SubSeqProperties
  <2> HIDE DEF left, right
  <2>4. /\ rest \in Seq(History) /\ Len(rest) = Len(stream) - 1
        /\ \A i \in 1..Len(rest) : rest[i] = IF i <= k - 1 THEN left[i] ELSE right[i - (k - 1)]
    <3>1. /\ rest \in Seq(History) /\ Len(rest) = Len(left) + Len(right)
          /\ \A i \in 1..(Len(left) + Len(right)) : rest[i] = 
               IF i <= Len(left) THEN left[i] ELSE right[i - Len(left)]
      BY <2>2, <2>3, ConcatProperties
    <3>2. Len(rest) = Len(stream) - 1
      BY <1>1, <2>1, <2>2, <2>3, <3>1
    <3>3. QED
      BY <2>2, <3>1, <3>2
  <2>5. DOMAIN rest = 1..(Len(stream) - 1)
    BY <2>4, LenProperties
  <2> HIDE DEF rest
  <2>6. ASSUME NEW i \in 1..(Len(stream) - 1)
        PROVE  rest[i] = IF i < k THEN stream[i] ELSE stream[i + 1]
    <3>1. CASE i < k
      <4>1. i <= k - 1 /\ i \in 1..(k - 1) /\ i \in 1..Len(rest)
        BY <1>1, <2>1, <2>4, <3>1
      <4>2. QED
        BY <2>2, <2>4, <3>1, <4>1
    <3>2. CASE ~(i < k)
      <4>1. /\ i - (k - 1) \in 1..(Len(stream) - k) /\ k + (i - (k - 1)) = i + 1
            /\ ~(i <= k - 1) /\ i \in 1..Len(rest)
        BY <1>1, <2>1, <2>4, <3>2
      <4>2. right[i - (k - 1)] = stream[i + 1]
        BY <2>3, <4>1
      <4>3. QED
        BY <2>4, <3>2, <4>1, <4>2
    <3>3. QED
      BY <3>1, <3>2
  <2>7. ASSUME NEW m \in DOMAIN stream, stream[m] = g
        PROVE  \E i \in DOMAIN rest : rest[i] = g
    <3>1. CASE m < k
      <4>1. m \in 1..(Len(stream) - 1) /\ rest[m] = g
        BY <1>1, <2>1, <2>6, <2>7, <3>1
      <4>2. QED
        BY <2>5, <4>1
    <3>2. CASE m > k
      <4>1. m - 1 \in 1..(Len(stream) - 1) /\ ~(m - 1 < k) /\ (m - 1) + 1 = m
        BY <1>1, <2>1, <3>2
      <4>2. rest[m - 1] = g
        BY <2>6, <2>7, <4>1
      <4>3. QED
        BY <2>5, <4>1, <4>2
    <3>3. m # k
      BY <1>3, <2>7
    <3>4. QED
      BY <1>1, <2>1, <3>1, <3>2, <3>3
  <2>8. ASSUME NEW i \in DOMAIN rest, rest[i] = g PROVE Queued(g)
    <3>1. i \in DOMAIN stream /\ i + 1 \in DOMAIN stream
      BY <1>1, <2>5
    <3>2. QED
      BY <2>5, <2>6, <2>8, <3>1 DEF Queued
  <2>9. P!StreamWithout(h) = rest
    BY <1>3 DEF P!RemoveAt, rest, left, right
  <2>10. QED
    BY <2>7, <2>8, <2>9 DEF Queued
<1>4. CASE \E i \in DOMAIN stream : stream[i] = h
  <2>1. PICK k \in DOMAIN stream :
          stream[k] = h /\ P!StreamWithout(h) = P!RemoveAt(stream, k)
    BY <1>4 DEF P!StreamWithout
  <2>2. QED
    BY <1>3, <2>1
<1>5. QED
  BY <1>2, <1>4

\* The execution service writes outcomes into histories and deletes entries;
\* schedules, the poller and the API it leaves alone.
LEMMA ServiceFrame ==
  ASSUME ByExecutionService, P!Service
  PROVE  /\ UNCHANGED <<jobs, sched, spent, payload, pc, due, cur, now, api, slips, trimmed>>
         /\ InHand' = InHand
<1> USE DEF P!storeVars, P!streamVars
<1>1. UNCHANGED <<pc, due, cur, now, api, slips, trimmed>>
  BY DEF ByExecutionService, loopVars
<1>2. UNCHANGED <<jobs, sched, spent, payload>>
  <2>1. CASE P!Consume \/ P!ReadLost
    BY <2>1 DEF P!Consume, P!Read, P!ReadLost, P!StartTask, P!DropTask, P!Ack, P!Del
  <2>2. ASSUME NEW h \in History, P!Work(h) PROVE UNCHANGED <<jobs, sched, spent, payload>>
    BY <2>2 DEF P!Work, P!Acquire, P!Return, P!Expire, P!Finish, P!Record, P!RecordFails, P!Panic,
                P!Release
  <2>3. CASE P!Crash \/ P!Sigterm \/ P!Stop
    BY <2>3 DEF P!Crash, P!Sigterm, P!Stop, P!Restarted
  <2>4. QED
    BY <2>1, <2>2, <2>3 DEF P!Service
<1>3. QED
  BY <1>1, <1>2 DEF InHand

\* A goroutine waits for the semaphore or holds it, in both instances.
LEMMA InFlightIs ==
  ASSUME NEW h
  PROVE  /\ E!InFlight(h) <=> run[h] \in {"waiting", "executing", "completed", "failed"}
         /\ P!InFlight(h) <=> run[h] \in {"waiting", "executing", "completed", "failed"}
         /\ E!InFlight(h)' <=> run'[h] \in {"waiting", "executing", "completed", "failed"}
BY DEF E!InFlight, P!InFlight, E!HoldsSlot, P!HoldsSlot, E!Outcome, P!Outcome

\* What a step of the execution service changes of the histories, and who is disturbed
LEMMA ServiceHistories ==
  ASSUME SystemInv, ByExecutionService, P!Service
  PROVE  /\ hit \subseteq hit' /\ late \subseteq late'
         /\ \A h \in History : Running(h)' => history'[h] = history[h]
<1> USE DEF P!storeVars, P!taskVars, P!NoMishap, P!Mishap
<1>1. CASE P!Consume \/ P!ReadLost
  BY <1>1 DEF P!Consume, P!Read, P!ReadLost, P!StartTask, P!DropTask, P!Ack, P!Del, P!Works, P!Fails
<1>2. ASSUME NEW g \in History, P!Record(g)
      PROVE  \A h \in History : Running(h)' => history'[h] = history[h]
  <2>1. history \in [History -> HistoryRow \cup {Null}] /\ payload[g] \in HistoryRow
    BY <1>2, RowAssumption
      DEF SystemInv, TypeInv, TypeOK, StoreTypeOK, StreamTypeOK, Executing, P!IInv, P!TypeInv,
          P!ReaderInv, P!Issued, P!Record, P!Outcome
  <2>2. history' = [history EXCEPT ![g] = [payload[g] EXCEPT !.status = run[g]]]
    BY <1>2 DEF P!Record
  <2>3. [payload[g] EXCEPT !.status = run[g]].status = run[g] /\ run[g] # "running"
    BY <1>2, <2>1 DEF P!Record, P!Outcome, HistoryRow
  <2>4. QED
    BY <2>1, <2>2, <2>3 DEF Running
<1>3. ASSUME NEW g \in History, P!Work(g)
      PROVE  /\ hit \subseteq hit' /\ late \subseteq late'
             /\ \A h \in History : Running(h)' => history'[h] = history[h]
  <2>1. CASE P!Record(g)
    BY <1>2, <2>1 DEF P!Record, P!Release
  <2>2. CASE ~P!Record(g)
    BY <1>3, <2>2 DEF P!Work, P!Acquire, P!Return, P!Expire, P!Finish, P!RecordFails, P!Panic,
                      P!Release
  <2>3. QED
    BY <2>1, <2>2
<1>4. CASE P!Crash \/ P!Sigterm \/ P!Stop
  BY <1>4 DEF P!Crash, P!Sigterm, P!Stop, P!Restarted
<1>5. QED
  BY <1>1, <1>3, <1>4 DEF P!Service

\* What a step of the execution service does to the stream: it deletes the
\* entry the consumer holds; and to what was read: it adds an unread entry.
LEMMA ServiceStream ==
  ASSUME SystemInv, ByExecutionService, P!Service
  PROVE  /\ stream' = stream \/ (held \in read /\ run[held] # "none"
                                 /\ stream' = P!StreamWithout(held))
         /\ read' = read \/ \E g \in History : Queued(g) /\ read' = read \cup {g}
<1> USE DEF P!streamVars, P!readerVars
<1>1. CASE P!Read \/ P!ReadLost
  BY <1>1 DEF P!Read, P!ReadLost, P!Unread, Queued
<1>2. CASE P!StartTask \/ P!DropTask \/ P!Ack
  BY <1>2 DEF P!StartTask, P!DropTask, P!Ack
<1>3. CASE P!Del
  BY <1>3 DEF P!Del, SystemInv, Executing, P!IInv, P!TypeInv, P!ReaderInv
<1>4. ASSUME NEW g \in History, P!Work(g) PROVE UNCHANGED <<stream, read>>
  BY <1>4 DEF P!Work, P!Acquire, P!Return, P!Expire, P!Finish, P!Record, P!RecordFails, P!Panic,
              P!Release
<1>5. CASE P!Crash \/ P!Sigterm \/ P!Stop
  BY <1>5 DEF P!Crash, P!Sigterm, P!Stop, P!Restarted
<1>6. QED
  BY <1>1, <1>2, <1>3, <1>4, <1>5 DEF P!Service, P!Consume

\* The execution service hands a running history on: from the stream to the
\* consumer, to a goroutine, and to its outcome; whom it drops on the way is
\* counted as hit.
LEMMA ServiceHand ==
  ASSUME SystemInv, ByExecutionService, P!Service
  PROVE  HandInv'
<1> USE DEF SystemInv
<1>1. /\ UNCHANGED <<jobs, sched, payload, pc, cur, slips, trimmed>>
      /\ hit \subseteq hit' /\ late \subseteq late'
  BY ServiceFrame, ServiceHistories
<1>2. /\ run \in [History -> P!RunState] /\ held \in History \cup {Null}
      /\ stream \in Seq(History) /\ history \in [History -> HistoryRow \cup {Null}]
  BY DEF Executing, P!IInv, P!TypeInv, P!TypeOK, TypeInv, TypeOK, StoreTypeOK, StreamTypeOK
<1>3. ASSUME NEW h \in History, h # held \/ stream' = stream
      PROVE  Queued(h)' <=> Queued(h)
  <2>1. CASE stream' = stream
    BY <2>1 DEF Queued
  <2>2. CASE h # held /\ stream' = P!StreamWithout(held)
    <3>1. Queued(h) <=> \E i \in DOMAIN P!StreamWithout(held) : P!StreamWithout(held)[i] = h
      BY <1>2, <2>2, DeletedKeeps
    <3>2. QED
      BY <2>2, <3>1 DEF Queued
  <2>3. QED
    BY <1>3, <2>1, <2>2, ServiceStream
<1>4. pc' = "enqueue" => cur'.hist \notin read' /\ ~Queued(cur.hist)'
  <2>1. CASE pc = "enqueue"
    <3>1. cur.hist \in History /\ cur.hist \notin read /\ ~Queued(cur.hist)
      BY <2>1 DEF HandInv, TypeInv, TypeOK, CurHeld, Publication
    <3>2. ASSUME NEW h \in History, h = cur.hist PROVE h \notin read' /\ ~Queued(h)'
      BY <1>3, <3>1, <3>2, ServiceStream
    <3>3. QED
      BY <1>1, <3>1, <3>2 DEF Queued
  <2>2. QED
    BY <1>1, <2>1
<1>5. ASSUME NEW h \in History, Running(h)', ~Disturbed(h)'
      PROVE  \/ pc' = "enqueue" /\ cur'.hist = h
             \/ Queued(h)' /\ h \notin read'
             \/ step' = "lookup" /\ held' = h
             \/ E!InFlight(h)'
  <2>1. Running(h) /\ ~Disturbed(h) /\ h \notin hit' \cup late'
    BY <1>1, <1>5, ServiceHistories DEF Running, Disturbed
  <2>2. CASE pc = "enqueue" /\ cur.hist = h
    BY <1>1, <2>2
  <2>3. CASE Queued(h) /\ h \notin read
    <3>1. Queued(h)'
      BY <1>3, <2>3, ServiceStream
    <3>2. h \in read' => step' = "lookup" /\ held' = h
      <4>1. CASE P!Read
        BY <2>3, <4>1 DEF P!Read
      <4>2. CASE P!ReadLost
        BY <2>1, <2>3, <4>2 DEF P!ReadLost, P!Mishap
      <4>3. CASE read' = read
        BY <2>3, <4>3
      <4>4. CASE P!StartTask \/ P!DropTask \/ P!Ack \/ P!Del
        BY <4>3, <4>4 DEF P!StartTask, P!DropTask, P!Ack, P!Del
      <4>5. ASSUME NEW g \in History, P!Work(g) PROVE read' = read
        BY <4>5 DEF P!Work, P!Acquire, P!Return, P!Expire, P!Finish, P!Record, P!RecordFails,
                    P!Panic, P!Release, P!readerVars
      <4>6. CASE P!Crash \/ P!Sigterm \/ P!Stop
        BY <4>3, <4>6 DEF P!Crash, P!Sigterm, P!Stop, P!Restarted, P!readerVars
      <4>7. QED
        BY <4>1, <4>2, <4>3, <4>4, <4>5, <4>6 DEF P!Service, P!Consume
    <3>3. QED
      BY <3>1, <3>2
  <2>4. CASE step = "lookup" /\ held = h
    <3> USE <2>1, <2>4 DEF P!NoMishap, P!Mishap
    <3>1. CASE P!StartTask
      BY <1>2, <3>1, InFlightIs DEF P!StartTask
    <3>2. CASE P!DropTask
      <4>1. history[h] # Null /\ payload[h].job \in jobs
        BY DEF Executing, P!RefInv, P!Referential, P!CopyAgrees, Running
      <4>2. QED
        BY <3>2, <4>1 DEF P!DropTask
    <3>3. ASSUME NEW g \in History, P!Work(g) PROVE UNCHANGED <<step, held>>
      BY <3>3 DEF P!Work, P!Acquire, P!Return, P!Expire, P!Finish, P!Record, P!RecordFails,
                  P!Panic, P!Release, P!readerVars
    <3>4. CASE P!Sigterm
      BY <3>4 DEF P!Sigterm, P!readerVars
    <3>5. CASE P!Crash
      BY <3>5, IdAssumption DEF P!Crash, P!InMemory
    <3>6. ~(P!Read \/ P!ReadLost \/ P!Ack \/ P!Del \/ P!Stop)
      BY DEF P!Read, P!ReadLost, P!Ack, P!Del, P!Stop
    <3>7. QED
      BY <3>1, <3>2, <3>3, <3>4, <3>5, <3>6 DEF P!Service, P!Consume
  <2>5. CASE E!InFlight(h)
    <3> USE <1>2, <2>1, <2>5, InFlightIs DEF P!NoMishap, P!Mishap
    <3>1. CASE P!Read \/ P!ReadLost \/ P!Ack \/ P!Del \/ P!Sigterm
      BY <3>1 DEF P!Read, P!ReadLost, P!Ack, P!Del, P!Sigterm, P!taskVars
    <3>2. CASE P!StartTask \/ P!DropTask
      <4>1. run[held] = "none" /\ held # h
        BY <3>2 DEF P!StartTask, P!DropTask, Executing, P!IInv, P!TypeInv, P!ReaderInv
      <4>2. run'[h] = run[h]
        BY <3>2, <4>1 DEF P!StartTask, P!DropTask
      <4>3. QED
        BY <4>2
    <3>3. ASSUME NEW g \in History, P!Acquire(g) \/ P!Return(g) \/ P!Expire(g)
          PROVE  E!InFlight(h)'
      BY <3>3 DEF P!Acquire, P!Return, P!Expire, P!Outcome
    <3>4. ASSUME NEW g \in History, P!Finish(g) \/ P!Panic(g), g = h PROVE FALSE
      <4>1. CASE P!Panic(g)
        BY <3>4, <4>1 DEF P!Panic
      <4>2. CASE P!Record(g)
        <5>1. payload[h] \in HistoryRow /\ run[h] # "running"
          BY <3>4, <4>2, RowAssumption
            DEF P!Record, P!Outcome, Executing, P!IInv, P!TypeInv, P!ReaderInv, P!Issued, TypeInv,
                TypeOK, StreamTypeOK
        <5>2. history'[h] = [payload[h] EXCEPT !.status = run[h]]
          BY <3>4, <4>2 DEF P!Record
        <5>3. history'[h].status = run[h]
          BY <5>1, <5>2 DEF HistoryRow
        <5>4. QED
          BY <1>5, <5>1, <5>3 DEF Running
      <4>3. CASE P!RecordFails(g)
        <5>1. h \notin late /\ history[h] # Null
          BY <1>1 DEF Running
        <5>2. QED
          BY <3>4, <4>3, <5>1 DEF P!RecordFails, P!RecordAccepted
      <4>4. QED
        BY <3>4, <4>1, <4>2, <4>3 DEF P!Finish
    <3>5. ASSUME NEW g \in History, P!Finish(g) \/ P!Panic(g), g # h PROVE E!InFlight(h)'
      <4>1. run' = [run EXCEPT ![g] = "over"]
        BY <3>5 DEF P!Finish, P!Record, P!RecordFails, P!Panic, P!Release
      <4>2. QED
        BY <3>5, <4>1
    <3>6. CASE P!Crash \/ P!Stop
      BY <3>6 DEF P!Crash, P!Stop, P!InMemory
    <3>7. QED
      BY <3>1, <3>2, <3>3, <3>4, <3>5, <3>6 DEF P!Service, P!Consume, P!Work
  <2>6. QED
    BY <2>1, <2>2, <2>3, <2>4, <2>5 DEF HandInv, RunningIsInHand
<1>6. RunningIsInHand'
  BY <1>5 DEF RunningIsInHand
<1>7. trimmed' \subseteq History
  BY <1>1 DEF HandInv
<1>8. QED
  BY <1>4, <1>6, <1>7 DEF HandInv

LEMMA ExecutorStep ==
  ASSUME SystemInv, ByExecutionService, E!Service
  PROVE  SystemInv'
<1> USE DEF SystemInv
<1>1. P!Service
  BY SameService
<1>2. P!IInv' /\ P!RefInv'
  BY <1>1, P!NextIInv, P!NextRefInv, ExecutorAssumptions DEF Executing, P!Next
<1>3. /\ UNCHANGED <<jobs, sched, spent, payload, pc, due, cur, now, api, slips, trimmed>>
      /\ InHand' = InHand
  BY <1>1, ServiceFrame
<1>4. TypeInv'
  <2>1. P!TypeOK'
    BY <1>2 DEF P!IInv, P!TypeInv
  <2>2. StoreTypeOK' /\ StreamTypeOK' /\ faults' \in Nat
    BY <2>1, SameTypes
      DEF P!TypeOK, P!StoreTypeOK, P!StreamTypeOK, StoreTypeOK, StreamTypeOK
  <2>3. QED
    BY <1>3, <2>2 DEF TypeInv, TypeOK, CurHeld
<1>5. RefInv'
  <2>1. Referential'
    BY <1>2 DEF P!RefInv, P!Referential, Referential
  <2>2. SpentAgrees' /\ Owned'
    BY <1>3 DEF RefInv, SpentAgrees, Owned, OwnedBy
  <2>3. QED
    BY <2>1, <2>2 DEF RefInv
<1>6. SlotInv'
  BY <1>3 DEF SlotInv, StartedAgrees, SnapshotAgrees, CurAgrees, NextIsLater, OneTaskPerSlot, NewSlot
<1>7. HandInv'
  BY <1>1, ServiceHand
<1>8. QED
  BY <1>2, <1>4, <1>5, <1>6, <1>7 DEF Executing

LEMMA SystemInitInv == SystemInit => SystemInv
<1> SUFFICES ASSUME SystemInit PROVE SystemInv
  OBVIOUS
<1>1. Init /\ E!Init /\ trimmed = {}
  BY DEF SystemInit
<1>2. TypeInv /\ RefInv /\ SlotInv
  BY <1>1, InitTypeInv, InitRefInv, InitSlotInv
<1>3. P!Init
  BY <1>1 DEF E!Init, P!Init, E!StoreInit, P!StoreInit, E!StreamInit, P!StreamInit
<1>4. Executing
  BY <1>3, P!InitIInv, P!InitRefInv, ExecutorAssumptions DEF Executing
<1>5. pc = "idle" /\ \A h \in History : history[h] = Null
  BY <1>1 DEF Init, StoreInit
<1>6. HandInv
  BY <1>1, <1>5 DEF HandInv, RunningIsInHand, Running
<1>7. QED
  BY <1>2, <1>4, <1>6 DEF SystemInv

LEMMA SystemStutter ==
  ASSUME SystemInv, UNCHANGED systemVars
  PROVE  SystemInv'
<1> USE DEF SystemInv
<1>1. /\ UNCHANGED <<jobs, sched, history, spent, stream, payload>>
      /\ UNCHANGED <<now, pc, due, cur, api, slips, faults>>
      /\ UNCHANGED <<phase, read, pending, step, held, run, late, slots, starts, hit, trimmed>>
  BY DEF systemVars, vars, storeVars, streamVars, loopVars, processVars
<1>2. TypeInv' /\ RefInv' /\ SlotInv'
  BY <1>1, NextTypeInv, NextRefInv, NextSlotInv DEF vars, storeVars, streamVars, loopVars
<1>3. P!IInv' /\ P!RefInv'
  <2>1. UNCHANGED P!vars
    BY <1>1 DEF P!vars, P!storeVars, P!streamVars, P!readerVars, P!taskVars, InHand
  <2>2. QED
    BY <2>1, P!NextIInv, P!NextRefInv, ExecutorAssumptions DEF Executing
<1>4. HandInv'
  BY <1>1 DEF HandInv, RunningIsInHand, Running, Disturbed, Queued, E!InFlight, E!HoldsSlot
<1>5. QED
  BY <1>2, <1>3, <1>4 DEF Executing

LEMMA SystemNextInv == SystemInv /\ [SystemNext]_systemVars => SystemInv'
BY SchedulerStep, ExecutorStep, SystemStutter DEF SystemNext

LEMMA SystemInvariance == System => []SystemInv
BY SystemInitInv, SystemNextInv, PTL DEF System

\* Each instance counts the elements of a set by the same definition.
LEMMA SameCardinality ==
  ASSUME NEW S
  PROVE  E!Cardinality(S) = P!Cardinality(S) /\ E!Pool!Cardinality(S) = P!Pool!Cardinality(S)
BY DEF E!Cardinality, P!Cardinality, E!Pool!Cardinality, P!Pool!Cardinality

\* Type correctness of the two services together.
THEOREM SystemTypeCorrect == System => []SystemTypeOK
<1>1. SystemInv => SystemTypeOK
  <2> USE DEF SystemInv, TypeInv, HandInv, Executing, P!IInv, P!TypeInv, SystemTypeOK
  <2>1. P!TypeOK => E!TypeOK
    BY SameTypes
      DEF P!TypeOK, E!TypeOK, P!StoreTypeOK, E!StoreTypeOK, P!StreamTypeOK, E!StreamTypeOK,
          P!RunState, E!RunState, P!Outcome, E!Outcome
  <2>2. QED
    BY <2>1
<1>2. QED
  BY <1>1, SystemInvariance, PTL

\* From poll to strategy: a slot of a schedule leads to at most one execution,
\* whatever crashes, restarts and lost replies the execution service sees.
THEOREM SlotsRunOnce == System => []SlotRunsOnce
<1>1. SystemInv => SlotRunsOnce
  <2> SUFFICES ASSUME SystemInv PROVE SlotRunsOnce
    OBVIOUS
  <2> USE DEF SystemInv, Executing, P!IInv, P!TypeInv
  <2>1. run \in [History -> P!RunState] /\ starts \in [History -> Nat]
    BY DEF P!TypeOK
  <2>2. ASSUME NEW h \in History, starts[h] > 0 PROVE payload[h] # Null
    <3>1. run[h] # "none"
      BY <2>1, <2>2 DEF P!StartInv
    <3>2. QED
      BY <3>1 DEF P!ReaderInv, P!Issued
  <2>3. \A h \in History : starts[h] <= 1
    BY DEF P!StartInv, P!AtMostOnce
  <2>4. QED
    BY <2>2, <2>3 DEF SlotRunsOnce, SlotInv, OneTaskPerSlot
<1>2. QED
  BY <1>1, SystemInvariance, PTL

\* A history that says running is in the hands of one of the two services.
THEOREM RunningAreInHand == System => []RunningIsInHand
<1>1. SystemInv => RunningIsInHand
  BY DEF SystemInv, HandInv
<1>2. QED
  BY <1>1, SystemInvariance, PTL

\* What holds of the execution service with any publisher of tasks holds with
\* the poller: the semaphore, the acknowledgements, the outcomes, and, with
\* the API editing and the poller saving snapshots, the foreign keys.
THEOREM ServiceKeepsPromises ==
  System => [](E!SlotsAccounted /\ E!AckedIsHandled /\ E!EndedIsRecorded /\ Referential)
<1>1. SystemInv => P!SlotsAccounted /\ P!AckedIsHandled /\ P!EndedIsRecorded /\ Referential
  BY DEF SystemInv, RefInv, Executing, P!IInv, P!TypeInv, P!ReaderInv, P!SlotInv, P!FinalInv
<1>2. P!SlotsAccounted => E!SlotsAccounted
  <2>1. E!Holders = P!Holders
    BY DEF P!Holders, E!Holders, P!HoldsSlot, E!HoldsSlot, P!Outcome, E!Outcome
  <2>2. QED
    BY <2>1, SameCardinality DEF P!SlotsAccounted, E!SlotsAccounted
<1>3. P!AckedIsHandled => E!AckedIsHandled
  BY DEF P!AckedIsHandled, E!AckedIsHandled
<1>4. P!EndedIsRecorded => E!EndedIsRecorded
  BY DEF P!EndedIsRecorded, E!EndedIsRecorded, P!Outcome, E!Outcome
<1>5. QED
  BY <1>1, <1>2, <1>3, <1>4, SystemInvariance, PTL

-----------------------------------------------------------------------------
(* Steps of the composed system.                                           *)

\* Executor_proofs speaks of the steps of its own specification.
LEMMA ServiceIsStep ==
  ASSUME ByExecutionService, E!Service
  PROVE  P!Next
BY SameService DEF P!Next

LEMMA SystemKeepsFinal ==
  ASSUME SystemInv, [SystemNext]_systemVars, NEW h \in History \ hit,
         history[h] # Null, history[h].status \in E!Outcome, history'[h] # Null
  PROVE  history'[h] = history[h]
<1>1. CASE UNCHANGED systemVars
  BY <1>1 DEF systemVars, vars, storeVars
<1>2. CASE ByExecutionService /\ E!Service
  BY <1>2, ServiceIsStep, P!StepKeepsFinal, ExecutorAssumptions
    DEF SystemInv, Executing, E!Outcome, P!Outcome
<1>3. CASE Next /\ BySchedulingService
  <2>1. payload[h] # Null
    BY DEF SystemInv, Executing, P!RefInv, P!CopyAgrees
  <2>2. ~(pc = "fail" /\ cur.hist = h)
    BY InHandTyped DEF SystemInv, TypeInv, CurHeld, Executing, P!IInv, P!FinalInv
  <2>3. QED
    BY <1>3, <2>1, <2>2, NextHistories DEF SystemInv
<1>4. QED
  BY <1>1, <1>2, <1>3 DEF SystemNext

\* A recorded outcome is never overwritten, by neither service, unless a
\* failure hit the task.
THEOREM SystemOutcomesAreFinal == System => E!FinalIsFinal
<1>1. SystemInv /\ [SystemNext]_systemVars =>
        [\A h \in History \ hit :
           history[h] # Null /\ history[h].status \in E!Outcome /\ history'[h] # Null
             => history'[h] = history[h]]_(E!vars)
  BY SystemKeepsFinal
<1>2. QED
  BY <1>1, SystemInvariance, PTL DEF System, E!FinalIsFinal

\* The pool of tasks as each instance sees it
LEMMA SamePool ==
  /\ E!PoolState = P!PoolState /\ E!PoolState' = P!PoolState'
  /\ P!Pool!Next => E!Pool!Next
<1>1. /\ \A h \in History : E!TaskState(h) = P!TaskState(h)
      /\ \A h \in History : E!TaskState(h)' = P!TaskState(h)'
  BY DEF E!TaskState, P!TaskState, E!HoldsSlot, P!HoldsSlot, E!Outcome, P!Outcome
<1>2. E!PoolState = P!PoolState
  BY <1>1 DEF E!PoolState, P!PoolState
<1>3. E!PoolState' = P!PoolState'
  BY <1>1 DEF E!PoolState, P!PoolState
<1>4. E!Pool!Running = P!Pool!Running
  BY <1>2 DEF P!Pool!Running, E!Pool!Running
<1>5. P!Pool!Next => E!Pool!Next
  BY <1>2, <1>3, <1>4, SameCardinality DEF P!Pool!Next, E!Pool!Next, P!Pool!Publish, E!Pool!Publish, P!Pool!Start,
     E!Pool!Start, P!Pool!End, E!Pool!End
<1>6. QED
  BY <1>2, <1>3, <1>5

\* Publishing puts tasks into the pool; nothing else the scheduling service
\* does touches it.
LEMMA SchedulerPoolStep ==
  ASSUME SystemInv, Next, BySchedulingService
  PROVE  [P!Pool!Next]_(P!PoolState)
<1> USE DEF SystemInv, TypeInv, TypeOK, StreamTypeOK
<1>1. UNCHANGED <<run, starts>>
  BY DEF BySchedulingService, processVars
<1>2. ASSUME NEW h \in History, payload'[h] = payload[h]
      PROVE  P!TaskState(h)' = P!TaskState(h)
  BY <1>1, <1>2 DEF P!TaskState, P!HoldsSlot
<1>3. ASSUME NEW h \in History, payload'[h] # payload[h]
      PROVE  /\ payload[h] = Null /\ payload'[h] # Null /\ h = NextHistory
             /\ P!TaskState(h) = "absent" /\ P!TaskState(h)' = "queued"
  <2>1. payload[h] = Null /\ payload'[h] # Null /\ h = NextHistory
    BY <1>3, NextHistories, RowAssumption
  <2>2. run[h] = "none" /\ starts[h] = 0
    BY <2>1 DEF Executing, P!IInv, P!TypeInv, P!ReaderInv, P!StartInv, P!Issued
  <2>3. QED
    BY <1>1, <2>1, <2>2 DEF P!TaskState, P!HoldsSlot, P!Outcome
<1>4. CASE \A h \in History : payload'[h] = payload[h]
  BY <1>2, <1>4 DEF P!PoolState
<1>5. ASSUME NEW h \in History, payload'[h] # payload[h] PROVE P!Pool!Publish(h)
  <2>1. \A g \in History : g # h => P!TaskState(g)' = P!TaskState(g)
    BY <1>2, <1>3, <1>5
  <2>2. P!PoolState' = [P!PoolState EXCEPT ![h] = "queued"]
    BY <1>3, <1>5, <2>1 DEF P!PoolState
  <2>3. QED
    BY <1>3, <1>5, <2>2 DEF P!Pool!Publish, P!PoolState
<1>6. QED
  BY <1>4, <1>5 DEF P!Pool!Next

\* The two services together are a pool that executes each task at most once.
THEOREM SystemImplementsTaskPool == System => E!PoolSpec
<1>1. SystemInit => E!Pool!Init
  BY DEF SystemInit, E!Init, E!StreamInit, E!Pool!Init, E!PoolState, E!TaskState
<1>2. SystemInv /\ [SystemNext]_systemVars => [E!Pool!Next]_(E!PoolState)
  <2> SUFFICES ASSUME SystemInv, [SystemNext]_systemVars PROVE [E!Pool!Next]_(E!PoolState)
    OBVIOUS
  <2>1. CASE UNCHANGED systemVars
    BY <2>1 DEF systemVars, vars, streamVars, processVars, E!PoolState, E!TaskState, E!HoldsSlot
  <2>2. CASE ByExecutionService /\ E!Service
    BY <2>2, ServiceIsStep, P!PoolStep, ExecutorAssumptions, SamePool DEF SystemInv, Executing
  <2>3. CASE Next /\ BySchedulingService
    BY <2>3, SchedulerPoolStep, SamePool
  <2>4. QED
    BY <2>1, <2>2, <2>3 DEF SystemNext
<1>3. QED
  BY <1>1, <1>2, SystemInvariance, PTL DEF System, E!PoolSpec, E!Pool!Spec

-----------------------------------------------------------------------------
(* Without failures, the two services together.                            *)

\* Nothing is hit, trimmed or slips, and nobody asks the service to stop.
Quiet == slips = {} /\ hit = {} /\ trimmed = {} /\ phase = "serving"

\* A stream without a limit loses nothing to XADD.
LEMMA UnlimitedKeeps ==
  ASSUME StreamMaxLen = 0, stream \in Seq(History), NEW g \in History, NEW h, Queued(h),
         stream' = Enqueued(g)
  PROVE  Queued(h)'
<1> DEFINE longer == Append(stream, g)
<1>1. PICK i \in DOMAIN stream : stream[i] = h
  BY DEF Queued
<1>2. Len(stream) \in Nat /\ DOMAIN stream = 1..Len(stream)
  BY LenProperties
<1>3. /\ longer \in Seq(History) /\ Len(longer) = Len(stream) + 1
      /\ \A k \in 1..Len(stream) : longer[k] = stream[k]
  BY AppendProperties
<1>4. stream' = longer
  BY DEF Enqueued
<1> HIDE DEF longer
<1>5. i \in DOMAIN stream' /\ stream'[i] = h
  <2>1. DOMAIN longer = 1..Len(longer)
    BY <1>3, LenProperties
  <2>2. QED
    BY <1>1, <1>2, <1>3, <1>4, <2>1
<1>6. QED
  BY <1>5 DEF Queued

LEMMA QuietScheduler ==
  ASSUME Undisturbed, StreamMaxLen = 0, SystemInv, Quiet, Next, BySchedulingService
  PROVE  Quiet'
<1> USE DEF SystemInv
<1>1. slips' = {}
  BY SlipsNeedCauses DEF Quiet
<1>2. ~(pc = "enqueue" /\ pc' = "fail")
  <2> SUFFICES ASSUME pc = "enqueue", pc' = "fail" PROVE FALSE
    OBVIOUS
  <2>1. ~Fault
    BY DEF Fault, Undisturbed, TypeInv, TypeOK
  <2>2. ~(FindDue \/ Tick \/ Edit \/ Crash \/ EnqueueFails)
    BY <2>1 DEF FindDue, Tick, Edit, StoreRequest, UnchangedByApi, UpdateScheduleFind,
       UpdateScheduleSave, UpdateJobFind, UpdateJobSave, RequestFails, loopVars, Crash, EnqueueFails
  <2>3. ~(Enqueue \/ MarkFailed \/ SaveSchedule \/ SaveScheduleFails)
    BY DEF Enqueue, MarkFailed, SaveSchedule, SaveScheduleFails, Finish, Continue
  <2>4. ASSUME NEW s \in Schedule
        PROVE  ~(CreateHistory(s) \/ CreateHistoryLost(s) \/ CreateHistoryFails(s))
    BY DEF CreateHistory, CreateHistoryLost, CreateHistoryFails
  <2>5. QED
    BY <2>2, <2>3, <2>4 DEF Next, Publish
<1>3. ASSUME NEW h \in History, Queued(h) PROVE Queued(h)'
  <2>1. stream \in Seq(History) /\ (pc = "enqueue" => cur.hist \in History)
    BY DEF TypeInv, TypeOK, StreamTypeOK, CurHeld, Publication
  <2>2. CASE stream' = stream
    BY <1>3, <2>2 DEF Queued
  <2>3. CASE pc = "enqueue" /\ stream' = Enqueued(cur.hist)
    BY <1>3, <2>1, <2>3, UnlimitedKeeps
  <2>4. QED
    BY <2>2, <2>3, NextPlaces
<1>4. trimmed' = {}
  BY <1>3 DEF BySchedulingService, Quiet
<1>5. QED
  BY <1>1, <1>2, <1>4 DEF BySchedulingService, processVars, Quiet

LEMMA QuietExecutor ==
  ASSUME Undisturbed, SystemInv, Quiet, ByExecutionService, P!Service
  PROVE  Quiet'
<1>1. slips' = {} /\ trimmed' = {}
  BY ServiceFrame DEF Quiet
<1>2. ~P!Mishap({}) /\ \A H : ~P!Mishap(H)
  BY DEF P!Mishap, Undisturbed, SystemInv, TypeInv, TypeOK
<1>3. ASSUME P!Consume \/ P!ReadLost PROVE hit' = {} /\ phase' = "serving"
  <2> USE DEF Quiet, P!NoMishap
  <2>1. CASE P!Read \/ P!StartTask
    BY <2>1 DEF P!Read, P!StartTask
  <2>2. ~P!ReadLost
    BY <1>2 DEF P!ReadLost
  <2>3. CASE P!DropTask
    BY <1>2, <2>3 DEF P!DropTask
  <2>4. CASE P!Ack \/ P!Del
    BY <1>2, <2>4 DEF P!Ack, P!Del, P!Works, P!Fails
  <2>5. QED
    BY <1>3, <2>1, <2>2, <2>3, <2>4 DEF P!Consume
<1>4. ASSUME NEW h \in History, P!Work(h) PROVE hit' = {} /\ phase' = "serving"
  BY <1>2, <1>4 DEF Quiet, P!Work, P!Acquire, P!Return, P!Expire, P!Finish, P!Record, P!RecordFails,
                    P!Panic, P!Release, P!NoMishap
<1>5. ~(P!Crash \/ P!Sigterm \/ P!Stop)
  BY <1>2 DEF Quiet, P!Crash, P!Sigterm, P!Stop
<1>6. QED
  BY <1>1, <1>3, <1>4, <1>5 DEF Quiet, P!Service

\* A history that says running is in somebody's hands, or its deadline passed.
LateOrInHand ==
  \A h \in History : Running(h) =>
    \/ pc = "enqueue" /\ cur.hist = h
    \/ Queued(h) /\ h \notin read
    \/ step = "lookup" /\ held = h
    \/ E!InFlight(h)
    \/ h \in late

\* A slot is executed at most once, without exception.
EachSlotRunsOnce ==
  \A g, h \in History :
    /\ starts[g] <= 1
    /\ g # h /\ starts[g] > 0 /\ starts[h] > 0
       /\ payload[g].sched = payload[h].sched
       /\ payload[g].started <= payload[h].started
       => NewSlot(payload[g].started, payload[h].started)

\* The exceptions of RunningIsInHand and SlotRunsOnce are what they say: in a
\* system where nothing fails and the stream has no limit, each slot is
\* executed at most once, and a job that outlives its timeout is the only
\* reason for a history to stay running.
THEOREM UndisturbedSystem ==
  ASSUME Undisturbed, StreamMaxLen = 0
  PROVE  System => [](EachSlotRunsOnce /\ LateOrInHand)
<1>1. SystemInit => Quiet
  BY DEF SystemInit, Init, E!Init, Quiet
<1>2. SystemInv /\ Quiet /\ [SystemNext]_systemVars => Quiet'
  <2> SUFFICES ASSUME SystemInv, Quiet, [SystemNext]_systemVars PROVE Quiet'
    OBVIOUS
  <2>1. CASE UNCHANGED systemVars
    BY <2>1 DEF Quiet, systemVars, vars, processVars
  <2>2. CASE ByExecutionService /\ E!Service
    BY <2>2, SameService, QuietExecutor
  <2>3. CASE Next /\ BySchedulingService
    BY <2>3, QuietScheduler
  <2>4. QED
    BY <2>1, <2>2, <2>3 DEF SystemNext
<1>3. SlotRunsOnce /\ Quiet => EachSlotRunsOnce
  BY DEF SlotRunsOnce, EachSlotRunsOnce, Quiet
<1>4. RunningIsInHand /\ Quiet => LateOrInHand
  BY DEF RunningIsInHand, LateOrInHand, Disturbed, Quiet
<1>5. QED
  BY <1>1, <1>2, <1>3, <1>4, SystemInvariance, SlotsRunOnce, RunningAreInHand, PTL DEF System
=============================================================================
