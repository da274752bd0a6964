-------------------------- MODULE JobStore_proofs --------------------------
(***************************************************************************)
(* Lemmas about the shared store, used by the proofs of the services.      *)
(***************************************************************************)
EXTENDS JobStore, SequenceTheorems, TLAPS

\* The new schedules of a request have ids that were never handed out.
LEMMA FreshAreFresh ==
  ASSUME NEW new \in FreshSchedules
  PROVE  /\ DOMAIN new \subseteq Schedule
         /\ \A s \in DOMAIN new : s \notin spent /\ new[s] \in Cron
BY DEF FreshSchedules

\* An inserted schedule is a row.
LEMMA InsertedIsRow ==
  ASSUME NEW j \in Job, NEW c \in Cron, NEW next \in Nat \cup {Null}
  PROVE  InsertedRow(j, c, next) \in ScheduleRow
BY DEF InsertedRow, ScheduleRow

\* Replacing schedules keeps the table typed.
LEMMA ReplacedTyped ==
  ASSUME sched \in [Schedule -> ScheduleRow \cup {Null}],
         NEW gone, NEW j \in Job, NEW new \in FreshSchedules
  PROVE  SchedulesReplaced(gone, j, new) \in [Schedule -> ScheduleRow \cup {Null}]
<1>1. \A s \in DOMAIN new : InsertedRow(j, new[s], Null) \in ScheduleRow
  BY FreshAreFresh, InsertedIsRow
<1>2. QED
  BY <1>1 DEF SchedulesReplaced

\* A cascade keeps the history table typed.
LEMMA CascadeTyped ==
  ASSUME history \in [History -> HistoryRow \cup {Null}], NEW S
  PROVE  HistoryWithout(S) \in [History -> HistoryRow \cup {Null}]
BY DEF HistoryWithout

\* What Save leaves in the table is a row.
LEMMA SavedIsRow ==
  ASSUME NEW s \in Schedule, NEW row \in ScheduleRow
  PROVE  SavedRow(s, row) \in ScheduleRow
<1>1. row.job \in Job /\ row.cron \in Cron /\ row.next \in Nat \cup {Null}
  BY DEF ScheduleRow
<1>2. QED
  BY <1>1, InsertedIsRow DEF SavedRow

\* The next value of the history sequence is an unused id.
LEMMA NextHistoryIsFresh ==
  ASSUME \E h \in History : payload[h] = Null
  PROVE  NextHistory \in History /\ payload[NextHistory] = Null
BY DEF NextHistory

\* XADD keeps the stream typed, with or without trimming.
LEMMA EnqueuedTyped ==
  ASSUME NEW S, stream \in Seq(S), NEW h \in S
  PROVE  Enqueued(h) \in Seq(S)
<1>1. Append(stream, h) \in Seq(S) /\ Append(stream, h) # <<>>
  BY AppendProperties
<1>2. Tail(Append(stream, h)) \in Seq(S)
  BY <1>1
<1>3. QED
  BY <1>1, <1>2 DEF Enqueued

\* The transactions of the API keep the tables typed.
LEMMA StoreRequestTyped ==
  ASSUME StoreTypeOK,
         NEW j \in Job, NEW s \in Schedule, NEW new \in FreshSchedules,
         CreateJob(j, new) \/ CreateSchedule(j, new) \/ DeleteSchedule(s) \/ DeleteJob(j)
           \/ ReplaceSchedules(j, new)
  PROVE  StoreTypeOK'
<1> USE DEF StoreTypeOK
<1>1. DOMAIN new \subseteq Schedule
  BY FreshAreFresh
<1>2. \A gone : SchedulesReplaced(gone, j, new) \in [Schedule -> ScheduleRow \cup {Null}]
  BY ReplacedTyped
<1>3. \A S : HistoryWithout(S) \in [History -> HistoryRow \cup {Null}]
  BY CascadeTyped
<1>4. CASE CreateJob(j, new)
  BY <1>1, <1>2, <1>4 DEF CreateJob
<1>5. CASE CreateSchedule(j, new)
  BY <1>1, <1>2, <1>5 DEF CreateSchedule
<1>6. CASE DeleteSchedule(s)
  BY <1>3, <1>6 DEF DeleteSchedule
<1>7. CASE DeleteJob(j)
  BY <1>3, <1>7 DEF DeleteJob
<1>8. CASE ReplaceSchedules(j, new)
  BY <1>1, <1>2, <1>3, <1>8 DEF ReplaceSchedules
<1>9. QED
  BY <1>4, <1>5, <1>6, <1>7, <1>8
=============================================================================
