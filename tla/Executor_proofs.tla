--------------------------- MODULE Executor_proofs ---------------------------
(***************************************************************************)
(* Proofs about Executor, for all values of its constants.                 *)
(***************************************************************************)
EXTENDS Executor, JobStore_proofs, FiniteSetTheorems

(***************************************************************************)
(* The inductive invariant.  ReaderInv ties the consumer goroutine to the  *)
(* tasks (what is read exists, what is past its lookup was decided on),    *)
(* StartInv the starts to the goroutines, SlotInv the semaphore to the     *)
(* goroutines, FinalInv the history to the goroutines and the poller.      *)
(***************************************************************************)

Issued == {h \in History : payload[h] # Null}

ReaderInv ==
  /\ stream \in Seq(Issued)
  /\ held # Null <=> step # "read"
  /\ held # Null => held \in read
  /\ read \subseteq Issued
  /\ cur # Null => cur.hist \in Issued
  /\ \A h \in History : run[h] # "none" => h \in read
  /\ step = "lookup" => run[held] = "none" /\ held \in pending
  /\ step \in {"ack", "del"} => run[held] # "none"
  /\ AckedIsHandled

StartInv ==
  /\ \A h \in History : run[h] \in {"none", "waiting", "dropped"} => starts[h] = 0
  /\ \A h \in History : HoldsSlot(h) \/ run[h] = "over" => starts[h] = 1
  /\ AtMostOnce

SlotInv == IsFiniteSet(Holders) /\ SlotsAccounted

FinalInv ==
  /\ \A h \in History \ hit :
        history[h] # Null /\ history[h].status \in Outcome => run[h] = "over"
  /\ cur # Null /\ cur.stage = "fail" => cur.hist \in hit
  /\ EndedIsRecorded

TypeInv == TypeOK /\ ReaderInv /\ SlotInv

IInv == TypeInv /\ StartInv /\ FinalInv

-----------------------------------------------------------------------------
(* Lemmas about single steps.                                              *)

\* XDEL leaves a part of the stream.
LEMMA DeletedTyped ==
  ASSUME NEW S, stream \in Seq(S), NEW h
  PROVE  StreamWithout(h) \in Seq(S)
<1>1. ASSUME NEW i \in DOMAIN stream PROVE RemoveAt(stream, i) \in Seq(S)
  <2>1. Len(stream) \in Nat /\ DOMAIN stream = 1..Len(stream)
    BY LenProperties
  <2>2. i \in Nat /\ i >= 1 /\ i <= Len(stream)
    BY <2>1
  <2>3. \A k \in 1..Len(stream) : stream[k] \in S
    BY ElementOfSeq
  <2>4. SubSeq(stream, 1, i - 1) \in Seq(S)
    BY <2>1, <2>2, <2>3, SubSeqProperties
  <2>5. SubSeq(stream, i + 1, Len(stream)) \in Seq(S)
    BY <2>1, <2>2, <2>3, SubSeqProperties
  <2>6. QED
    BY <2>4, <2>5, ConcatProperties DEF RemoveAt
<1>2. CASE \E i \in DOMAIN stream : stream[i] = h
  BY <1>1, <1>2 DEF StreamWithout
<1>3. CASE ~\E i \in DOMAIN stream : stream[i] = h
  BY <1>3 DEF StreamWithout
<1>4. QED
  BY <1>2, <1>3

\* An entry that XREADGROUP may deliver was issued.
LEMMA UnreadIsIssued ==
  ASSUME ReaderInv, NEW h \in History, Unread(h)
  PROVE  h \in Issued /\ h \notin read
<1>1. DOMAIN stream = 1..Len(stream)
  BY LenProperties DEF ReaderInv
<1>2. QED
  BY <1>1, ElementOfSeq DEF ReaderInv, Unread

\* The semaphore when the goroutines that hold a slot stay the same.
LEMMA SlotInvSame ==
  ASSUME SlotInv, slots' = slots, \A h \in History : HoldsSlot(h)' <=> HoldsSlot(h)
  PROVE  SlotInv'
<1>1. Holders' = Holders
  BY DEF Holders
<1>2. QED
  BY <1>1 DEF SlotInv, SlotsAccounted

\* The semaphore when a goroutine acquires it.
LEMMA SlotInvAcquire ==
  ASSUME TypeOK, SlotInv, NEW h \in History, Acquire(h)
  PROVE  SlotInv'
<1>1. Holders' = Holders \cup {h} /\ h \notin Holders
  BY DEF Acquire, Holders, HoldsSlot, TypeOK, Outcome
<1>2. IsFiniteSet(Holders') /\ Cardinality(Holders') = Cardinality(Holders) + 1
  BY <1>1, FS_AddElement DEF SlotInv
<1>3. slots' = slots + 1 /\ slots < MaxConcurrentTasks /\ slots \in Nat
  BY DEF Acquire, TypeOK
<1>4. QED
  BY <1>2, <1>3, PoolAssumption DEF SlotInv, SlotsAccounted

\* The semaphore when a goroutine ends.
LEMMA SlotInvRelease ==
  ASSUME TypeOK, SlotInv, NEW h \in History, HoldsSlot(h), Release(h)
  PROVE  SlotInv' /\ slots' \in Nat
<1>1. Holders' = Holders \ {h} /\ h \in Holders
  BY DEF Release, Holders, HoldsSlot, TypeOK, Outcome
<1>2. IsFiniteSet(Holders') /\ Cardinality(Holders') = Cardinality(Holders) - 1
  BY <1>1, FS_RemoveElement DEF SlotInv
<1>3. Cardinality(Holders') \in Nat
  BY <1>2, FS_CardinalityType
<1>4. slots' = slots - 1 /\ slots \in Nat
  BY DEF Release, TypeOK
<1>5. QED
  BY <1>2, <1>3, <1>4, PoolAssumption DEF SlotInv, SlotsAccounted

\* The semaphore of a new process is empty.
LEMMA SlotInvRestarted ==
  ASSUME TypeOK, Restarted
  PROVE  SlotInv'
<1>1. Holders' = {}
  BY DEF Restarted, InFlight, Holders, HoldsSlot, TypeOK, Outcome
<1>2. QED
  BY <1>1, FS_EmptySet, PoolAssumption DEF SlotInv, SlotsAccounted, Restarted

\* A new history row.
LEMMA CreatedTyped ==
  ASSUME TypeOK, NEW s \in Schedule, CreateHistory(s)
  PROVE  /\ StoreTypeOK' /\ StreamTypeOK' /\ cur' \in Publication
         /\ Issued' = Issued \cup {NextHistory}
         /\ NextHistory \in History \ Issued
         /\ cur'.hist = NextHistory /\ cur'.stage = "enqueue"
         /\ \A h \in History : h # NextHistory =>
              history'[h] = history[h] /\ payload'[h] = payload[h]
         /\ history'[NextHistory].status = "running" /\ payload'[NextHistory] # Null
<1> DEFINE row == [job |-> sched[s].job, sched |-> s, status |-> "running", started |-> 0]
<1> USE DEF CreateHistory, TypeOK, StoreTypeOK, StreamTypeOK
<1>1. NextHistory \in History /\ payload[NextHistory] = Null
  BY NextHistoryIsFresh
<1>2. row \in HistoryRow /\ row # Null
  BY RowAssumption DEF HistoryRow, ScheduleRow, Status
<1>3. /\ history' \in [History -> HistoryRow \cup {Null}]
      /\ payload' \in [History -> HistoryRow \cup {Null}]
      /\ payload' = [payload EXCEPT ![NextHistory] = row]
      /\ history' = [history EXCEPT ![NextHistory] = row]
  BY <1>1, <1>2
<1>4. Issued' = Issued \cup {NextHistory}
  BY <1>1, <1>2, <1>3 DEF Issued
<1>5. cur' \in Publication /\ cur'.hist = NextHistory /\ cur'.stage = "enqueue"
  BY <1>1 DEF Publication
<1>6. QED
  BY <1>1, <1>2, <1>3, <1>4, <1>5 DEF Issued

\* The other steps of publishTask, from the row and the entry it holds.
LEMMA PublishTyped ==
  ASSUME TypeOK, ReaderInv, Enqueue \/ EnqueueFails \/ MarkFailed \/ SaveSchedule \/ PublishEnds
  PROVE  /\ cur # Null /\ StoreTypeOK' /\ cur' \in Publication \cup {Null}
         /\ stream' \in Seq(Issued) /\ stream' \in Seq(History)
         /\ UNCHANGED payload
         /\ cur' # Null => cur'.hist = cur.hist
<1> USE DEF TypeOK, StoreTypeOK, StreamTypeOK, storeVars, streamVars
<1>1. /\ cur # Null /\ cur \in Publication
      /\ cur.sched \in Schedule /\ cur.row \in ScheduleRow
      /\ cur.hist \in History /\ cur.hist \in Issued
  BY DEF Enqueue, EnqueueFails, MarkFailed, SaveSchedule, PublishEnds, Publication, ReaderInv
<1>2. UNCHANGED payload
  BY DEF Enqueue, EnqueueFails, MarkFailed, SaveSchedule, PublishEnds
<1>3. stream' \in {stream, Enqueued(cur.hist)}
  BY DEF Enqueue, EnqueueFails, MarkFailed, SaveSchedule, PublishEnds
<1>4. stream' \in Seq(Issued)
  BY <1>1, <1>3, EnqueuedTyped DEF ReaderInv
<1>5. stream' \in Seq(History)
  BY <1>1, <1>3, EnqueuedTyped
<1>6. cur' = Null \/ \E g \in {"save", "fail"} : cur' = [cur EXCEPT !.stage = g]
  BY DEF Enqueue, EnqueueFails, MarkFailed, SaveSchedule, PublishEnds
<1>7. cur' \in Publication \cup {Null} /\ (cur' # Null => cur'.hist = cur.hist)
  BY <1>1, <1>6 DEF Publication
<1>8. history' \in [History -> HistoryRow \cup {Null}]
  <2>1. \A r \in HistoryRow : [r EXCEPT !.status = "failed"] \in HistoryRow
    BY DEF HistoryRow, Status
  <2>2. \/ history' = history
        \/ history[cur.hist] # Null /\ history' = [history EXCEPT ![cur.hist].status = "failed"]
    BY DEF Enqueue, EnqueueFails, MarkFailed, SaveSchedule, PublishEnds
  <2>3. CASE history[cur.hist] # Null /\ history' = [history EXCEPT ![cur.hist].status = "failed"]
    <3>1. [history[cur.hist] EXCEPT !.status = "failed"] \in HistoryRow
      BY <1>1, <2>1, <2>3
    <3>2. QED
      BY <1>1, <2>3, <3>1
  <2>4. QED
    BY <2>2, <2>3
<1>9. sched' \in [Schedule -> ScheduleRow \cup {Null}]
  BY <1>1, SavedIsRow DEF Enqueue, EnqueueFails, MarkFailed, SaveSchedule, PublishEnds
<1>10. UNCHANGED <<jobs, spent>>
  BY DEF Enqueue, EnqueueFails, MarkFailed, SaveSchedule, PublishEnds
<1>11. QED
  BY <1>1, <1>2, <1>4, <1>5, <1>7, <1>8, <1>9, <1>10

\* A request of the API deletes histories or leaves them alone.
LEMMA RequestTyped ==
  ASSUME StoreTypeOK, ApiRequest
  PROVE  /\ StoreTypeOK'
         /\ \A h \in History : history'[h] \in {history[h], Null}
<1>1. ASSUME NEW j \in Job, NEW new \in FreshSchedules, CreateJob(j, new)
      PROVE  StoreTypeOK' /\ UNCHANGED history
  BY <1>1, ReplacedTyped, FreshAreFresh DEF CreateJob, StoreTypeOK
<1>2. ASSUME NEW j \in Job, NEW new \in FreshSchedules, ReplaceSchedules(j, new)
      PROVE  StoreTypeOK' /\ \A h \in History : history'[h] \in {history[h], Null}
  BY <1>2, ReplacedTyped, CascadeTyped, FreshAreFresh
    DEF ReplaceSchedules, HistoryWithout, StoreTypeOK
<1>3. ASSUME NEW s \in Schedule, DeleteSchedule(s)
      PROVE  StoreTypeOK' /\ \A h \in History : history'[h] \in {history[h], Null}
  BY <1>3, CascadeTyped DEF DeleteSchedule, HistoryWithout, StoreTypeOK
<1>4. ASSUME NEW j \in Job, DeleteJob(j)
      PROVE  StoreTypeOK' /\ \A h \in History : history'[h] \in {history[h], Null}
  <2>1. HistoryWithout(SchedulesOf(j)) \in [History -> HistoryRow \cup {Null}]
    BY CascadeTyped DEF StoreTypeOK
  <2>2. QED
    BY <1>4, <2>1 DEF DeleteJob, HistoryWithout, StoreTypeOK
<1>5. QED
  BY <1>1, <1>2, <1>3, <1>4 DEF ApiRequest

-----------------------------------------------------------------------------
(* The invariant is inductive.                                             *)

LEMMA InitIInv == Init => IInv
<1> SUFFICES ASSUME Init PROVE IInv
  OBVIOUS
<1> USE DEF Init, StoreInit, StreamInit
<1>1. TypeOK
  BY DEF TypeOK, StoreTypeOK, StreamTypeOK, RunState
<1>2. ReaderInv
  BY EmptySeq DEF ReaderInv, AckedIsHandled
<1>3. SlotInv
  <2>1. Holders = {}
    BY DEF Holders, HoldsSlot, Outcome
  <2>2. QED
    BY <2>1, FS_EmptySet, PoolAssumption DEF SlotInv, SlotsAccounted
<1>4. StartInv
  BY DEF StartInv, AtMostOnce, HoldsSlot, Outcome
<1>5. FinalInv
  BY DEF FinalInv, EndedIsRecorded
<1>6. QED
  BY <1>1, <1>2, <1>3, <1>4, <1>5 DEF IInv, TypeInv

\* The scheduling service publishes and edits.
LEMMA EnvironmentIInv ==
  ASSUME IInv, Environment
  PROVE  IInv'
<1> USE DEF IInv, TypeInv, readerVars, taskVars, storeVars, streamVars
<1>1. UNCHANGED <<phase, read, pending, step, held, run, late, slots, starts>>
  BY DEF Environment
<1>2. SlotInv' /\ StartInv'
  <2>1. \A h \in History : HoldsSlot(h)' <=> HoldsSlot(h)
    BY <1>1 DEF HoldsSlot
  <2>2. QED
    BY <1>1, <2>1, SlotInvSame DEF StartInv, AtMostOnce
<1>3. CASE ApiRequest
  <2>1. StoreTypeOK' /\ \A h \in History : history'[h] \in {history[h], Null}
    BY <1>3, RequestTyped DEF TypeOK
  <2>2. UNCHANGED <<stream, payload, cur, hit, mishaps>>
    BY <1>3 DEF ApiRequest, NoMishap
  <2>3. TypeOK' /\ ReaderInv'
    BY <1>1, <2>1, <2>2 DEF TypeOK, StreamTypeOK, ReaderInv, AckedIsHandled, Issued
  <2>4. FinalInv'
    BY <1>1, <2>1, <2>2 DEF FinalInv, EndedIsRecorded
  <2>5. QED
    BY <1>2, <2>3, <2>4
<1>4. ASSUME NEW s \in Schedule, CreateHistory(s) PROVE IInv'
  <2>1. /\ StoreTypeOK' /\ StreamTypeOK' /\ cur' \in Publication
        /\ Issued' = Issued \cup {NextHistory}
        /\ NextHistory \in History \ Issued
        /\ cur'.hist = NextHistory /\ cur'.stage = "enqueue"
        /\ \A h \in History : h # NextHistory => history'[h] = history[h]
        /\ history'[NextHistory].status = "running"
    BY <1>4, CreatedTyped
  <2>2. UNCHANGED <<stream, hit, mishaps>>
    BY <1>4 DEF CreateHistory, NoMishap
  <2>3. stream' \in Seq(Issued')
    BY <2>1, <2>2, SeqMonotonic DEF ReaderInv
  <2>4. TypeOK' /\ ReaderInv'
    BY <1>1, <2>1, <2>2, <2>3 DEF TypeOK, ReaderInv, AckedIsHandled
  <2>5. run[NextHistory] = "none"
    BY <2>1 DEF ReaderInv
  <2>6. FinalInv'
    <3>1. ASSUME NEW h \in History, h # NextHistory
          PROVE  /\ h \notin hit' /\ history'[h] # Null /\ history'[h].status \in Outcome =>
                      run'[h] = "over"
                 /\ run'[h] = "over" /\ h \notin late' \cup hit' =>
                      history'[h] = Null \/ history'[h].status \in Outcome
      BY <1>1, <2>1, <2>2, <3>1 DEF FinalInv, EndedIsRecorded
    <3>2. history'[NextHistory].status \notin Outcome /\ run'[NextHistory] # "over"
      BY <1>1, <2>1, <2>5 DEF Outcome
    <3>3. cur'.stage # "fail"
      BY <2>1
    <3>4. QED
      BY <3>1, <3>2, <3>3 DEF FinalInv, EndedIsRecorded
  <2>7. QED
    BY <1>2, <2>4, <2>6
<1>5. CASE Enqueue \/ EnqueueFails \/ MarkFailed \/ SaveSchedule \/ PublishEnds
  <2>1. /\ cur # Null /\ StoreTypeOK' /\ cur' \in Publication \cup {Null}
        /\ stream' \in Seq(Issued) /\ stream' \in Seq(History)
        /\ UNCHANGED payload
        /\ cur' # Null => cur'.hist = cur.hist
    BY <1>5, PublishTyped
  <2>2. cur.hist \in Issued /\ cur.hist \in History
    BY <2>1 DEF ReaderInv, Issued
  <2>3. hit \subseteq hit' /\ hit' \subseteq hit \cup {cur.hist} /\ mishaps' \in Nat
    BY <1>5 DEF Enqueue, EnqueueFails, MarkFailed, SaveSchedule, PublishEnds, NoMishap, Mishap,
                TypeOK
  <2>4. Issued' = Issued
    BY <2>1 DEF Issued
  <2>5. TypeOK' /\ ReaderInv'
    BY <1>1, <2>1, <2>2, <2>3, <2>4 DEF TypeOK, StreamTypeOK, ReaderInv, AckedIsHandled
  <2>6. \/ UNCHANGED history
        \/ /\ cur.hist \in hit
           /\ history' = [history EXCEPT ![cur.hist].status = "failed"]
           /\ history[cur.hist] \in HistoryRow
    BY <1>5, <2>1, <2>2 DEF Enqueue, EnqueueFails, MarkFailed, SaveSchedule, PublishEnds, FinalInv,
                            TypeOK, StoreTypeOK
  <2>7. \A h \in History : history'[h] = history[h] \/ h \in hit
    BY <2>2, <2>6 DEF TypeOK, StoreTypeOK
  <2>8. cur' # Null /\ cur'.stage = "fail" => cur'.hist \in hit'
    <3>1. CASE Enqueue
      BY <2>1, <3>1 DEF Enqueue, TypeOK, Publication
    <3>2. CASE EnqueueFails
      BY <2>1, <3>2 DEF EnqueueFails, Mishap
    <3>3. CASE MarkFailed \/ SaveSchedule \/ PublishEnds
      BY <3>3 DEF MarkFailed, SaveSchedule, PublishEnds
    <3>4. QED
      BY <1>5, <3>1, <3>2, <3>3
  <2>9. FinalInv'
    BY <1>1, <2>3, <2>7, <2>8 DEF FinalInv, EndedIsRecorded
  <2>10. QED
    BY <1>2, <2>5, <2>9
<1>6. QED
  BY <1>3, <1>4, <1>5 DEF Environment, Publish

\* The consumer goroutine.
LEMMA ConsumeIInv ==
  ASSUME IInv, Consume \/ ReadLost
  PROVE  IInv'
<1> USE DEF IInv, TypeInv, storeVars, streamVars, readerVars, taskVars
<1>1. \A h \in Issued : h \in History
  BY DEF Issued
<1>2. held # Null => held \in History
  BY DEF TypeOK
<1>3. CASE Read
  <2>1. PICK h \in History : Unread(h) /\ held' = h /\ read' = read \cup {h}
                             /\ pending' = pending \cup {h}
    BY <1>3 DEF Read
  <2>2. h \in Issued /\ h \notin read /\ run[h] = "none" /\ h # Null
    BY <2>1, UnreadIsIssued, IdAssumption DEF ReaderInv
  <2>3. /\ UNCHANGED <<jobs, sched, history, spent, stream, payload, cur, phase>>
        /\ UNCHANGED <<run, late, slots, starts, hit, mishaps>>
        /\ step' = "lookup"
    BY <1>3 DEF Read, NoMishap
  <2>4. TypeOK'
    BY <2>1, <2>3 DEF TypeOK, StoreTypeOK, StreamTypeOK
  <2>5. ReaderInv'
    BY <2>1, <2>2, <2>3 DEF ReaderInv, AckedIsHandled, Issued
  <2>6. SlotInv'
    BY <2>3, SlotInvSame DEF HoldsSlot
  <2>7. StartInv' /\ FinalInv'
    BY <2>3 DEF StartInv, FinalInv, AtMostOnce, EndedIsRecorded, HoldsSlot
  <2>8. QED
    BY <2>4, <2>5, <2>6, <2>7
<1>4. CASE ReadLost
  <2>1. PICK h \in History : Unread(h) /\ read' = read \cup {h}
                             /\ pending' = pending \cup {h} /\ Mishap({h})
    BY <1>4 DEF ReadLost
  <2>2. h \in Issued /\ h \notin read
    BY <2>1, UnreadIsIssued
  <2>3. /\ UNCHANGED <<jobs, sched, history, spent, stream, payload, cur, phase>>
        /\ UNCHANGED <<step, held, run, late, slots, starts>>
        /\ hit' = hit \cup {h} /\ mishaps' = mishaps + 1 /\ step = "read"
    BY <1>4, <2>1 DEF ReadLost, Mishap
  <2>4. TypeOK'
    BY <2>1, <2>3 DEF TypeOK, StoreTypeOK, StreamTypeOK
  <2>5. ReaderInv'
    BY <2>1, <2>2, <2>3 DEF ReaderInv, AckedIsHandled, Issued
  <2>6. SlotInv'
    BY <2>3, SlotInvSame DEF HoldsSlot
  <2>7. StartInv' /\ FinalInv'
    BY <2>3 DEF StartInv, FinalInv, AtMostOnce, EndedIsRecorded, HoldsSlot
  <2>8. QED
    BY <2>4, <2>5, <2>6, <2>7
<1>5. CASE StartTask \/ DropTask
  <2>1. PICK r \in {"waiting", "dropped"} : run' = [run EXCEPT ![held] = r]
    BY <1>5 DEF StartTask, DropTask
  <2>2. /\ UNCHANGED <<jobs, sched, history, spent, stream, payload, cur, phase>>
        /\ UNCHANGED <<read, pending, held, late, slots, starts>>
        /\ step = "lookup" /\ step' = "ack"
    BY <1>5 DEF StartTask, DropTask
  <2>3. hit \subseteq hit' /\ hit' \subseteq hit \cup {held} /\ mishaps' \in Nat
    BY <1>5 DEF StartTask, DropTask, NoMishap, Mishap, TypeOK
  <2>4. held \in History /\ held \in read /\ run[held] = "none"
    BY <1>2, <2>2 DEF ReaderInv
  <2>5. run \in [History -> RunState] /\ r \in RunState
    BY DEF TypeOK, RunState
  <2>6. TypeOK'
    BY <2>1, <2>2, <2>3, <2>4, <2>5 DEF TypeOK, StoreTypeOK, StreamTypeOK
  <2>7. ReaderInv'
    BY <2>1, <2>2, <2>4, <2>5 DEF ReaderInv, AckedIsHandled, Issued
  <2>8. \A h \in History : HoldsSlot(h)' <=> HoldsSlot(h)
    BY <2>1, <2>4, <2>5 DEF HoldsSlot, Outcome
  <2>9. SlotInv'
    BY <2>2, <2>8, SlotInvSame
  <2>10. StartInv'
    BY <2>1, <2>2, <2>4, <2>5, <2>8 DEF StartInv, AtMostOnce
  <2>11. FinalInv'
    BY <2>1, <2>2, <2>3, <2>4, <2>5 DEF FinalInv, EndedIsRecorded
  <2>12. QED
    BY <2>6, <2>7, <2>9, <2>10, <2>11
<1>6. CASE Ack \/ Del
  <2>1. /\ UNCHANGED <<jobs, sched, history, spent, payload, cur, phase>>
        /\ UNCHANGED <<read, run, late, slots, starts, hit>>
    BY <1>6 DEF Ack, Del, Works, Fails, NoMishap, Mishap
  <2>2. mishaps' \in Nat
    BY <1>6 DEF Ack, Del, Works, Fails, NoMishap, Mishap, TypeOK
  <2>3. stream' \in Seq(Issued)
    BY <1>6, DeletedTyped DEF Ack, Del, ReaderInv
  <2>4. stream' \in Seq(History)
    BY <2>3, SeqMonotonic DEF Issued
  <2>5. /\ pending' \subseteq pending
        /\ pending \ pending' \subseteq {held}
        /\ pending' # pending => step = "ack"
        /\ step \in {"ack", "del"}
        /\ step = "ack" => step' = "del" /\ held' = held
        /\ step = "del" => step' = "read" /\ held' = Null
    BY <1>6 DEF Ack, Del
  <2>6. TypeOK'
    BY <2>1, <2>2, <2>4, <2>5 DEF TypeOK, StoreTypeOK, StreamTypeOK
  <2>7. ReaderInv'
    BY <2>1, <2>3, <2>5 DEF ReaderInv, AckedIsHandled, Issued
  <2>8. SlotInv'
    BY <2>1, SlotInvSame DEF HoldsSlot
  <2>9. StartInv' /\ FinalInv'
    BY <2>1 DEF StartInv, FinalInv, AtMostOnce, EndedIsRecorded, HoldsSlot
  <2>10. QED
    BY <2>6, <2>7, <2>8, <2>9
<1>7. QED
  BY <1>3, <1>4, <1>5, <1>6 DEF Consume

\* The goroutine of a task.
LEMMA WorkIInv ==
  ASSUME IInv, NEW h \in History, Work(h)
  PROVE  IInv'
<1> USE DEF IInv, TypeInv, storeVars, streamVars, readerVars, taskVars
<1>1. run \in [History -> RunState] /\ starts \in [History -> Nat] /\ slots \in Nat
  BY DEF TypeOK
<1>2. CASE Acquire(h)
  <2>1. /\ UNCHANGED <<jobs, sched, history, spent, stream, payload, cur, phase>>
        /\ UNCHANGED <<read, pending, step, held, late, hit, mishaps>>
        /\ run[h] = "waiting" /\ run' = [run EXCEPT ![h] = "executing"]
        /\ slots' = slots + 1 /\ starts' = [starts EXCEPT ![h] = @ + 1]
    BY <1>2 DEF Acquire, NoMishap
  <2>2. starts[h] = 0
    BY <2>1 DEF StartInv
  <2>3. TypeOK'
    BY <1>1, <2>1, <2>2 DEF TypeOK, StoreTypeOK, StreamTypeOK, RunState
  <2>4. ReaderInv'
    BY <1>1, <2>1 DEF ReaderInv, AckedIsHandled, Issued
  <2>5. SlotInv'
    BY <1>2, SlotInvAcquire
  <2>6. StartInv'
    BY <1>1, <2>1, <2>2 DEF StartInv, AtMostOnce, HoldsSlot
  <2>7. FinalInv'
    BY <1>1, <2>1 DEF FinalInv, EndedIsRecorded
  <2>8. QED
    BY <2>3, <2>4, <2>5, <2>6, <2>7
<1>3. CASE Return(h)
  <2>1. PICK o \in Outcome : run' = [run EXCEPT ![h] = o]
    BY <1>3 DEF Return
  <2>2. /\ UNCHANGED <<jobs, sched, history, spent, stream, payload, cur, phase>>
        /\ UNCHANGED <<read, pending, step, held, late, slots, starts, hit, mishaps>>
        /\ run[h] = "executing"
    BY <1>3 DEF Return, NoMishap
  <2>3. TypeOK'
    BY <1>1, <2>1, <2>2 DEF TypeOK, StoreTypeOK, StreamTypeOK, RunState
  <2>4. ReaderInv'
    BY <1>1, <2>1, <2>2 DEF ReaderInv, AckedIsHandled, Issued, Outcome
  <2>5. \A g \in History : HoldsSlot(g)' <=> HoldsSlot(g)
    BY <1>1, <2>1, <2>2 DEF HoldsSlot
  <2>6. SlotInv'
    BY <2>2, <2>5, SlotInvSame
  <2>7. StartInv'
    BY <1>1, <2>1, <2>2, <2>5 DEF StartInv, AtMostOnce, Outcome
  <2>8. FinalInv'
    BY <1>1, <2>1, <2>2 DEF FinalInv, EndedIsRecorded, Outcome
  <2>9. QED
    BY <2>3, <2>4, <2>6, <2>7, <2>8
<1>4. CASE Expire(h)
  <2>1. /\ UNCHANGED <<jobs, sched, history, spent, stream, payload, cur, phase>>
        /\ UNCHANGED <<read, pending, step, held, run, slots, starts, hit, mishaps>>
        /\ late' = late \cup {h}
    BY <1>4 DEF Expire, NoMishap
  <2>2. TypeOK'
    BY <2>1 DEF TypeOK, StoreTypeOK, StreamTypeOK
  <2>3. ReaderInv'
    BY <2>1 DEF ReaderInv, AckedIsHandled, Issued
  <2>4. SlotInv'
    BY <2>1, SlotInvSame DEF HoldsSlot
  <2>5. StartInv' /\ FinalInv'
    BY <2>1 DEF StartInv, FinalInv, AtMostOnce, EndedIsRecorded, HoldsSlot
  <2>6. QED
    BY <2>2, <2>3, <2>4, <2>5
<1>5. CASE Finish(h) \/ Panic(h)
  <2>1. HoldsSlot(h) /\ Release(h)
    BY <1>5 DEF Finish, Record, RecordFails, Panic, HoldsSlot
  <2>2. /\ UNCHANGED <<jobs, sched, spent, stream, payload, cur, phase>>
        /\ UNCHANGED <<read, pending, step, held, late, starts>>
        /\ run' = [run EXCEPT ![h] = "over"]
    BY <1>5, <2>1 DEF Finish, Record, RecordFails, Panic, Release
  <2>3. hit \subseteq hit' /\ hit' \subseteq hit \cup {h} /\ mishaps' \in Nat
    BY <1>5 DEF Finish, Record, RecordFails, Panic, NoMishap, Mishap, TypeOK
  <2>4. SlotInv' /\ slots' \in Nat
    BY <2>1, SlotInvRelease
  <2>5. payload[h] \in HistoryRow
    BY <2>1 DEF ReaderInv, Issued, HoldsSlot, Outcome, TypeOK, StreamTypeOK
  <2>6. \A o \in Outcome : LET done == [payload[h] EXCEPT !.status = o]
                          IN  done \in HistoryRow /\ done.status = o
    BY <2>5 DEF HistoryRow, Outcome, Status
  <2>7. \/ /\ Record(h)
           /\ history' = [history EXCEPT ![h] = [payload[h] EXCEPT !.status = run[h]]]
           /\ run[h] \in Outcome
        \/ history' = history /\ h \in hit'
        \/ history' = history /\ h \in late
        \/ history' = history /\ history[h] = Null
    BY <1>5 DEF Finish, Record, RecordFails, Panic, Mishap, RecordAccepted
  <2>8. history' \in [History -> HistoryRow \cup {Null}]
    BY <2>6, <2>7 DEF TypeOK, StoreTypeOK
  <2>9. TypeOK'
    BY <1>1, <2>2, <2>3, <2>4, <2>8 DEF TypeOK, StoreTypeOK, StreamTypeOK, RunState
  <2>10. ReaderInv'
    BY <1>1, <2>1, <2>2 DEF ReaderInv, AckedIsHandled, Issued, HoldsSlot, Outcome
  <2>11. StartInv'
    BY <1>1, <2>1, <2>2 DEF StartInv, AtMostOnce, HoldsSlot, Outcome
  <2>12. \A g \in History \ {h} : history'[g] = history[g] /\ run'[g] = run[g]
    BY <2>2, <2>7, <1>1 DEF TypeOK, StoreTypeOK
  <2>13. history'[h] = Null \/ history'[h].status \in Outcome \/ h \in late' \cup hit'
    BY <2>2, <2>6, <2>7 DEF TypeOK, StoreTypeOK
  <2>14. FinalInv'
    BY <1>1, <2>2, <2>3, <2>12, <2>13 DEF FinalInv, EndedIsRecorded
  <2>15. QED
    BY <2>4, <2>9, <2>10, <2>11, <2>14
<1>6. QED
  BY <1>2, <1>3, <1>4, <1>5 DEF Work

\* The process ends, starts and is told to stop.
LEMMA ProcessIInv ==
  ASSUME IInv, Crash \/ Sigterm \/ Stop
  PROVE  IInv'
<1> USE DEF IInv, TypeInv, storeVars, streamVars, readerVars, taskVars
<1>1. CASE Sigterm
  <2>1. /\ UNCHANGED <<jobs, sched, history, spent, stream, payload, cur>>
        /\ UNCHANGED <<read, pending, step, held, run, late, slots, starts>>
        /\ phase' = "stopping" /\ hit' = hit /\ mishaps' \in Nat
    BY <1>1 DEF Sigterm, Mishap, TypeOK
  <2>2. TypeOK'
    BY <2>1 DEF TypeOK, StoreTypeOK, StreamTypeOK
  <2>3. ReaderInv'
    BY <2>1 DEF ReaderInv, AckedIsHandled, Issued
  <2>4. SlotInv'
    BY <2>1, SlotInvSame DEF HoldsSlot
  <2>5. StartInv' /\ FinalInv'
    BY <2>1 DEF StartInv, FinalInv, AtMostOnce, EndedIsRecorded, HoldsSlot
  <2>6. QED
    BY <2>2, <2>3, <2>4, <2>5
<1>2. CASE Crash \/ Stop
  <2>1. Restarted
    BY <1>2 DEF Crash, Stop
  <2>2. InMemory \subseteq History
    BY DEF InMemory, TypeOK
  <2>3. hit \subseteq hit' /\ hit' \subseteq History /\ mishaps' \in Nat
    BY <1>2, <2>2 DEF Crash, Stop, Mishap, TypeOK
  <2>4. /\ UNCHANGED <<jobs, sched, history, spent, stream, payload, cur>>
        /\ UNCHANGED <<read, pending, late, starts>>
        /\ phase' = "serving" /\ step' = "read" /\ held' = Null /\ slots' = 0
        /\ run' = [h \in History |-> IF InFlight(h) THEN "killed" ELSE run[h]]
    BY <2>1 DEF Restarted
  <2>5. TypeOK'
    BY <2>3, <2>4 DEF TypeOK, StoreTypeOK, StreamTypeOK, RunState
  <2>6. \A h \in History : run'[h] = run[h] \/ run'[h] = "killed"
    BY <2>4
  <2>7. \A h \in History : run'[h] = "none" <=> run[h] = "none"
    BY <2>4 DEF InFlight, HoldsSlot, Outcome
  <2>8. ReaderInv'
    BY <2>4, <2>7 DEF ReaderInv, AckedIsHandled, Issued
  <2>9. SlotInv'
    BY <2>1, SlotInvRestarted
  <2>10. StartInv'
    BY <2>4, <2>6 DEF StartInv, AtMostOnce, HoldsSlot, Outcome
  <2>11. \A h \in History : run'[h] = "over" <=> run[h] = "over"
    BY <2>4 DEF InFlight, HoldsSlot, Outcome
  <2>12. FinalInv'
    BY <2>3, <2>4, <2>11 DEF FinalInv, EndedIsRecorded
  <2>13. QED
    BY <2>5, <2>8, <2>9, <2>10, <2>12
<1>3. QED
  BY <1>1, <1>2

LEMMA NextIInv == IInv /\ [Next]_vars => IInv'
<1> SUFFICES ASSUME IInv, [Next]_vars PROVE IInv'
  OBVIOUS
<1>1. CASE UNCHANGED vars
  <2>1. UNCHANGED <<jobs, sched, history, spent, stream, payload, cur, phase, read, pending,
                    step, held, run, late, slots, starts, hit, mishaps>>
    BY <1>1 DEF vars, storeVars, streamVars, readerVars, taskVars
  <2>2. TypeOK' /\ ReaderInv'
    BY <2>1 DEF IInv, TypeInv, TypeOK, StoreTypeOK, StreamTypeOK, ReaderInv, AckedIsHandled, Issued
  <2>3. SlotInv'
    BY <2>1, SlotInvSame DEF HoldsSlot, IInv, TypeInv
  <2>4. StartInv' /\ FinalInv'
    BY <2>1 DEF IInv, StartInv, FinalInv, AtMostOnce, EndedIsRecorded, HoldsSlot
  <2>5. QED
    BY <2>2, <2>3, <2>4 DEF IInv, TypeInv
<1>2. QED
  BY <1>1, EnvironmentIInv, ConsumeIInv, WorkIInv, ProcessIInv DEF Next, Service

LEMMA Invariance == Spec => []IInv
BY InitIInv, NextIInv, PTL DEF Spec

\* Type correctness of the execution service; in particular the semaphore is
\* never received from when it is empty.
THEOREM TypeCorrect == Spec => []TypeOK
<1>1. IInv => TypeOK
  BY DEF IInv, TypeInv
<1>2. QED
  BY <1>1, Invariance, PTL

\* No task is executed twice, however many crashes, restarts, lost replies and
\* failed acknowledgements there are.
THEOREM TasksRunAtMostOnce == Spec => []AtMostOnce
<1>1. IInv => AtMostOnce
  BY DEF IInv, StartInv
<1>2. QED
  BY <1>1, Invariance, PTL

\* The semaphore counts the goroutines that are executing and bounds them.
THEOREM SlotsAreAccounted == Spec => []SlotsAccounted
<1>1. IInv => SlotsAccounted
  BY DEF IInv, TypeInv, SlotInv
<1>2. QED
  BY <1>1, Invariance, PTL

\* An acknowledged entry was decided on.
THEOREM AcknowledgedAreHandled == Spec => []AckedIsHandled
<1>1. IInv => AckedIsHandled
  BY DEF IInv, TypeInv, ReaderInv
<1>2. QED
  BY <1>1, Invariance, PTL

\* A task that ended in time and undisturbed left its outcome in the history.
THEOREM OutcomesAreRecorded == Spec => []EndedIsRecorded
<1>1. IInv => EndedIsRecorded
  BY DEF IInv, FinalInv
<1>2. QED
  BY <1>1, Invariance, PTL

-----------------------------------------------------------------------------
(* Action properties and refinement.                                       *)

LEMMA StepKeepsFinal ==
  ASSUME IInv, [Next]_vars, NEW h \in History \ hit,
         history[h] # Null, history[h].status \in Outcome, history'[h] # Null
  PROVE  history'[h] = history[h]
<1> USE DEF IInv, TypeInv, storeVars, streamVars
<1>1. run[h] = "over"
  BY DEF FinalInv
<1>2. CASE Environment
  <2>1. CASE ApiRequest
    BY <2>1, RequestTyped DEF TypeOK
  <2>2. ASSUME NEW s \in Schedule, CreateHistory(s) PROVE history'[h] = history[h]
    <3>1. h \in Issued
      BY <1>1 DEF ReaderInv
    <3>2. QED
      BY <2>2, <3>1, CreatedTyped
  <2>3. CASE MarkFailed
    <3>1. h # cur.hist
      BY <2>3 DEF MarkFailed, FinalInv
    <3>2. QED
      BY <2>3, <3>1 DEF MarkFailed, TypeOK, StoreTypeOK
  <2>4. CASE Enqueue \/ EnqueueFails \/ SaveSchedule \/ PublishEnds
    BY <2>4 DEF Enqueue, EnqueueFails, SaveSchedule, PublishEnds
  <2>5. QED
    BY <1>2, <2>1, <2>2, <2>3, <2>4 DEF Environment, Publish
<1>3. CASE \E g \in History : Work(g)
  <2>1. PICK g \in History : Work(g)
    BY <1>3
  <2>2. CASE Record(g)
    <3>1. g # h
      BY <1>1, <2>2 DEF Record, Outcome
    <3>2. QED
      BY <2>2, <3>1 DEF Record, TypeOK, StoreTypeOK
  <2>3. CASE ~Record(g)
    BY <2>1, <2>3 DEF Work, Acquire, Return, Expire, Finish, RecordFails, Panic
  <2>4. QED
    BY <2>2, <2>3
<1>4. CASE Consume \/ ReadLost \/ Crash \/ Sigterm \/ Stop \/ UNCHANGED vars
  BY <1>4 DEF Consume, Read, StartTask, DropTask, Ack, Del, ReadLost, Crash, Stop, Restarted,
              Sigterm, vars
<1>5. QED
  BY <1>2, <1>3, <1>4 DEF Next, Service

\* A recorded outcome is never overwritten, unless a failure hit the task,
\* though historyRepo.Update saves the row blindly from the copy in the entry.
THEOREM OutcomesAreFinal == Spec => FinalIsFinal
<1>1. IInv /\ [Next]_vars =>
        [\A h \in History \ hit :
           history[h] # Null /\ history[h].status \in Outcome /\ history'[h] # Null
             => history'[h] = history[h]]_vars
  BY StepKeepsFinal
<1>2. QED
  BY <1>1, Invariance, PTL DEF Spec, FinalIsFinal

\* The pool's running tasks are those that hold a slot.
LEMMA RunningAreHolders == IInv => Pool!Running = Holders
<1> SUFFICES ASSUME IInv PROVE Pool!Running = Holders
  OBVIOUS
<1>1. \A h \in History : HoldsSlot(h) => payload[h] # Null
  BY DEF IInv, TypeInv, ReaderInv, Issued, HoldsSlot, Outcome
<1>2. \A h \in History : PoolState[h] = "running" <=> HoldsSlot(h)
  BY <1>1 DEF PoolState, TaskState
<1>3. QED
  BY <1>2 DEF Pool!Running, Holders

LEMMA PoolSame ==
  ASSUME \A h \in History : TaskState(h)' = TaskState(h)
  PROVE  PoolState' = PoolState
BY DEF PoolState

LEMMA PoolInit == Init => Pool!Init
BY DEF Init, StreamInit, Pool!Init, PoolState, TaskState

LEMMA PoolStep == IInv /\ [Next]_vars => [Pool!Next]_PoolState
<1> SUFFICES ASSUME IInv, [Next]_vars PROVE [Pool!Next]_PoolState
  OBVIOUS
<1> USE DEF IInv, TypeInv, storeVars, streamVars, readerVars, taskVars
<1>1. run \in [History -> RunState] /\ starts \in [History -> Nat]
  BY DEF TypeOK
<1>2. CASE UNCHANGED <<payload, run, starts>>
  BY <1>2, PoolSame DEF TaskState, HoldsSlot
<1>3. CASE Environment
  <2>1. CASE ApiRequest
    BY <1>2, <1>3, <2>1 DEF Environment, ApiRequest
  <2>2. ASSUME NEW s \in Schedule, CreateHistory(s) PROVE [Pool!Next]_PoolState
    <3> PICK n \in History : n = NextHistory
      BY <2>2, CreatedTyped
    <3>1. payload[n] = Null /\ run[n] = "none" /\ starts[n] = 0
      BY <2>2, CreatedTyped DEF ReaderInv, StartInv, Issued
    <3>2. payload'[n] # Null /\ \A h \in History \ {n} : payload'[h] = payload[h]
      BY <2>2, CreatedTyped
    <3>3. UNCHANGED <<run, starts>>
      BY <1>3 DEF Environment
    <3>4. TaskState(n) = "absent" /\ TaskState(n)' = "queued"
      BY <3>1, <3>2, <3>3 DEF TaskState, HoldsSlot, Outcome
    <3>5. \A h \in History \ {n} : TaskState(h)' = TaskState(h)
      BY <3>2, <3>3 DEF TaskState, HoldsSlot
    <3>6. PoolState' = [PoolState EXCEPT ![n] = "queued"]
      BY <3>4, <3>5 DEF PoolState
    <3>7. Pool!Publish(n)
      BY <3>4, <3>6 DEF Pool!Publish, PoolState
    <3>8. QED
      BY <3>7 DEF Pool!Next
  <2>3. CASE Enqueue \/ EnqueueFails \/ MarkFailed \/ SaveSchedule \/ PublishEnds
    <3>1. UNCHANGED payload
      BY <2>3, PublishTyped
    <3>2. QED
      BY <1>2, <1>3, <3>1 DEF Environment
  <2>4. QED
    BY <1>3, <2>1, <2>2, <2>3 DEF Environment, Publish
<1>4. CASE Read \/ ReadLost \/ Ack \/ Del \/ Sigterm \/ UNCHANGED vars
  BY <1>2, <1>4 DEF Read, ReadLost, Ack, Del, Sigterm, vars
<1>5. CASE StartTask \/ DropTask
  <2>1. PICK r \in {"waiting", "dropped"} : run' = [run EXCEPT ![held] = r]
    BY <1>5 DEF StartTask, DropTask
  <2>2. UNCHANGED <<payload, starts>> /\ run[held] = "none"
    BY <1>5 DEF StartTask, DropTask, ReaderInv
  <2>3. \A h \in History : HoldsSlot(h)' <=> HoldsSlot(h)
    BY <1>1, <2>1, <2>2 DEF HoldsSlot, Outcome
  <2>4. QED
    BY <2>2, <2>3, PoolSame DEF TaskState
<1>6. ASSUME NEW h \in History, Acquire(h) PROVE [Pool!Next]_PoolState
  <2>1. /\ UNCHANGED payload /\ payload[h] # Null
        /\ run[h] = "waiting" /\ run' = [run EXCEPT ![h] = "executing"]
        /\ starts[h] = 0 /\ starts' = [starts EXCEPT ![h] = @ + 1]
    BY <1>6 DEF Acquire, StartInv, ReaderInv, Issued
  <2>2. TaskState(h) = "queued" /\ TaskState(h)' = "running"
    BY <1>1, <2>1 DEF TaskState, HoldsSlot, Outcome
  <2>3. \A g \in History \ {h} : TaskState(g)' = TaskState(g)
    BY <1>1, <2>1 DEF TaskState, HoldsSlot
  <2>4. Cardinality(Pool!Running) < MaxConcurrentTasks
    BY <1>6, RunningAreHolders DEF Acquire, SlotInv, SlotsAccounted
  <2>5. PoolState' = [PoolState EXCEPT ![h] = "running"]
    BY <2>2, <2>3 DEF PoolState
  <2>6. PoolState[h] = "queued"
    BY <2>2 DEF PoolState
  <2>7. Pool!Cardinality(Pool!Running) = Cardinality(Pool!Running)
    BY DEF Pool!Cardinality, Cardinality
  <2>8. Pool!Start(h)
    BY <2>4, <2>5, <2>6, <2>7 DEF Pool!Start
  <2>9. QED
    BY <2>8 DEF Pool!Next
<1>7. ASSUME NEW h \in History, Return(h) \/ Expire(h) PROVE [Pool!Next]_PoolState
  <2>1. UNCHANGED <<payload, starts>>
    BY <1>7 DEF Return, Expire
  <2>2. \A g \in History : HoldsSlot(g)' <=> HoldsSlot(g)
    BY <1>1, <1>7 DEF Return, Expire, HoldsSlot
  <2>3. QED
    BY <2>1, <2>2, PoolSame DEF TaskState
<1>8. ASSUME NEW h \in History, Finish(h) \/ Panic(h) PROVE [Pool!Next]_PoolState
  <2>1. HoldsSlot(h) /\ Release(h)
    BY <1>8 DEF Finish, Record, RecordFails, Panic, HoldsSlot
  <2>2. UNCHANGED <<payload, starts>> /\ run' = [run EXCEPT ![h] = "over"]
    BY <2>1 DEF Release
  <2>3. payload[h] # Null /\ starts[h] = 1
    BY <2>1 DEF StartInv, ReaderInv, Issued, HoldsSlot, Outcome
  <2>4. TaskState(h) = "running" /\ TaskState(h)' = "ended"
    BY <1>1, <2>1, <2>2, <2>3 DEF TaskState, HoldsSlot, Outcome
  <2>5. \A g \in History \ {h} : TaskState(g)' = TaskState(g)
    BY <1>1, <2>2 DEF TaskState, HoldsSlot
  <2>6. h \in Pool!Running
    BY <2>1, RunningAreHolders DEF Holders
  <2>7. Pool!End({h})
    BY <2>4, <2>5 DEF Pool!End, PoolState
  <2>8. QED
    BY <2>6, <2>7 DEF Pool!Next
<1>9. CASE Crash \/ Stop
  <2>1. /\ UNCHANGED <<payload, starts>>
        /\ run' = [h \in History |-> IF InFlight(h) THEN "killed" ELSE run[h]]
    BY <1>9 DEF Crash, Stop, Restarted
  <2>2. ASSUME NEW h \in History, HoldsSlot(h) PROVE TaskState(h)' = "ended"
    <3>1. payload[h] # Null /\ starts[h] = 1
      BY <2>2 DEF StartInv, ReaderInv, Issued, HoldsSlot, Outcome
    <3>2. QED
      BY <2>1, <2>2, <3>1 DEF TaskState, HoldsSlot, InFlight, Outcome
  <2>3. ASSUME NEW h \in History, ~HoldsSlot(h) PROVE TaskState(h)' = TaskState(h)
    BY <2>1, <2>3 DEF TaskState, HoldsSlot, InFlight, Outcome
  <2>4. PoolState' = [h \in History |-> IF h \in Holders THEN "ended" ELSE PoolState[h]]
    BY <2>2, <2>3 DEF PoolState, Holders
  <2>5. Pool!End(Pool!Running)
    BY <2>4, RunningAreHolders DEF Pool!End
  <2>6. QED
    BY <2>5 DEF Pool!Next
<1>10. QED
  BY <1>3, <1>4, <1>5, <1>6, <1>7, <1>8, <1>9 DEF Next, Service, Consume, Work

\* The execution service implements TaskPool: each task is run at most once and
\* at most MaxConcurrentTasks run together, through every failure and restart.
THEOREM ImplementsTaskPool == Spec => PoolSpec
<1>1. QED
  BY PoolInit, PoolStep, Invariance, PTL DEF Spec, PoolSpec, Pool!Spec

-----------------------------------------------------------------------------
(* Referential integrity.                                                  *)

(***************************************************************************)
(* historyRepo.Update writes the copy of the entry over the row, foreign   *)
(* keys included: it names what the row named, which is still there        *)
(* (CopyAgrees).  The poller saves a schedule of its snapshot over the row *)
(* or as a new one: the row still has the snapshot's job, as its id was    *)
(* handed out once (SnapshotAgrees).                                       *)
(***************************************************************************)
CopyAgrees ==
  \A h \in History : history[h] # Null =>
    payload[h] # Null /\ payload[h].job = history[h].job /\ payload[h].sched = history[h].sched

SnapshotAgrees ==
  /\ \A s \in Schedule : sched[s] # Null => s \in spent
  /\ cur # Null => /\ cur.sched \in spent
                   /\ sched[cur.sched] # Null => sched[cur.sched].job = cur.row.job

RefInv == Referential /\ CopyAgrees /\ SnapshotAgrees

LEMMA InitRefInv == Init => RefInv
BY DEF Init, StoreInit, StreamInit, RefInv, Referential, CopyAgrees, SnapshotAgrees

\* A request drops rows with all that refers to them, and inserts fresh schedules.
LEMMA RequestRefInv ==
  ASSUME TypeOK, RefInv, ApiRequest
  PROVE  RefInv'
<1> USE DEF TypeOK, StoreTypeOK, RefInv
<1>1. UNCHANGED <<payload, cur>>
  BY DEF ApiRequest, streamVars
<1>2. \A h \in History : history'[h] \in {history[h], Null}
  BY RequestTyped
<1>3. CopyAgrees'
  BY <1>1, <1>2 DEF CopyAgrees
<1>4. /\ \A h \in History : history[h] # Null => history[h].sched \in Schedule
      /\ cur # Null => cur.sched \in Schedule
  BY DEF HistoryRow, Publication
<1>5. ASSUME NEW j \in Job, NEW new \in FreshSchedules, NEW gone \in SUBSET Schedule,
             jobs' = jobs \cup {j}, sched' = SchedulesReplaced(gone, j, new),
             history' = HistoryWithout(gone),
             spent \cup DOMAIN new \subseteq spent'
      PROVE  Referential' /\ SnapshotAgrees'
  <2>1. \A s \in DOMAIN new : /\ InsertedRow(j, new[s], Null) # Null
                              /\ InsertedRow(j, new[s], Null).job = j
                              /\ s \notin spent
    BY FreshAreFresh, InsertedIsRow, RowAssumption DEF InsertedRow
  <2>2. \A s \in Schedule :
          sched'[s] = IF s \in DOMAIN new THEN InsertedRow(j, new[s], Null)
                      ELSE IF s \in gone THEN Null ELSE sched[s]
    BY <1>5 DEF SchedulesReplaced
  <2>3. \A h \in History : history'[h] # Null =>
          history'[h] = history[h] /\ history[h].sched \notin gone
    BY <1>5 DEF HistoryWithout
  <2>4. Referential'
    BY <1>4, <1>5, <2>1, <2>2, <2>3 DEF Referential
  <2>5. SnapshotAgrees'
    BY <1>1, <1>4, <1>5, <2>1, <2>2 DEF SnapshotAgrees
  <2>6. QED
    BY <2>4, <2>5
<1>6. ASSUME NEW j \in Job, NEW new \in FreshSchedules, CreateJob(j, new)
      PROVE  Referential' /\ SnapshotAgrees'
  <2>1. HistoryWithout({}) = history
    BY DEF HistoryWithout
  <2>2. QED
    BY <1>5, <1>6, <2>1 DEF CreateJob
<1>7. ASSUME NEW j \in Job, NEW new \in FreshSchedules, ReplaceSchedules(j, new)
      PROVE  Referential' /\ SnapshotAgrees'
  <2>1. SchedulesOf(j) \in SUBSET Schedule
    BY DEF SchedulesOf
  <2>2. QED
    BY <1>5, <1>7, <2>1 DEF ReplaceSchedules
<1>8. ASSUME NEW s \in Schedule, DeleteSchedule(s)
      PROVE  Referential' /\ SnapshotAgrees'
  <2>1. Referential'
    BY <1>4, <1>8 DEF DeleteSchedule, HistoryWithout, Referential
  <2>2. SnapshotAgrees'
    BY <1>1, <1>4, <1>8 DEF DeleteSchedule, SnapshotAgrees
  <2>3. QED
    BY <2>1, <2>2
<1>9. ASSUME NEW j \in Job, DeleteJob(j)
      PROVE  Referential' /\ SnapshotAgrees'
  <2>1. Referential'
    BY <1>4, <1>9 DEF DeleteJob, HistoryWithout, SchedulesOf, Referential
  <2>2. SnapshotAgrees'
    BY <1>1, <1>4, <1>9 DEF DeleteJob, SnapshotAgrees
  <2>3. QED
    BY <2>1, <2>2
<1>10. Referential' /\ SnapshotAgrees'
  BY <1>6, <1>7, <1>8, <1>9 DEF ApiRequest
<1>11. QED
  BY <1>3, <1>10

\* The poller's inserts and upserts.
LEMMA PublishRefInv ==
  ASSUME IInv, RefInv, Publish
  PROVE  RefInv'
<1> USE DEF IInv, TypeInv, TypeOK, StoreTypeOK, StreamTypeOK, RefInv, storeVars, streamVars
<1>1. ASSUME NEW s \in Schedule, CreateHistory(s) PROVE RefInv'
  <2> DEFINE n   == NextHistory
             row == [job |-> sched[s].job, sched |-> s, status |-> "running", started |-> 0]
  <2>1. n \in History
    BY <1>1, NextHistoryIsFresh DEF CreateHistory
  <2>2. /\ history' = [history EXCEPT ![n] = row] /\ payload' = [payload EXCEPT ![n] = row]
        /\ cur' = [sched |-> s, row |-> sched[s], hist |-> n, stage |-> "enqueue"]
        /\ sched[s] # Null /\ UNCHANGED <<jobs, sched, spent>>
    BY <1>1 DEF CreateHistory
  <2>3. row.job = sched[s].job /\ row.sched = s /\ sched[s].job \in jobs /\ row # Null
    BY <2>2, RowAssumption DEF Referential, HistoryRow, ScheduleRow, Status
  <2> HIDE DEF n, row
  <2>4. Referential'
    BY <2>1, <2>2, <2>3 DEF Referential
  <2>5. CopyAgrees'
    BY <2>1, <2>2, <2>3 DEF CopyAgrees
  <2>6. SnapshotAgrees'
    BY <2>2 DEF SnapshotAgrees
  <2>7. QED
    BY <2>4, <2>5, <2>6
<1>2. cur # Null => cur.sched \in Schedule /\ cur.row \in ScheduleRow /\ cur.hist \in History
  BY DEF Publication
<1>3. CASE Enqueue \/ EnqueueFails \/ PublishEnds
  <2>1. /\ UNCHANGED <<jobs, sched, history, spent, payload>>
        /\ cur # Null
        /\ cur' = Null \/ \E g \in {"save", "fail"} : cur' = [cur EXCEPT !.stage = g]
    BY <1>3 DEF Enqueue, EnqueueFails, PublishEnds
  <2>2. cur' # Null => cur'.sched = cur.sched /\ cur'.row = cur.row
    BY <2>1 DEF Publication
  <2>3. QED
    BY <2>1, <2>2 DEF Referential, CopyAgrees, SnapshotAgrees
<1>4. CASE MarkFailed
  <2>1. /\ UNCHANGED <<jobs, sched, spent, payload>> /\ cur' = Null /\ cur # Null
        /\ \/ history' = history
           \/ history[cur.hist] # Null /\ history' = [history EXCEPT ![cur.hist].status = "failed"]
    BY <1>4 DEF MarkFailed
  <2>2. \A r \in HistoryRow : LET f == [r EXCEPT !.status = "failed"]
                              IN  f.sched = r.sched /\ f.job = r.job
    BY DEF HistoryRow
  <2>3. \A h \in History : history'[h] # Null =>
          /\ history[h] # Null
          /\ history'[h].sched = history[h].sched /\ history'[h].job = history[h].job
    <3> SUFFICES ASSUME NEW h \in History, history'[h] # Null
                 PROVE  /\ history[h] # Null
                        /\ history'[h].sched = history[h].sched
                        /\ history'[h].job = history[h].job
      OBVIOUS
    <3>1. CASE history' = history
      BY <3>1
    <3>2. CASE history[cur.hist] # Null /\ history' = [history EXCEPT ![cur.hist].status = "failed"]
      <4>1. CASE h # cur.hist
        <5>1. history'[h] = history[h]
          BY <3>2, <4>1
        <5>2. QED
          BY <5>1
      <4>2. CASE h = cur.hist
        <5>1. history[h] \in HistoryRow
          BY <3>2, <4>2
        <5>2. history'[h] = [history[h] EXCEPT !.status = "failed"]
          BY <3>2, <4>2
        <5>3. QED
          BY <2>2, <3>2, <4>2, <5>1, <5>2
      <4>3. QED
        BY <4>1, <4>2
    <3>3. QED
      BY <2>1, <3>1, <3>2
  <2>4. QED
    BY <2>1, <2>3 DEF Referential, CopyAgrees, SnapshotAgrees
<1>5. CASE SaveSchedule
  <2>1. /\ UNCHANGED <<jobs, history, spent, payload>> /\ cur' = Null /\ cur # Null
        /\ \/ sched' = sched
           \/ /\ SaveAccepted(cur.sched, cur.row)
              /\ sched' = [sched EXCEPT ![cur.sched] = SavedRow(cur.sched, cur.row)]
    BY <1>5 DEF SaveSchedule
  <2>2. CASE sched' = sched
    BY <2>1, <2>2 DEF Referential, CopyAgrees, SnapshotAgrees
  <2>3. CASE /\ SaveAccepted(cur.sched, cur.row)
             /\ sched' = [sched EXCEPT ![cur.sched] = SavedRow(cur.sched, cur.row)]
    <3>1. cur.row.job \in jobs
      BY <1>2, <2>1, <2>3 DEF SaveAccepted, Referential, SnapshotAgrees
    <3>2. SavedRow(cur.sched, cur.row).job = cur.row.job /\ SavedRow(cur.sched, cur.row) # Null
      BY <1>2, <2>1, SavedIsRow, RowAssumption DEF SavedRow, InsertedRow
    <3>3. QED
      BY <1>2, <2>1, <2>3, <3>1, <3>2 DEF Referential, CopyAgrees, SnapshotAgrees
  <2>4. QED
    BY <2>1, <2>2, <2>3
<1>6. QED
  BY <1>1, <1>3, <1>4, <1>5 DEF Publish

LEMMA NextRefInv == IInv /\ RefInv /\ [Next]_vars => RefInv'
<1> SUFFICES ASSUME IInv, RefInv, [Next]_vars PROVE RefInv'
  OBVIOUS
<1> USE DEF IInv, TypeInv, TypeOK, StoreTypeOK, StreamTypeOK, RefInv, storeVars, streamVars
<1>1. CASE Environment
  BY <1>1, RequestRefInv, PublishRefInv DEF Environment
<1>2. ASSUME NEW h \in History, Record(h) PROVE RefInv'
  <2> DEFINE done == [payload[h] EXCEPT !.status = run[h]]
  <2>1. /\ history' = [history EXCEPT ![h] = done]
        /\ UNCHANGED <<jobs, sched, spent, payload, cur>> /\ RecordAccepted(h)
    BY <1>2 DEF Record, Release
  <2>2. payload[h] \in HistoryRow
    BY <1>2 DEF Record, ReaderInv, Issued, Outcome
  <2>3. done.job = payload[h].job /\ done.sched = payload[h].sched
    BY <2>2 DEF HistoryRow
  <2>4. sched[payload[h].sched] # Null /\ payload[h].job \in jobs
    BY <2>1 DEF RecordAccepted, Referential, CopyAgrees
  <2>5. payload[h] # Null
    BY <2>2, RowAssumption
  <2> HIDE DEF done
  <2>6. Referential'
    BY <2>1, <2>3, <2>4 DEF Referential
  <2>7. CopyAgrees'
    BY <2>1, <2>3, <2>5 DEF CopyAgrees
  <2>8. SnapshotAgrees'
    BY <2>1 DEF SnapshotAgrees
  <2>9. QED
    BY <2>6, <2>7, <2>8
<1>3. CASE UNCHANGED <<jobs, sched, history, spent, payload, cur>>
  BY <1>3 DEF Referential, CopyAgrees, SnapshotAgrees
<1>4. ASSUME NEW h \in History, Work(h), ~Record(h)
      PROVE  UNCHANGED <<jobs, sched, history, spent, payload, cur>>
  BY <1>4 DEF Work, Acquire, Return, Expire, Finish, RecordFails, Panic, Release
<1>5. CASE Consume \/ ReadLost \/ Crash \/ Sigterm \/ Stop \/ UNCHANGED vars
  BY <1>3, <1>5 DEF Consume, Read, StartTask, DropTask, Ack, Del, ReadLost, Crash, Stop, Restarted,
              Sigterm, vars
<1>6. QED
  BY <1>1, <1>2, <1>3, <1>4, <1>5 DEF Next, Service

\* Recording an outcome over a row, or as a new row when the API deleted it
\* meanwhile, leaves no history without its schedule and job.
THEOREM ReferencesHold == Spec => []Referential
<1>1. RefInv => Referential
  BY DEF RefInv
<1>2. QED
  BY <1>1, Invariance, InitRefInv, NextRefInv, PTL DEF Spec
=============================================================================
