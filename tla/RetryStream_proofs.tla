-------------------------- MODULE RetryStream_proofs --------------------------
(***************************************************************************)
(* Proofs about RetryStream, for any number of entries, any deadlines with *)
(* Timeout < MaxIdle, any retry limit and any number of mishaps.           *)
(***************************************************************************)
EXTENDS RetryStream, TLAPS

\* The worker works on an entry it has not acknowledged.
Working(w) == step[w] \in {"check", "execute", "store", "notify", "alert", "ack"}

\* Its context has not ended.
InTime(w) == Working(w) /\ ~late[w]

\* It has seen to an outcome of that entry and may still acknowledge it.
Concluded(w) == step[w] \in {"notify", "ack"} /\ ~late[w]

\* It has been hit by a mishap and will see to an outcome nevertheless.
Owes(w) == step[w] \in {"store", "alert"} /\ late[w]

Owed(w, e) == IF Owes(w) /\ held[w] = e THEN 1 ELSE 0

\* The outcomes of an entry, with those that late workers are about to add
Total == [e \in Entry |-> Outcomes[e] + Owed("reader", e) + Owed("retrier", e)]

(***************************************************************************)
(* The timing argument.  While the reader works on an entry in its         *)
(* context, the entry has been idle exactly as long as the context is old; *)
(* that is less than MaxIdle, so the retrier cannot claim it.              *)
(***************************************************************************)
WorkInv ==
  /\ \A w \in Worker : IF Busy(w) THEN held[w] \in 1..delivered ELSE held[w] = None
  /\ \A w \in Worker : InTime(w) => held[w] \in pending
  /\ \A w \in Worker : step[w] = "del" => held[w] \notin pending
  /\ \A w \in Worker : late[w] => Detached(w) \/ step[w] = "ack"
  /\ InTime("reader") => idle[held["reader"]] = age["reader"] /\ age["reader"] <= Timeout
  /\ SharedOnlyLate

(***************************************************************************)
(* The accounting of outcomes.  As long as nobody has concluded a pending  *)
(* entry since its last mishap, its outcomes, and those late workers still *)
(* add, are all paid for by mishaps.                                       *)
(***************************************************************************)
OutcomeInv ==
  /\ \A w \in Worker : Concluded(w) => Outcomes[held[w]] > 0
  /\ \A e \in pending : (\A w \in Worker : Concluded(w) => held[w] # e) => Total[e] <= slips[e]
  /\ \A e \in Entry : e > delivered => Outcomes[e] = 0
  /\ NothingLost
  /\ \A e \in Entry : Total[e] <= 1 + slips[e]

TypeInv == TypeOK /\ WorkInv

IInv == TypeInv /\ OutcomeInv

-----------------------------------------------------------------------------
(* Lemmas about single steps.                                              *)

\* A mishap counts for the entries it hits and for no others.
LEMMA MishapTyped ==
  ASSUME TypeOK, NEW E, Mishap(E)
  PROVE  /\ mishaps' \in Nat
         /\ slips' \in [Entry -> Nat]
         /\ \A e \in Entry : slips'[e] >= slips[e]
         /\ \A e \in Entry : e \in E => slips'[e] = slips[e] + 1
BY DEF Mishap, TypeOK

\* Entries are numbers, and None is not one of them.
LEMMA EntryFacts == Entry \subseteq Nat /\ None \notin Entry /\ \A n \in 0..MaxEntries : 1..n \subseteq Entry
BY EntryAssumption DEF Entry, None

\* Counting one more for an entry
LEMMA OneMore ==
  ASSUME NEW f \in [Entry -> Nat], NEW e \in Entry
  PROVE  [f EXCEPT ![e] = f[e] + 1] \in [Entry -> Nat]
OBVIOUS

\* Type correctness and the timing argument hold at the start.
LEMMA TypeInit == Init => TypeInv
<1> SUFFICES ASSUME Init PROVE TypeInv
  OBVIOUS
<1>1. /\ idle \in [Entry -> 0..MaxIdle] /\ count \in [Entry -> 0..MaxRetry]
      /\ signals \in [Entry -> Nat] /\ alerts \in [Entry -> Nat]
      /\ tries \in [Entry -> Nat] /\ slips \in [Entry -> Nat]
  BY EntryAssumption, TimeAssumption DEF Init, NoEntry
<1>2. last \in 0..MaxEntries /\ delivered \in 0..last /\ timer \in 1..Interval
  BY EntryAssumption, TimeAssumption DEF Init
<1>d. due \in BOOLEAN
  BY DEF Init
<1>a. /\ step \in [Worker -> Step] /\ held \in [Worker -> Entry \cup {None}]
      /\ age \in [Worker -> Nat] /\ late \in [Worker -> BOOLEAN] /\ mishaps \in Nat
  BY DEF Init, Step
<1>b. stream \subseteq 1..last /\ pending \subseteq 1..delivered
  BY DEF Init
<1>c. TypeOK
  BY <1>1, <1>2, <1>a, <1>b, <1>d DEF TypeOK
<1>3. WorkInv
  BY DEF Init, WorkInv, Working, InTime, Busy, SharedOnlyLate, Worker
<1>4. QED
  BY <1>c, <1>3 DEF TypeInv

\* Every step keeps the state well-typed.
LEMMA TypeStep ==
  ASSUME TypeInv, [Next]_vars
  PROVE  TypeOK'
<1> USE EntryAssumption, TimeAssumption, EntryFacts
<1>0. \A w \in Worker : step[w] \notin {"free", "dead"} => held[w] \in Entry
  BY DEF TypeInv, TypeOK, WorkInv, Busy
<1>a. ASSUME NEW w \in Worker, NEW s \in Step, Move(w, s)
      PROVE  /\ step' \in [Worker -> Step] /\ held' \in [Worker -> Entry \cup {None}]
             /\ age' \in [Worker -> Nat] /\ late' \in [Worker -> BOOLEAN]
  BY <1>a DEF TypeInv, TypeOK, Move
<1>b. ASSUME NEW w \in Worker, NEW s \in Step, NEW e \in Entry \cup {None}, Take(w, e, s)
      PROVE  /\ step' \in [Worker -> Step] /\ held' \in [Worker -> Entry \cup {None}]
             /\ age' \in [Worker -> Nat] /\ late' \in [Worker -> BOOLEAN]
  BY <1>b DEF TypeInv, TypeOK, Take
<1>c. ASSUME NEW w \in Worker, Leave(w)
      PROVE  /\ step' \in [Worker -> Step] /\ held' \in [Worker -> Entry \cup {None}]
             /\ age' \in [Worker -> Nat] /\ late' \in [Worker -> BOOLEAN]
  BY <1>b, <1>c DEF Leave, Step
<1>d. {"free", "check", "execute", "store", "notify", "alert", "ack", "del", "dead"} = Step
      /\ Worker = {"reader", "retrier"}
  BY DEF Step, Worker
<1>1. CASE Publish
  BY <1>1 DEF TypeInv, TypeOK, Publish, workerVars, tickerVars, outcomeVars, mishapVars
<1>2. CASE Read
  <2> DEFINE e == delivered + 1
  <2>1. /\ last' = last /\ delivered' = e /\ e \in 1..last
        /\ stream' = stream /\ pending' = pending \cup {e}
        /\ idle' = [idle EXCEPT ![e] = 0] /\ count' = [count EXCEPT ![e] = 1]
        /\ UNCHANGED workerVars \/ Take("reader", e, "execute")
        /\ UNCHANGED <<tickerVars, outcomeVars, mishapVars>>
    BY <1>2 DEF Read, TypeInv, TypeOK
  <2>2. e \in Entry
    BY <2>1 DEF TypeInv, TypeOK
  <2>3. /\ step' \in [Worker -> Step] /\ held' \in [Worker -> Entry \cup {None}]
        /\ age' \in [Worker -> Nat] /\ late' \in [Worker -> BOOLEAN]
    BY <2>1, <2>2, <1>b, <1>d DEF TypeInv, TypeOK, workerVars
  <2>4. idle' \in [Entry -> 0..MaxIdle] /\ count' \in [Entry -> 0..MaxRetry]
    BY <2>1, <2>2 DEF TypeInv, TypeOK
  <2>5. delivered' \in 0..last' /\ pending' \subseteq 1..delivered'
    BY <2>1 DEF TypeInv, TypeOK
  <2>6. QED
    BY <2>1, <2>3, <2>4, <2>5 DEF TypeInv, TypeOK, tickerVars, outcomeVars, mishapVars
<1>3. CASE Claim
  <2>1. PICK e \in Claimable : /\ idle' = [idle EXCEPT ![e] = 0]
                               /\ count' = [count EXCEPT ![e] = AtMost(count[e] + 1, MaxRetry)]
                               /\ Take("retrier", e, "check")
    BY <1>3 DEF Claim
  <2>2. e \in Entry
    BY <2>1 DEF Claimable, TypeInv, TypeOK
  <2>3. AtMost(count[e] + 1, MaxRetry) \in 0..MaxRetry
    BY <2>2 DEF TypeInv, TypeOK, AtMost
  <2>4. idle' \in [Entry -> 0..MaxIdle] /\ count' \in [Entry -> 0..MaxRetry]
    BY <2>1, <2>2, <2>3 DEF TypeInv, TypeOK
  <2>5. QED
    BY <1>3, <1>b, <1>d, <2>1, <2>2, <2>4 DEF TypeInv, TypeOK, Claim, Ticked, outcomeVars, mishapVars
<1>4. CASE NothingToClaim
  BY <1>4 DEF TypeInv, TypeOK, NothingToClaim, Ticked, queueVars, workerVars, outcomeVars, mishapVars
<1>5. CASE CheckPending
  <2>1. held["retrier"] \in Entry /\ "retrier" \in Worker /\ "execute" \in Step
    BY <1>0, <1>5, <1>d DEF CheckPending
  <2>2. tries' \in [Entry -> Nat]
    BY <1>5, <2>1 DEF CheckPending, TypeInv, TypeOK
  <2>3. Move("retrier", "execute") \/ Leave("retrier")
    BY <1>5 DEF CheckPending
  <2>4. QED
    BY <1>5, <1>a, <1>c, <2>1, <2>2, <2>3 DEF TypeInv, TypeOK, CheckPending, queueVars, tickerVars, mishapVars
<1>6. CASE CheckPendingFails
  BY <1>6, <1>c, <1>d, MishapTyped DEF TypeInv, TypeOK, CheckPendingFails, queueVars, tickerVars, outcomeVars
<1>e. ASSUME NEW w \in Worker, Stored(w), Busy(w) PROVE signals' \in [Entry -> Nat]
  BY <1>0, <1>e, OneMore DEF Stored, Busy, TypeInv, TypeOK
<1>f. ASSUME NEW w \in Worker, Failed(w)
      PROVE  /\ step' \in [Worker -> Step] /\ held' \in [Worker -> Entry \cup {None}]
             /\ age' \in [Worker -> Nat] /\ late' \in [Worker -> BOOLEAN]
  BY <1>f, <1>a, <1>c, <1>d DEF Failed
<1>7. ASSUME NEW w \in Worker, Analyse(w) PROVE TypeOK'
  BY <1>7, <1>a, <1>d DEF TypeInv, TypeOK, Analyse, queueVars, tickerVars, outcomeVars, mishapVars
<1>8. ASSUME NEW w \in Worker, Store(w) PROVE TypeOK'
  <2>1. signals' \in [Entry -> Nat]
    BY <1>8, <1>e DEF Store, Busy
  <2>2. Move(w, "notify") \/ Move(w, "ack")
    BY <1>8 DEF Store
  <2>3. QED
    BY <1>8, <1>a, <1>d, <2>1, <2>2 DEF TypeInv, TypeOK, Store, queueVars, tickerVars, mishapVars
<1>9. ASSUME NEW w \in Worker, ExecuteFails(w) PROVE TypeOK'
  BY <1>9, <1>f DEF TypeInv, TypeOK, ExecuteFails, queueVars, tickerVars, outcomeVars, mishapVars
<1>10. ASSUME NEW w \in Worker, StoreLost(w) PROVE TypeOK'
  <2>1. signals' \in [Entry -> Nat]
    BY <1>10, <1>e DEF StoreLost, Busy
  <2>2. QED
    BY <1>10, <1>f, <2>1, MishapTyped DEF TypeInv, TypeOK, StoreLost, queueVars, tickerVars
<1>11. ASSUME NEW w \in Worker, Send(w) PROVE TypeOK'
  <2>1. held[w] \in Entry
    BY <1>0, <1>11 DEF Send
  <2>2. alerts' \in [Entry -> Nat]
    BY <1>11, <2>1, OneMore DEF TypeInv, TypeOK, Send
  <2>3. QED
    BY <1>11, <1>a, <1>d, <2>2 DEF TypeInv, TypeOK, Send, queueVars, tickerVars, mishapVars
<1>12. ASSUME NEW w \in Worker, Expire(w) PROVE TypeOK'
  BY <1>12, MishapTyped DEF TypeInv, TypeOK, Expire, queueVars, tickerVars, outcomeVars
<1>13. ASSUME NEW w \in Worker, Ack(w) PROVE TypeOK'
  BY <1>13, <1>a, <1>d DEF TypeInv, TypeOK, Ack, tickerVars, outcomeVars, mishapVars
<1>14. ASSUME NEW w \in Worker, Del(w) PROVE TypeOK'
  BY <1>14, <1>c DEF TypeInv, TypeOK, Del, tickerVars, outcomeVars, mishapVars
<1>15. ASSUME NEW w \in Worker, AckNDelFails(w) PROVE TypeOK'
  <2>1. mishaps' \in Nat /\ slips' \in [Entry -> Nat]
    BY <1>15, MishapTyped DEF TypeInv, TypeOK, AckNDelFails, mishapVars
  <2>2. QED
    BY <1>15, <1>c, <2>1 DEF TypeInv, TypeOK, AckNDelFails, queueVars, tickerVars, outcomeVars
<1>16. ASSUME NEW w \in Worker, Panic(w) PROVE TypeOK'
  BY <1>16, <1>b, <1>d, MishapTyped DEF TypeInv, TypeOK, Panic, queueVars, tickerVars, outcomeVars
<1>17. CASE Crash
  <2>1. /\ step' \in [Worker -> Step] /\ held' \in [Worker -> Entry \cup {None}]
        /\ age' \in [Worker -> Nat] /\ late' \in [Worker -> BOOLEAN]
    BY <1>17, <1>d DEF Crash
  <2>2. mishaps' \in Nat /\ slips' \in [Entry -> Nat]
    BY <1>17, MishapTyped DEF TypeInv, Crash
  <2>3. timer' \in 1..Interval
    BY <1>17 DEF Crash
  <2>4. due' \in BOOLEAN
    BY <1>17 DEF Crash
  <2>5. QED
    BY <1>17, <2>1, <2>2, <2>3, <2>4 DEF TypeInv, TypeOK, Crash, queueVars, outcomeVars
<1>18. CASE Tick
  <2>1. ASSUME NEW e \in Entry PROVE AtMost(idle[e] + 1, MaxIdle) \in 0..MaxIdle
    BY DEF TypeInv, TypeOK, AtMost
  <2>2. idle' \in [Entry -> 0..MaxIdle]
    BY <1>18, <2>1 DEF TypeInv, TypeOK, Tick
  <2>3. age' \in [Worker -> Nat]
    BY <1>18 DEF TypeInv, TypeOK, Tick
  <2>4. timer' \in 1..Interval /\ due' \in BOOLEAN
    BY <1>18 DEF TypeInv, TypeOK, Tick
  <2>5. QED
    BY <1>18, <2>2, <2>3, <2>4 DEF TypeInv, TypeOK, Tick, outcomeVars, mishapVars
<1>19. CASE UNCHANGED vars
  BY <1>19 DEF TypeInv, TypeOK, vars, queueVars, workerVars, tickerVars, outcomeVars, mishapVars
<1>20. QED
  BY <1>1, <1>2, <1>3, <1>4, <1>5, <1>6, <1>7, <1>8, <1>9, <1>10, <1>11, <1>12, <1>13, <1>14,
     <1>15, <1>16, <1>17, <1>18, <1>19 DEF Next, Retry, Advance

\* Every step keeps the reader and the retrier apart.
LEMMA WorkStep ==
  ASSUME TypeInv, [Next]_vars
  PROVE  WorkInv'
<1> USE TimeAssumption, EntryFacts
<1>w. Worker = {"reader", "retrier"}
  BY DEF Worker
<1>n. delivered \in Nat /\ pending \subseteq 1..delivered /\ 1..delivered \subseteq Entry
  BY EntryAssumption DEF TypeInv, TypeOK, Entry
<1>a. ASSUME NEW w \in Worker, NEW s \in {"execute", "store", "notify", "alert", "ack"},
             Working(w), Move(w, s), late[w] => s \in {"alert", "notify", "ack"},
             UNCHANGED <<delivered, pending, idle>>
      PROVE  WorkInv'
  BY <1>a, <1>w DEF TypeInv, TypeOK, WorkInv, Working, InTime, Busy, Detached, SharedOnlyLate, Move
<1>b. ASSUME NEW w \in Worker, NEW s \in {"free", "dead"},
             Take(w, None, s), UNCHANGED <<delivered, pending, idle>>
      PROVE  WorkInv'
  BY <1>b, <1>w DEF TypeInv, TypeOK, WorkInv, Working, InTime, Busy, Detached, SharedOnlyLate, Take
<1>c. ASSUME NEW w \in Worker, Leave(w), UNCHANGED <<delivered, pending, idle>>
      PROVE  WorkInv'
  BY <1>b, <1>c DEF Leave
<1>d. ASSUME NEW w \in Worker, step[w] \in {"execute", "store"}, Failed(w),
             UNCHANGED <<delivered, pending, idle>>
      PROVE  WorkInv'
  BY <1>a, <1>c, <1>d DEF Failed, Working
<1>e. ASSUME UNCHANGED <<delivered, pending, idle, workerVars>>
      PROVE  WorkInv'
  BY <1>e DEF TypeInv, WorkInv, Working, InTime, Busy, Detached, SharedOnlyLate, workerVars
<1>1. CASE Publish
  BY <1>1, <1>e DEF Publish
<1>2. CASE Read
  <2> DEFINE e == delivered + 1
  <2>1. /\ step["reader"] = "free" /\ pending' = pending \cup {e} /\ idle' = [idle EXCEPT ![e] = 0]
        /\ delivered' = e
        /\ UNCHANGED workerVars \/ Take("reader", e, "execute")
    BY <1>2 DEF Read
  <2>2. e \in Entry /\ e \notin 1..delivered /\ 1..e = (1..delivered) \cup {e}
    <3>1. delivered \in Nat /\ last \in Nat /\ delivered < last /\ last <= MaxEntries
      BY <1>2, EntryAssumption DEF Read, TypeInv, TypeOK
    <3>2. /\ delivered + 1 \in 1..MaxEntries /\ delivered + 1 \notin 1..delivered
          /\ 1..(delivered + 1) = (1..delivered) \cup {delivered + 1}
      BY <3>1, EntryAssumption
    <3>3. QED
      BY <3>2 DEF Entry
  <2>3. \A w \in Worker : held[w] # e
    BY <2>2 DEF TypeInv, WorkInv, Busy
  <2>4. CASE UNCHANGED workerVars
    <3>1. InTime("reader") => idle'[held["reader"]] = idle[held["reader"]]
      BY <2>1, <2>2, <2>3, <1>w DEF TypeInv, TypeOK
    <3>2. QED
      BY <2>1, <2>2, <2>3, <2>4, <3>1, <1>n, <1>w
         DEF TypeInv, WorkInv, Working, InTime, Busy, Detached, SharedOnlyLate, workerVars
  <2>5. CASE Take("reader", e, "execute")
    <3>1. /\ step'["reader"] = "execute" /\ held'["reader"] = e /\ age'["reader"] = 0
          /\ late'["reader"] = FALSE /\ idle'[e] = 0
          /\ step'["retrier"] = step["retrier"] /\ held'["retrier"] = held["retrier"]
          /\ late'["retrier"] = late["retrier"]
      BY <2>1, <2>2, <2>5, <1>w DEF TypeInv, TypeOK, Take
    <3>2. QED
      BY <2>1, <2>2, <2>3, <3>1, <1>n, <1>w
         DEF TypeInv, WorkInv, Working, InTime, Busy, Detached, SharedOnlyLate
  <2>6. QED
    BY <2>1, <2>4, <2>5
<1>3. CASE Claim
  <2>1. PICK e \in Claimable : idle' = [idle EXCEPT ![e] = 0] /\ Take("retrier", e, "check")
    BY <1>3 DEF Claim
  <2>2. e \in Entry /\ e \in pending /\ idle[e] = MaxIdle
    BY <2>1, <1>n DEF Claimable
  <2>3. InTime("reader") => held["reader"] # e
    BY <2>2 DEF TypeInv, TypeOK, WorkInv
  <2>4. held["reader"] = e => late["reader"]
    BY <2>2, <2>3, <1>n, <1>w DEF TypeInv, TypeOK, WorkInv, Working, InTime, Busy, Step
  <2>5. pending' = pending /\ delivered' = delivered
    BY <1>3 DEF Claim
  <2>6. /\ step'["retrier"] = "check" /\ held'["retrier"] = e /\ late'["retrier"] = FALSE
        /\ step'["reader"] = step["reader"] /\ held'["reader"] = held["reader"]
        /\ late'["reader"] = late["reader"] /\ age'["reader"] = age["reader"]
        /\ InTime("reader") => idle'[held["reader"]] = idle[held["reader"]]
    BY <2>1, <2>2, <2>3, <1>w DEF TypeInv, TypeOK, Take
  <2>7. QED
    BY <2>2, <2>4, <2>5, <2>6, <1>n, <1>w DEF TypeInv, WorkInv, Working, InTime, Busy, Detached, SharedOnlyLate
<1>4. CASE NothingToClaim
  BY <1>4, <1>e DEF NothingToClaim, queueVars
<1>5. CASE CheckPending
  <2>1. "retrier" \in Worker /\ ~late["retrier"]
    BY <1>5, <1>w DEF CheckPending, TypeInv, WorkInv, Detached
  <2>2. QED
    BY <1>5, <1>a, <1>c, <2>1 DEF CheckPending, Working, queueVars
<1>6. CASE CheckPendingFails
  BY <1>6, <1>c, <1>w DEF CheckPendingFails, queueVars
<1>7. ASSUME NEW w \in Worker, Analyse(w) PROVE WorkInv'
  <2>1. ~late[w]
    BY <1>7 DEF Analyse, TypeInv, WorkInv, Detached
  <2>2. QED
    BY <1>7, <1>a, <2>1 DEF Analyse, Working, queueVars
<1>8. ASSUME NEW w \in Worker, Store(w) PROVE WorkInv'
  BY <1>8, <1>a DEF Store, Working, queueVars
<1>9. ASSUME NEW w \in Worker, ExecuteFails(w) PROVE WorkInv'
  BY <1>9, <1>d DEF ExecuteFails, queueVars
<1>10. ASSUME NEW w \in Worker, StoreLost(w) PROVE WorkInv'
  BY <1>10, <1>d DEF StoreLost, queueVars
<1>11. ASSUME NEW w \in Worker, Send(w) PROVE WorkInv'
  BY <1>11, <1>a DEF Send, Working, queueVars
<1>12. ASSUME NEW w \in Worker, Expire(w) PROVE WorkInv'
  <2>1. /\ Detached(w) /\ late' = [late EXCEPT ![w] = TRUE]
        /\ UNCHANGED <<delivered, pending, idle, step, held, age>>
    BY <1>12 DEF Expire, queueVars
  <2>2. QED
    BY <2>1, <1>w DEF TypeInv, TypeOK, WorkInv, Working, InTime, Busy, Detached, SharedOnlyLate
<1>13. ASSUME NEW w \in Worker, Ack(w) PROVE WorkInv'
  <2>1. /\ step[w] = "ack" /\ ~late[w] /\ pending' = pending \ {held[w]}
        /\ idle' = idle /\ delivered' = delivered
        /\ step' = [step EXCEPT ![w] = "del"] /\ held' = held /\ age' = age /\ late' = late
    BY <1>13 DEF Ack, Move
  <2>2. \A v \in Worker : InTime(v) /\ v # w => held[v] # held[w]
    BY <2>1, <1>n, <1>w DEF TypeInv, WorkInv, Working, InTime, Busy, SharedOnlyLate
  <2>3. QED
    BY <2>1, <2>2, <1>w DEF TypeInv, TypeOK, WorkInv, Working, InTime, Busy, Detached, SharedOnlyLate
<1>14. ASSUME NEW w \in Worker, Del(w) PROVE WorkInv'
  BY <1>14, <1>c DEF Del
<1>15. ASSUME NEW w \in Worker, AckNDelFails(w) PROVE WorkInv'
  BY <1>15, <1>c DEF AckNDelFails, queueVars
<1>16. ASSUME NEW w \in Worker, Panic(w) PROVE WorkInv'
  BY <1>16, <1>b DEF Panic, queueVars
<1>17. CASE Crash
  BY <1>17, <1>w DEF Crash, WorkInv, Working, InTime, Busy, SharedOnlyLate
<1>18. CASE Tick
  <2>1. \A w \in Worker : InTime(w) => Busy(w) /\ ~late[w]
    BY DEF Working, InTime, Busy
  <2>2. ASSUME InTime("reader")
        PROVE  idle'[held["reader"]] = age'["reader"] /\ age'["reader"] <= Timeout
    <3>1. /\ age["reader"] < Timeout /\ age["reader"] \in Nat
          /\ idle[held["reader"]] = age["reader"]
          /\ held["reader"] \in pending /\ held["reader"] \in Entry
      BY <1>18, <1>n, <1>w, <2>1, <2>2 DEF Tick, Deadline, TypeInv, TypeOK, WorkInv
    <3>2. age'["reader"] = age["reader"] + 1
      BY <1>18, <1>w, <2>1, <2>2 DEF Tick
    <3>3. idle'[held["reader"]] = AtMost(idle[held["reader"]] + 1, MaxIdle)
      BY <1>18, <3>1 DEF Tick
    <3>4. QED
      BY <3>1, <3>2, <3>3 DEF AtMost
  <2>3. UNCHANGED <<step, held, late, pending, delivered>>
    BY <1>18 DEF Tick
  <2>4. QED
    BY <2>2, <2>3 DEF TypeInv, WorkInv, Working, InTime, Busy, Detached, SharedOnlyLate
<1>19. CASE UNCHANGED vars
  BY <1>19, <1>e DEF vars, queueVars
<1>20. QED
  BY <1>1, <1>2, <1>3, <1>4, <1>5, <1>6, <1>7, <1>8, <1>9, <1>10, <1>11, <1>12, <1>13, <1>14,
     <1>15, <1>16, <1>17, <1>18, <1>19 DEF Next, Retry, Advance

-----------------------------------------------------------------------------
(* Type correctness and the exclusion of reader and retrier.               *)

LEMMA TypeAlways == Spec => []TypeInv
<1>1. Init => TypeInv
  BY TypeInit
<1>2. TypeInv /\ [Next]_vars => TypeInv'
  BY TypeStep, WorkStep DEF TypeInv
<1>3. QED
  BY <1>1, <1>2, PTL DEF Spec

\* The stream keeps its state well-typed: among others, only delivered
\* entries are pending and only published ones delivered.
THEOREM TypeCorrect == Spec => []TypeOK
<1>1. TypeInv => TypeOK
  BY DEF TypeInv
<1>2. QED
  BY <1>1, TypeAlways, PTL

\* The reader and the retrier work on one entry only when the reader's context
\* has ended, whatever its insertion or Telegram do after it.
THEOREM SharingIsLate == Spec => []SharedOnlyLate
<1>1. TypeInv => SharedOnlyLate
  BY DEF TypeInv, WorkInv
<1>2. QED
  BY <1>1, TypeAlways, PTL

-----------------------------------------------------------------------------
(* Outcomes.                                                               *)

\* Outcomes are counted in numbers.
LEMMA OutcomesTyped ==
  ASSUME TypeOK
  PROVE  /\ Outcomes \in [Entry -> Nat] /\ slips \in [Entry -> Nat]
         /\ \A w \in Worker : \A e \in Entry : Owed(w, e) \in 0..1
         /\ Total \in [Entry -> Nat] /\ \A e \in Entry : Outcomes[e] <= Total[e]
<1>1. Outcomes \in [Entry -> Nat] /\ slips \in [Entry -> Nat]
  BY DEF TypeOK, Outcomes
<1>2. \A w \in Worker : \A e \in Entry : Owed(w, e) \in 0..1
  BY DEF Owed
<1>3. QED
  BY <1>1, <1>2 DEF Total, Worker

\* What is delivered or pending is an entry.
LEMMA DeliveredTyped ==
  ASSUME TypeOK
  PROVE  /\ delivered \in Nat /\ 1..delivered \subseteq Entry
         /\ pending \subseteq Entry
         /\ \A e \in pending : e \in Nat /\ e <= delivered
<1>1. delivered \in Nat /\ delivered <= MaxEntries /\ pending \subseteq 1..delivered
  BY EntryAssumption DEF TypeOK
<1>2. QED
  BY <1>1, EntryAssumption DEF Entry

\* Who works holds an entry that was delivered.
LEMMA HeldFacts ==
  ASSUME TypeInv
  PROVE  \A w \in Worker :
           /\ Busy(w) => held[w] \in Entry /\ held[w] \in Nat /\ held[w] <= delivered
           /\ Concluded(w) => Busy(w) /\ InTime(w)
<1>1. TypeOK
  BY DEF TypeInv
<1>2. QED
  BY <1>1, DeliveredTyped DEF TypeInv, WorkInv, Concluded, Busy, InTime, Working

\* What one worker does, the totals show.
LEMMA TotalStep ==
  ASSUME TypeOK, TypeOK', NEW w \in Worker,
         \A v \in Worker \ {w} : step'[v] = step[v] /\ held'[v] = held[v] /\ late'[v] = late[v]
  PROVE  \A e \in Entry : Total'[e] + Outcomes[e] + Owed(w, e) = Total[e] + Outcomes'[e] + Owed(w, e)'
<1>1. \A v \in Worker \ {w} : \A e \in Entry : Owed(v, e)' = Owed(v, e)
  BY DEF Owed, Owes
<1>2. \A v \in Worker : \A e \in Entry : Owed(v, e) \in Nat /\ Owed(v, e)' \in Nat
  BY DEF Owed
<1>3. \A e \in Entry : Outcomes[e] \in Nat /\ Outcomes'[e] \in Nat
  BY OutcomesTyped DEF Outcomes, TypeOK
<1>4. \A e \in Entry : /\ Total[e] = Outcomes[e] + Owed("reader", e) + Owed("retrier", e)
                       /\ Total'[e] = Outcomes'[e] + Owed("reader", e)' + Owed("retrier", e)'
  BY DEF Total
<1>5. CASE w = "reader"
  <2>1. \A e \in Entry : Owed("retrier", e)' = Owed("retrier", e)
    BY <1>1, <1>5 DEF Worker
  <2>2. QED
    BY <1>2, <1>3, <1>4, <1>5, <2>1 DEF Worker
<1>6. CASE w = "retrier"
  <2>1. \A e \in Entry : Owed("reader", e)' = Owed("reader", e)
    BY <1>1, <1>6 DEF Worker
  <2>2. QED
    BY <1>2, <1>3, <1>4, <1>6, <2>1 DEF Worker
<1>7. QED
  BY <1>5, <1>6 DEF Worker

\* No outcome, nothing pending: the accounting holds at the start.
LEMMA OutcomeInit == Init => OutcomeInv
<1> SUFFICES ASSUME Init PROVE OutcomeInv
  OBVIOUS
<1>1. \A e \in Entry : Outcomes[e] = 0 /\ slips[e] = 0
  BY DEF Init, NoEntry, Outcomes
<1>2. \A w \in Worker : ~Concluded(w) /\ ~Owes(w)
  BY DEF Init, Concluded, Owes
<1>3. pending = {} /\ delivered = 0 /\ 1..0 = {}
  BY DEF Init
<1>4. \A e \in Entry : Total[e] = 0
  BY <1>1, <1>2 DEF Total, Owed, Worker
<1>5. QED
  BY <1>1, <1>2, <1>3, <1>4 DEF OutcomeInv, NothingLost

\* A step after which no entry has more to be paid for, and less if a worker
\* drops what it has concluded, keeps the accounting.
LEMMA OutcomeFrame ==
  ASSUME TypeInv, TypeInv', OutcomeInv, UNCHANGED <<pending, delivered>>,
         \A e \in Entry : Outcomes'[e] >= Outcomes[e],
         \A e \in Entry : e > delivered => Outcomes'[e] = Outcomes[e],
         \A e \in Entry : Total'[e] + slips[e] <= Total[e] + slips'[e],
         \A w \in Worker : Concluded(w)' => Concluded(w) /\ held'[w] = held[w],
         \A w \in Worker : Concluded(w) =>
            \/ Concluded(w)' /\ held'[w] = held[w]
            \/ Total'[held[w]] + slips[held[w]] + 1 <= Total[held[w]] + slips'[held[w]]
  PROVE  OutcomeInv'
<1>1. \A e \in Entry : /\ Outcomes[e] \in Nat /\ slips[e] \in Nat /\ Total[e] \in Nat
                       /\ Total[e] <= 1 + slips[e]
  BY OutcomesTyped DEF TypeInv, OutcomeInv
<1>2. \A e \in Entry : Outcomes'[e] \in Nat /\ slips'[e] \in Nat /\ Total'[e] \in Nat
  <2>1. /\ Outcomes' \in [Entry -> Nat] /\ slips' \in [Entry -> Nat] /\ Total' \in [Entry -> Nat]
    BY DEF TypeInv, TypeOK, Outcomes, Total, Owed
  <2>2. QED
    BY <2>1
<1>3. pending \subseteq Entry /\ 1..delivered \subseteq Entry
  BY DeliveredTyped DEF TypeInv
<1>4. (\A w \in Worker : Concluded(w) => Outcomes[held[w]] > 0)'
  <2> SUFFICES ASSUME NEW w \in Worker, Concluded(w)' PROVE Outcomes'[held'[w]] > 0
    OBVIOUS
  <2>1. Concluded(w) /\ held'[w] = held[w] /\ held[w] \in Entry /\ Outcomes[held[w]] > 0
    BY HeldFacts DEF OutcomeInv
  <2>2. QED
    BY <1>1, <1>2, <2>1
<1>5. ASSUME NEW e \in pending', \A w \in Worker : Concluded(w)' => held'[w] # e
      PROVE  Total'[e] <= slips'[e]
  <2>1. e \in pending /\ e \in Entry
    BY <1>3
  <2>2. CASE \A w \in Worker : Concluded(w) => held[w] # e
    <3>1. Total[e] <= slips[e]
      BY <2>1, <2>2 DEF OutcomeInv
    <3>2. QED
      BY <1>1, <1>2, <2>1, <3>1
  <2>3. CASE \E w \in Worker : Concluded(w) /\ held[w] = e
    <3>1. Total'[e] + slips[e] + 1 <= Total[e] + slips'[e]
      BY <1>5, <2>3
    <3>2. QED
      BY <1>1, <1>2, <2>1, <3>1
  <2>4. QED
    BY <2>2, <2>3
<1>6. (\A e \in Entry : e > delivered => Outcomes[e] = 0)'
  BY DEF OutcomeInv
<1>7. NothingLost'
  <2> SUFFICES ASSUME NEW e \in (1..delivered) \ pending PROVE Outcomes'[e] > 0
    BY DEF NothingLost
  <2>1. e \in Entry /\ Outcomes[e] > 0
    BY <1>3 DEF OutcomeInv, NothingLost
  <2>2. QED
    BY <1>1, <1>2, <2>1
<1>8. (\A e \in Entry : Total[e] <= 1 + slips[e])'
  BY <1>1, <1>2
<1>9. QED
  BY <1>4, <1>5, <1>6, <1>7, <1>8 DEF OutcomeInv

\* A worker concludes the entry it works on, with one outcome more.
LEMMA OutcomeAdded ==
  ASSUME TypeInv, TypeInv', OutcomeInv,
         NEW w \in Worker, InTime(w), ~Concluded(w), Concluded(w)',
         NEW d, d = held[w], held' = held, late' = late,
         \A v \in Worker \ {w} : step'[v] = step[v],
         UNCHANGED <<pending, delivered, slips>>,
         \A e \in Entry : Outcomes'[e] = IF e = d THEN Outcomes[e] + 1 ELSE Outcomes[e]
  PROVE  OutcomeInv'
<1>1. \A e \in Entry : /\ Outcomes[e] \in Nat /\ slips[e] \in Nat /\ Total[e] \in Nat
                       /\ Total[e] <= 1 + slips[e]
  BY OutcomesTyped DEF TypeInv, OutcomeInv
<1>2. pending \subseteq Entry /\ 1..delivered \subseteq Entry
  BY DeliveredTyped DEF TypeInv
<1>3. d \in pending /\ d \in Entry
  BY <1>2 DEF TypeInv, WorkInv
<1>4. \A v \in Worker : v # w /\ Concluded(v) => held[v] # d
  BY <1>3, EntryFacts DEF TypeInv, WorkInv, InTime, Concluded, SharedOnlyLate, Worker
<1>5. Total[d] <= slips[d]
  BY <1>3, <1>4 DEF OutcomeInv
<1>6. \A v \in Worker : v # w => (Concluded(v)' <=> Concluded(v))
  BY DEF Concluded
<1>7. \A e \in Entry : Total'[e] = IF e = d THEN Total[e] + 1 ELSE Total[e]
  <2>1. \A e \in Entry : Owed(w, e) = 0 /\ Owed(w, e)' = 0
    BY DEF Owed, Owes, InTime
  <2>2. \A e \in Entry : Total'[e] + Outcomes[e] + Owed(w, e) = Total[e] + Outcomes'[e] + Owed(w, e)'
    BY TotalStep DEF TypeInv
  <2>3. \A e \in Entry : Total'[e] \in Nat
    BY DEF TypeInv, TypeOK, Outcomes, Total, Owed
  <2>4. QED
    BY <1>1, <2>1, <2>2, <2>3
<1>8. ASSUME NEW v \in Worker, Concluded(v)' PROVE Outcomes'[held'[v]] > 0
  <2>1. CASE v = w
    BY <1>1, <1>3, <2>1
  <2>2. CASE v # w
    BY <1>4, <1>6, <1>8, <2>2, HeldFacts DEF OutcomeInv
  <2>3. QED
    BY <2>1, <2>2
<1>9. ASSUME NEW e \in pending', \A v \in Worker : Concluded(v)' => held'[v] # e
      PROVE  Total'[e] <= slips'[e]
  <2>1. e \in pending /\ e \in Entry /\ e # d
    BY <1>2, <1>9
  <2>2. \A v \in Worker : Concluded(v) => held[v] # e
    BY <1>6, <1>9
  <2>3. QED
    BY <1>7, <2>1, <2>2 DEF OutcomeInv
<1>10. ASSUME NEW e \in Entry, e > delivered PROVE Outcomes'[e] = 0
  <2>1. d <= delivered /\ delivered \in Nat /\ d \in Nat
    BY <1>3, DeliveredTyped DEF TypeInv
  <2>2. QED
    BY <1>10, <2>1 DEF OutcomeInv
<1>11. ASSUME NEW e \in (1..delivered) \ pending PROVE Outcomes'[e] > 0
  BY <1>2, <1>3 DEF OutcomeInv, NothingLost
<1>12. ASSUME NEW e \in Entry PROVE Total'[e] <= 1 + slips'[e]
  <2>1. CASE e = d
    BY <1>1, <1>5, <1>7, <2>1
  <2>2. CASE e # d
    BY <1>1, <1>7, <2>2
  <2>3. QED
    BY <2>1, <2>2
<1>13. QED
  BY <1>8, <1>9, <1>10, <1>11, <1>12 DEF OutcomeInv, NothingLost

\* A worker goes on or drops its entry, and whatever that adds is paid for.
LEMMA OutcomePaid ==
  ASSUME TypeInv, TypeInv', OutcomeInv,
         NEW w \in Worker, Busy(w), NEW d, d = held[w],
         \A v \in Worker \ {w} : step'[v] = step[v] /\ held'[v] = held[v] /\ late'[v] = late[v],
         held'[w] \in {d, None}, Concluded(w)' => Concluded(w) /\ held'[w] = d,
         UNCHANGED <<pending, delivered>>,
         \A e \in Entry \ {d} : Outcomes'[e] = Outcomes[e] /\ slips'[e] >= slips[e],
         Outcomes'[d] >= Outcomes[d],
         Outcomes'[d] + Owed(w, d)' + slips[d] <= Outcomes[d] + Owed(w, d) + slips'[d],
         Concluded(w) /\ ~Concluded(w)' =>
           Outcomes'[d] + Owed(w, d)' + slips[d] + 1 <= Outcomes[d] + Owed(w, d) + slips'[d]
  PROVE  OutcomeInv'
<1>1. d \in Entry /\ d \in Nat /\ d <= delivered /\ delivered \in Nat
  BY HeldFacts, DeliveredTyped DEF TypeInv
<1>2. \A e \in Entry : /\ Outcomes[e] \in Nat /\ Outcomes'[e] \in Nat /\ slips[e] \in Nat /\ slips'[e] \in Nat
                       /\ Total[e] \in Nat /\ Total'[e] \in Nat
                       /\ Owed(w, e) \in Nat /\ Owed(w, e)' \in Nat
  BY DEF TypeInv, TypeOK, Outcomes, Total, Owed
<1>3. \A e \in Entry : Total'[e] + Outcomes[e] + Owed(w, e) = Total[e] + Outcomes'[e] + Owed(w, e)'
  BY TotalStep DEF TypeInv
<1>4. \A e \in Entry \ {d} : Owed(w, e) = 0 /\ Owed(w, e)' = 0
  BY EntryFacts DEF Owed
<1>5. /\ Total'[d] + slips[d] <= Total[d] + slips'[d]
      /\ Concluded(w) /\ ~Concluded(w)' => Total'[d] + slips[d] + 1 <= Total[d] + slips'[d]
  BY <1>1, <1>2, <1>3
<1>6. \A e \in Entry : Total'[e] + slips[e] <= Total[e] + slips'[e]
  <2> SUFFICES ASSUME NEW e \in Entry PROVE Total'[e] + slips[e] <= Total[e] + slips'[e]
    OBVIOUS
  <2>1. CASE e = d
    BY <1>2, <1>5, <2>1
  <2>2. CASE e # d
    BY <1>2, <1>3, <1>4, <2>2
  <2>3. QED
    BY <2>1, <2>2
<1>7. \A v \in Worker \ {w} : Concluded(v)' <=> Concluded(v)
  BY DEF Concluded
<1>8. \A e \in Entry : Outcomes'[e] >= Outcomes[e]
  BY <1>2
<1>9. \A e \in Entry : e > delivered => Outcomes'[e] = Outcomes[e]
  BY <1>1 DEF Entry
<1>10. \A v \in Worker : Concluded(v)' => Concluded(v) /\ held'[v] = held[v]
  BY <1>7
<1>11. \A v \in Worker : Concluded(v) =>
          \/ Concluded(v)' /\ held'[v] = held[v]
          \/ Total'[held[v]] + slips[held[v]] + 1 <= Total[held[v]] + slips'[held[v]]
  BY <1>5, <1>7
<1>12. QED
  BY <1>6, <1>8, <1>9, <1>10, <1>11, OutcomeFrame

\* Every step keeps the accounting of outcomes.
LEMMA OutcomeStep ==
  ASSUME TypeInv, TypeInv', OutcomeInv, [Next]_vars
  PROVE  OutcomeInv'
<1> USE EntryFacts
<1>w. Worker = {"reader", "retrier"}
  BY DEF Worker
<1>t. TypeOK /\ TypeOK'
  BY DEF TypeInv
<1>s. \A e \in Entry : /\ slips[e] \in Nat /\ slips'[e] \in Nat /\ Total[e] \in Nat /\ Total'[e] \in Nat
                       /\ Outcomes[e] \in Nat /\ Outcomes'[e] \in Nat
  BY <1>t DEF TypeOK, Outcomes, Total, Owed
<1>n. \A E : Mishap(E) => /\ \A e \in Entry : slips'[e] >= slips[e]
                          /\ \A e \in Entry : e \in E => slips'[e] = slips[e] + 1
  BY MishapTyped DEF TypeInv
<1>h. \A w \in Worker : Busy(w) => held[w] \in Entry
  BY HeldFacts
<1>f. ASSUME UNCHANGED <<signals, alerts, pending, delivered>>,
             \A e \in Entry : slips'[e] >= slips[e],
             \A w \in Worker : Concluded(w)' <=> Concluded(w),
             \A w \in Worker : Concluded(w) => held'[w] = held[w],
             \A w \in Worker : \A e \in Entry : Owed(w, e)' = Owed(w, e)
      PROVE  OutcomeInv'
  <2>1. Outcomes' = Outcomes
    BY <1>f DEF Outcomes
  <2>2. \A e \in Entry : Total'[e] = Total[e]
    BY <1>f, <1>w, <2>1 DEF Total
  <2>3. /\ \A e \in Entry : Total'[e] + slips[e] <= Total[e] + slips'[e]
        /\ \A e \in Entry : Outcomes'[e] >= Outcomes[e]
    BY <1>f, <1>s, <2>1, <2>2
  <2>4. QED
    BY <1>f, <2>1, <2>3, OutcomeFrame
<1>g. ASSUME slips' = slips PROVE \A e \in Entry : slips'[e] >= slips[e]
  BY <1>g, <1>s
<1>v. ASSUME NEW w \in Worker, Failed(w) \/ Leave(w) \/ Take(w, None, "dead") \/ \E s : Move(w, s)
      PROVE  /\ \A v \in Worker \ {w} : step'[v] = step[v] /\ held'[v] = held[v] /\ late'[v] = late[v]
             /\ held'[w] \in {held[w], None}
  BY <1>v, <1>t DEF Failed, Leave, Take, Move, TypeOK
<1>o. ASSUME UNCHANGED <<signals, alerts>> PROVE Outcomes' = Outcomes
  BY <1>o DEF Outcomes
<1>1. CASE Publish
  <2>1. UNCHANGED <<signals, alerts, pending, delivered, step, held, late, slips>>
    BY <1>1 DEF Publish, workerVars, outcomeVars, mishapVars
  <2>2. QED
    BY <1>f, <1>g, <2>1 DEF Concluded, Owed, Owes
<1>2. CASE Read
  <2> DEFINE e == delivered + 1
  <2>1. /\ step["reader"] = "free" /\ pending' = pending \cup {e} /\ delivered' = e
        /\ UNCHANGED workerVars \/ Take("reader", e, "execute")
        /\ UNCHANGED <<outcomeVars, mishapVars>>
    BY <1>2 DEF Read
  <2>2. /\ delivered \in Nat /\ e \in Entry /\ 1..e = (1..delivered) \cup {e}
    <3>1. delivered \in Nat /\ last \in Nat /\ delivered < last /\ last <= MaxEntries
      BY <1>2, <1>t, EntryAssumption DEF Read, TypeOK
    <3>2. delivered + 1 \in 1..MaxEntries /\ 1..(delivered + 1) = (1..delivered) \cup {delivered + 1}
      BY <3>1, EntryAssumption
    <3>3. QED
      BY <3>1, <3>2 DEF Entry
  <2>3. Outcomes' = Outcomes /\ slips' = slips
    BY <2>1 DEF Outcomes, outcomeVars, mishapVars
  <2>4. /\ step'["retrier"] = step["retrier"] /\ held'["retrier"] = held["retrier"]
        /\ late'["retrier"] = late["retrier"]
        /\ step'["reader"] \in {"free", "execute"}
    BY <2>1, <1>w, <1>t DEF workerVars, Take, TypeOK
  <2>5. \A w \in Worker : /\ Concluded(w)' <=> Concluded(w)
                          /\ Concluded(w) => held'[w] = held[w]
                          /\ \A d \in Entry : Owed(w, d)' = Owed(w, d)
    BY <2>1, <2>4, <1>w DEF Concluded, Owed, Owes
  <2>6. \A d \in Entry : Total'[d] = Total[d]
    BY <2>3, <2>5, <1>w DEF Total
  <2>7. Outcomes[e] = 0
    BY <2>2 DEF OutcomeInv
  <2>8. Total[e] = 0
    <3>1. \A w \in Worker : Busy(w) => held[w] <= delivered /\ held[w] \in Nat
      BY HeldFacts
    <3>2. \A w \in Worker : Owed(w, e) = 0
      BY <2>2, <3>1 DEF Owed, Owes, Busy
    <3>3. QED
      BY <2>2, <2>7, <3>2, <1>w DEF Total
  <2>9. (\A w \in Worker : Concluded(w) => Outcomes[held[w]] > 0)'
    BY <2>3, <2>5 DEF OutcomeInv
  <2>10. ASSUME NEW d \in pending', \A w \in Worker : Concluded(w)' => held'[w] # d
         PROVE  Total'[d] <= slips'[d]
    <3>1. CASE d = e
      BY <2>2, <2>3, <2>6, <2>8, <3>1, <1>s
    <3>2. CASE d \in pending
      <4>1. d \in Entry
        BY <3>2, <1>t, DeliveredTyped
      <4>2. QED
        BY <2>3, <2>5, <2>6, <2>10, <3>2, <4>1 DEF OutcomeInv
    <3>3. QED
      BY <2>1, <3>1, <3>2
  <2>11. ASSUME NEW d \in Entry, d > delivered' PROVE Outcomes'[d] = 0
    <3>1. d > delivered
      BY <2>1, <2>2, <2>11
    <3>2. QED
      BY <2>3, <3>1 DEF OutcomeInv
  <2>12. NothingLost'
    BY <2>1, <2>2, <2>3 DEF OutcomeInv, NothingLost
  <2>13. (\A d \in Entry : Total[d] <= 1 + slips[d])'
    BY <2>3, <2>6 DEF OutcomeInv
  <2>14. QED
    BY <2>9, <2>10, <2>11, <2>12, <2>13 DEF OutcomeInv
<1>3. CASE Claim \/ NothingToClaim \/ CheckPending \/ CheckPendingFails
  <2>1. UNCHANGED <<signals, alerts, pending, delivered>> /\ (slips' = slips \/ Mishap({}))
    BY <1>3 DEF Claim, NothingToClaim, CheckPending, CheckPendingFails, queueVars, outcomeVars, mishapVars
  <2>2. \A e \in Entry : slips'[e] >= slips[e]
    BY <2>1, <1>g, <1>n
  <2>3. /\ step["retrier"] \in {"free", "check"} /\ step'["retrier"] \in {"free", "check", "execute"}
        /\ step'["reader"] = step["reader"] /\ held'["reader"] = held["reader"]
        /\ late'["reader"] = late["reader"]
    BY <1>3, <1>t, <1>w DEF Claim, NothingToClaim, CheckPending, CheckPendingFails, Ticked,
                            workerVars, Take, Leave, Move, TypeOK
  <2>4. \A w \in Worker : /\ Concluded(w)' <=> Concluded(w)
                          /\ Concluded(w) => held'[w] = held[w]
                          /\ \A e \in Entry : Owed(w, e)' = Owed(w, e)
    BY <2>3, <1>w DEF Concluded, Owed, Owes
  <2>5. QED
    BY <1>f, <2>1, <2>2, <2>4
<1>4. ASSUME NEW w \in Worker, Analyse(w) PROVE OutcomeInv'
  <2>1. /\ step[w] = "execute" /\ step'[w] = "store" /\ ~late[w] /\ late' = late /\ held' = held
        /\ \A v \in Worker \ {w} : step'[v] = step[v]
        /\ UNCHANGED <<signals, alerts, pending, delivered, slips>>
    BY <1>4, <1>t DEF Analyse, Move, queueVars, outcomeVars, mishapVars, TypeInv, TypeOK, WorkInv, Detached
  <2>2. QED
    BY <1>f, <1>g, <2>1 DEF Concluded, Owed, Owes
<1>5. ASSUME NEW w \in Worker, Store(w) PROVE OutcomeInv'
  <2>1. /\ step[w] = "store" /\ step'[w] \in {"notify", "ack"} /\ held' = held /\ late' = late
        /\ \A v \in Worker \ {w} : step'[v] = step[v]
        /\ UNCHANGED <<pending, delivered, slips>>
    BY <1>5, <1>t DEF Store, Move, queueVars, mishapVars, TypeOK
  <2>2. held[w] \in Entry /\ Busy(w)
    BY <1>h, <2>1 DEF Busy
  <2>d. PICK d \in Entry : d = held[w]
    BY <2>2
  <2>3. \A e \in Entry : Outcomes'[e] = IF e = d THEN Outcomes[e] + 1 ELSE Outcomes[e]
    BY <1>5, <1>t, <2>2, <2>d DEF Store, Stored, Outcomes, TypeOK
  <2>4. CASE ~late[w]
    <3>1. InTime(w) /\ ~Concluded(w) /\ Concluded(w)'
      BY <2>1, <2>4 DEF InTime, Working, Concluded
    <3>2. QED
      BY <2>1, <2>3, <3>1, OutcomeAdded, <2>d
  <2>5. CASE late[w]
    <3>1. /\ Owed(w, d) = 1 /\ Owed(w, d)' = 0 /\ ~Concluded(w) /\ ~Concluded(w)'
      BY <2>1, <2>5, <2>d DEF Owed, Owes, Concluded
    <3>2. /\ \A e \in Entry \ {d} : Outcomes'[e] = Outcomes[e] /\ slips'[e] >= slips[e]
          /\ Outcomes'[d] >= Outcomes[d]
          /\ Outcomes'[d] + Owed(w, d)' + slips[d]
               <= Outcomes[d] + Owed(w, d) + slips'[d]
      <4>1. \A e \in Entry : slips[e] \in Nat /\ Outcomes[e] \in Nat /\ slips'[e] = slips[e]
        BY <1>s, <2>1
      <4>2. Outcomes'[d] = Outcomes[d] + 1 /\ \A e \in Entry \ {d} : Outcomes'[e] = Outcomes[e]
        BY <2>3
      <4>3. /\ Outcomes'[d] >= Outcomes[d]
            /\ Outcomes'[d] + 0 + slips[d] <= Outcomes[d] + 1 + slips'[d]
        BY <4>1, <4>2
      <4>4. \A e \in Entry \ {d} : slips'[e] >= slips[e]
        BY <4>1
      <4>5. QED
        BY <3>1, <4>2, <4>3, <4>4
    <3>3. QED
      BY <2>1, <2>2, <3>1, <3>2, OutcomePaid, <2>d
  <2>6. QED
    BY <2>4, <2>5
<1>6. ASSUME NEW w \in Worker, ExecuteFails(w) PROVE OutcomeInv'
  <2>1. /\ step[w] \in {"execute", "store"} /\ Failed(w)
        /\ UNCHANGED <<signals, alerts, pending, delivered, slips>>
    BY <1>6 DEF ExecuteFails, queueVars, outcomeVars, mishapVars
  <2>2. held[w] \in Entry /\ Busy(w) /\ Outcomes' = Outcomes
    BY <1>h, <1>o, <2>1 DEF Busy
  <2>d. PICK d \in Entry : d = held[w]
    BY <2>2
  <2>3. /\ ~Concluded(w) /\ ~Concluded(w)' /\ Owed(w, d)' <= Owed(w, d)
        /\ Owed(w, d)' \in 0..1 /\ Owed(w, d) \in 0..1
    <3>1. CASE Move(w, "alert")
      <4>1. step'[w] = "alert" /\ late'[w] = late[w] /\ held' = held
        BY <3>1, <1>t DEF Move, TypeOK
      <4>2. late[w] => step[w] = "store"
        BY <2>1 DEF TypeInv, WorkInv, Detached
      <4>3. QED
        BY <2>1, <4>1, <4>2 DEF Concluded, Owed, Owes
    <3>2. CASE Leave(w)
      <4>1. step'[w] = "free"
        BY <3>2, <1>t DEF Leave, Take, TypeOK
      <4>2. QED
        BY <2>1, <4>1 DEF Concluded, Owed, Owes
    <3>3. QED
      BY <2>1, <3>1, <3>2 DEF Failed
  <2>4. /\ \A e \in Entry \ {d} : Outcomes'[e] = Outcomes[e] /\ slips'[e] >= slips[e]
        /\ Outcomes'[d] >= Outcomes[d]
        /\ Outcomes'[d] + Owed(w, d)' + slips[d]
             <= Outcomes[d] + Owed(w, d) + slips'[d]
    BY <1>s, <2>1, <2>2, <2>3, <2>d
  <2>5. QED
    BY <1>v, <2>1, <2>2, <2>3, <2>4, OutcomePaid, <2>d
<1>7. ASSUME NEW w \in Worker, StoreLost(w) PROVE OutcomeInv'
  <2>1. /\ step[w] = "store" /\ Failed(w) /\ Mishap({held[w]}) /\ Stored(w)
        /\ UNCHANGED <<alerts, pending, delivered>>
    BY <1>7 DEF StoreLost, queueVars
  <2>2. held[w] \in Entry /\ Busy(w)
    BY <1>h, <2>1 DEF Busy
  <2>d. PICK d \in Entry : d = held[w]
    BY <2>2
  <2>3. \A e \in Entry : Outcomes'[e] = IF e = d THEN Outcomes[e] + 1 ELSE Outcomes[e]
    BY <1>t, <2>1, <2>2, <2>d DEF Stored, Outcomes, TypeOK
  <2>4. /\ ~Concluded(w) /\ ~Concluded(w)' /\ Owed(w, d)' <= Owed(w, d)
        /\ Owed(w, d)' \in 0..1 /\ Owed(w, d) \in 0..1
    <3>1. CASE Move(w, "alert")
      <4>1. step'[w] = "alert" /\ late'[w] = late[w] /\ held' = held
        BY <3>1, <1>t DEF Move, TypeOK
      <4>2. QED
        BY <2>1, <4>1 DEF Concluded, Owed, Owes
    <3>2. CASE Leave(w)
      <4>1. step'[w] = "free"
        BY <3>2, <1>t DEF Leave, Take, TypeOK
      <4>2. QED
        BY <2>1, <4>1 DEF Concluded, Owed, Owes
    <3>3. QED
      BY <2>1, <3>1, <3>2 DEF Failed
  <2>5. /\ \A e \in Entry \ {d} : Outcomes'[e] = Outcomes[e] /\ slips'[e] >= slips[e]
        /\ Outcomes'[d] >= Outcomes[d]
        /\ Outcomes'[d] + Owed(w, d)' + slips[d]
             <= Outcomes[d] + Owed(w, d) + slips'[d]
    <3>1. slips'[d] = slips[d] + 1 /\ \A e \in Entry : slips'[e] >= slips[e]
      BY <1>n, <2>1, <2>2, <2>d
    <3>2. QED
      BY <1>s, <2>2, <2>3, <2>4, <3>1
  <2>6. QED
    BY <1>v, <2>1, <2>2, <2>4, <2>5, OutcomePaid, <2>d
<1>8. ASSUME NEW w \in Worker, Send(w) PROVE OutcomeInv'
  <2>1. /\ step[w] \in {"notify", "alert"} /\ step'[w] = "ack" /\ held' = held /\ late' = late
        /\ \A v \in Worker \ {w} : step'[v] = step[v]
        /\ UNCHANGED <<signals, pending, delivered, slips>>
    BY <1>8, <1>t DEF Send, Move, queueVars, mishapVars, TypeOK
  <2>2. held[w] \in Entry /\ Busy(w)
    BY <1>h, <2>1 DEF Busy
  <2>d. PICK d \in Entry : d = held[w]
    BY <2>2
  <2>3. CASE step[w] = "notify"
    <3>1. alerts' = alerts
      BY <1>8, <2>3 DEF Send
    <3>2. QED
      BY <1>f, <1>g, <2>1, <2>3, <3>1 DEF Concluded, Owed, Owes
  <2>4. CASE step[w] = "alert"
    <3>1. \A e \in Entry : Outcomes'[e] = IF e = d THEN Outcomes[e] + 1 ELSE Outcomes[e]
      BY <1>8, <1>t, <2>1, <2>2, <2>4, <2>d DEF Send, Outcomes, TypeOK
    <3>2. CASE ~late[w]
      <4>1. InTime(w) /\ ~Concluded(w) /\ Concluded(w)'
        BY <2>1, <2>4, <3>2 DEF InTime, Working, Concluded
      <4>2. QED
        BY <2>1, <3>1, <4>1, OutcomeAdded, <2>d
    <3>3. CASE late[w]
      <4>1. /\ Owed(w, d) = 1 /\ Owed(w, d)' = 0 /\ ~Concluded(w) /\ ~Concluded(w)'
        BY <2>1, <2>4, <3>3, <2>d DEF Owed, Owes, Concluded
      <4>2. /\ \A e \in Entry \ {d} : Outcomes'[e] = Outcomes[e] /\ slips'[e] >= slips[e]
            /\ Outcomes'[d] >= Outcomes[d]
            /\ Outcomes'[d] + Owed(w, d)' + slips[d]
                 <= Outcomes[d] + Owed(w, d) + slips'[d]
        BY <1>s, <2>1, <2>2, <3>1, <4>1, <2>d
      <4>3. QED
        BY <2>1, <2>2, <4>1, <4>2, OutcomePaid, <2>d
    <3>4. QED
      BY <3>2, <3>3
  <2>5. QED
    BY <2>1, <2>3, <2>4
<1>9. ASSUME NEW w \in Worker, Expire(w) PROVE OutcomeInv'
  <2>1. /\ step[w] \in {"store", "notify", "alert"} /\ ~late[w] /\ late'[w] = TRUE
        /\ Mishap({held[w]})
        /\ \A v \in Worker \ {w} : late'[v] = late[v]
        /\ UNCHANGED <<step, held, signals, alerts, pending, delivered>>
    BY <1>9, <1>t DEF Expire, Detached, queueVars, outcomeVars, TypeOK
  <2>2. held[w] \in Entry /\ Busy(w) /\ Outcomes' = Outcomes
    BY <1>h, <1>o, <2>1 DEF Busy
  <2>d. PICK d \in Entry : d = held[w]
    BY <2>2
  <2>3. slips'[d] = slips[d] + 1 /\ \A e \in Entry : slips'[e] >= slips[e]
    BY <1>n, <2>1, <2>2, <2>d
  <2>4. CASE step[w] = "notify"
    <3>1. Owed(w, d) = 0 /\ Owed(w, d)' = 0 /\ ~Concluded(w)'
      BY <2>1, <2>4, <2>d DEF Owed, Owes, Concluded
    <3>2. /\ Outcomes'[d] + Owed(w, d)' + slips[d] <= Outcomes[d] + Owed(w, d) + slips'[d]
          /\ Outcomes'[d] + Owed(w, d)' + slips[d] + 1 <= Outcomes[d] + Owed(w, d) + slips'[d]
      BY <1>s, <2>2, <2>3, <3>1, <2>d
    <3>3. Outcomes'[d] >= Outcomes[d]
      BY <1>s, <2>2, <2>d
    <3>4. QED
      BY <2>1, <2>2, <2>3, <3>1, <3>2, <3>3, OutcomePaid, <2>d
  <2>5. CASE step[w] # "notify"
    <3>1. Owed(w, d) = 0 /\ Owed(w, d)' = 1 /\ ~Concluded(w)' /\ ~Concluded(w)
      BY <2>1, <2>5, <2>d DEF Owed, Owes, Concluded
    <3>2. Outcomes'[d] + Owed(w, d)' + slips[d]
            <= Outcomes[d] + Owed(w, d) + slips'[d]
      BY <1>s, <2>2, <2>3, <3>1, <2>d
    <3>3. Outcomes'[d] >= Outcomes[d]
      BY <1>s, <2>2, <2>d
    <3>4. QED
      BY <2>1, <2>2, <2>3, <3>1, <3>2, <3>3, OutcomePaid, <2>d
  <2>6. QED
    BY <2>4, <2>5
<1>10. ASSUME NEW w \in Worker, Ack(w) PROVE OutcomeInv'
  <2>1. /\ step[w] = "ack" /\ step' = [step EXCEPT ![w] = "del"] /\ held' = held /\ ~late[w]
        /\ late' = late /\ pending' = pending \ {held[w]} /\ delivered' = delivered
        /\ Outcomes' = Outcomes /\ slips' = slips
    BY <1>10 DEF Ack, Move, outcomeVars, mishapVars, Outcomes
  <2>2. Outcomes[held[w]] > 0
    BY <2>1 DEF Concluded, OutcomeInv
  <2>3. \A v \in Worker : Concluded(v)' => Concluded(v)
    BY <2>1, <1>t DEF Concluded, TypeOK
  <2>4. \A v \in Worker : Concluded(v) /\ v # w => Concluded(v)'
    BY <2>1, <1>t DEF Concluded, TypeOK
  <2>5. \A v \in Worker : \A e \in Entry : Owed(v, e)' = Owed(v, e)
    BY <2>1, <1>t DEF Owed, Owes, TypeOK
  <2>6. \A e \in Entry : Total'[e] = Total[e]
    BY <2>1, <2>5, <1>w DEF Total
  <2>7. (\A v \in Worker : Concluded(v) => Outcomes[held[v]] > 0)'
    BY <2>1, <2>3 DEF OutcomeInv
  <2>8. ASSUME NEW e \in pending', \A v \in Worker : Concluded(v)' => held'[v] # e
        PROVE  Total'[e] <= slips'[e]
    <3>1. e \in pending /\ e \in Entry
      BY <2>1, <1>t, DeliveredTyped
    <3>2. QED
      BY <2>1, <2>4, <2>6, <2>8, <3>1 DEF OutcomeInv
  <2>9. (\A e \in Entry : e > delivered => Outcomes[e] = 0)'
    BY <2>1 DEF OutcomeInv
  <2>10. (\A e \in Entry : Total[e] <= 1 + slips[e])'
    BY <2>1, <2>6 DEF OutcomeInv
  <2>11. NothingLost'
    BY <2>1, <2>2 DEF OutcomeInv, NothingLost
  <2>12. QED
    BY <2>7, <2>8, <2>9, <2>10, <2>11 DEF OutcomeInv
<1>l. ASSUME NEW w \in Worker, Busy(w), step'[w] \in {"free", "dead"},
             \A v \in Worker \ {w} : step'[v] = step[v] /\ held'[v] = held[v] /\ late'[v] = late[v],
             held'[w] \in {held[w], None},
             UNCHANGED <<signals, alerts, pending, delivered>>,
             \/ slips' = slips /\ ~Concluded(w)
             \/ Mishap({held[w]})
      PROVE  OutcomeInv'
  <2>1. held[w] \in Entry /\ Outcomes' = Outcomes
    BY <1>h, <1>l, <1>o
  <2>d. PICK d \in Entry : d = held[w]
    BY <2>1
  <2>2. \A e \in Entry : slips'[e] >= slips[e]
    BY <1>g, <1>l, <1>n
  <2>3. ~Concluded(w)' /\ Owed(w, d)' = 0 /\ Owed(w, d) \in 0..1
    BY <1>l, <2>d DEF Concluded, Owed, Owes
  <2>4. Outcomes'[d] >= Outcomes[d]
    BY <1>s, <2>1, <2>d
  <2>5. CASE ~Concluded(w)
    <3>1. Outcomes'[d] + Owed(w, d)' + slips[d]
            <= Outcomes[d] + Owed(w, d) + slips'[d]
      BY <1>s, <2>1, <2>2, <2>3, <2>d
    <3>2. QED
      BY <1>l, <2>1, <2>2, <2>3, <2>4, <2>5, <3>1, OutcomePaid, <2>d
  <2>6. CASE Concluded(w)
    <3>1. slips'[d] = slips[d] + 1
      BY <1>l, <1>n, <2>1, <2>6, <2>d
    <3>2. /\ Outcomes'[d] + Owed(w, d)' + slips[d] <= Outcomes[d] + Owed(w, d) + slips'[d]
          /\ Outcomes'[d] + Owed(w, d)' + slips[d] + 1 <= Outcomes[d] + Owed(w, d) + slips'[d]
      BY <1>s, <2>1, <2>3, <3>1, <2>d
    <3>3. QED
      BY <1>l, <2>1, <2>2, <2>3, <2>4, <3>2, OutcomePaid, <2>d
  <2>7. QED
    BY <2>5, <2>6
<1>11. ASSUME NEW w \in Worker, Del(w) PROVE OutcomeInv'
  <2>1. /\ step[w] = "del" /\ Leave(w) /\ UNCHANGED <<signals, alerts, pending, delivered, slips>>
    BY <1>11 DEF Del, outcomeVars, mishapVars
  <2>2. step'[w] = "free" /\ Busy(w) /\ ~Concluded(w)
    BY <2>1, <1>t DEF Leave, Take, TypeOK, Busy, Concluded
  <2>3. QED
    BY <1>l, <1>v, <2>1, <2>2
<1>12. ASSUME NEW w \in Worker, AckNDelFails(w) PROVE OutcomeInv'
  <2>1. /\ step[w] \in {"ack", "del"} /\ Leave(w) /\ UNCHANGED <<signals, alerts, pending, delivered>>
        /\ (late[w] /\ slips' = slips) \/ Mishap({held[w]})
    BY <1>12 DEF AckNDelFails, queueVars, outcomeVars, mishapVars
  <2>2. step'[w] = "free" /\ Busy(w) /\ (late[w] => ~Concluded(w))
    BY <2>1, <1>t DEF Leave, Take, TypeOK, Busy, Concluded
  <2>3. QED
    BY <1>l, <1>v, <2>1, <2>2
<1>13. ASSUME NEW w \in Worker, Panic(w) PROVE OutcomeInv'
  <2>1. /\ Busy(w) /\ Take(w, None, "dead") /\ Mishap({held[w]})
        /\ UNCHANGED <<signals, alerts, pending, delivered>>
    BY <1>13 DEF Panic, Detached, Busy, queueVars, outcomeVars
  <2>2. step'[w] = "dead"
    BY <2>1, <1>t DEF Take, TypeOK
  <2>3. QED
    BY <1>l, <1>v, <2>1, <2>2
<1>14. CASE Crash
  <2> DEFINE E == {held[w] : w \in Worker}
  <2>1. Mishap(E) /\ UNCHANGED <<signals, alerts, pending, delivered>>
    BY <1>14 DEF Crash, queueVars, outcomeVars
  <2>2. \A w \in Worker : step'[w] = "free"
    BY <1>14 DEF Crash
  <2>3. \A w \in Worker : ~Concluded(w)' /\ ~Owes(w)'
    BY <2>2 DEF Concluded, Owes
  <2>4. \A w \in Worker : Concluded(w) => held[w] \in Entry /\ slips'[held[w]] = slips[held[w]] + 1
    BY <2>1, <1>n, HeldFacts
  <2>5. Outcomes' = Outcomes /\ \A e \in Entry : slips'[e] >= slips[e]
    BY <2>1, <1>n, <1>o
  <2>6. \A e \in Entry : Total'[e] <= Total[e]
    <3>1. \A e \in Entry : Total'[e] = Outcomes[e]
      BY <1>s, <2>3, <2>5, <1>w DEF Total, Owed
    <3>2. QED
      BY <3>1, <1>t, OutcomesTyped
  <2>7. /\ \A e \in Entry : Total'[e] + slips[e] <= Total[e] + slips'[e]
        /\ \A e \in Entry : Outcomes'[e] >= Outcomes[e]
    BY <1>s, <2>5, <2>6
  <2>8. \A w \in Worker : Concluded(w) =>
           Total'[held[w]] + slips[held[w]] + 1 <= Total[held[w]] + slips'[held[w]]
    <3>1. \A e \in Entry : slips'[e] = slips[e] + 1 => Total'[e] + slips[e] + 1 <= Total[e] + slips'[e]
      BY <1>s, <2>6
    <3>2. QED
      BY <2>4, <3>1
  <2>9. QED
    BY <2>1, <2>3, <2>5, <2>7, <2>8, OutcomeFrame
<1>15. CASE Tick \/ UNCHANGED vars
  <2>1. UNCHANGED <<signals, alerts, pending, delivered, step, held, late, slips>>
    BY <1>15 DEF Tick, vars, queueVars, workerVars, outcomeVars, mishapVars
  <2>2. QED
    BY <1>f, <1>g, <2>1 DEF Concluded, Owed, Owes
<1>16. QED
  BY <1>1, <1>2, <1>3, <1>4, <1>5, <1>6, <1>7, <1>8, <1>9, <1>10, <1>11, <1>12, <1>13, <1>14,
     <1>15 DEF Next, Retry, Advance

-----------------------------------------------------------------------------

LEMMA Always == Spec => []IInv
<1>1. Init => IInv
  BY TypeInit, OutcomeInit DEF IInv
<1>2. IInv /\ [Next]_vars => IInv'
  <2> SUFFICES ASSUME IInv, [Next]_vars PROVE IInv'
    OBVIOUS
  <2>1. TypeInv'
    BY TypeStep, WorkStep DEF IInv, TypeInv
  <2>2. OutcomeInv'
    BY <2>1, OutcomeStep DEF IInv
  <2>3. QED
    BY <2>1, <2>2 DEF IInv
<1>3. QED
  BY <1>1, <1>2, PTL DEF Spec

\* No entry is acknowledged before its signal was stored or its alert tried,
\* through crashes, panics and calls that fail or hang.
THEOREM EntriesAreNotLost == Spec => []NothingLost
<1>1. IInv => NothingLost
  BY DEF IInv, OutcomeInv
<1>2. QED
  BY <1>1, Always, PTL

\* An entry has one signal or alert, and one more for each mishap at most: late
\* workers that share it, lost replies and crashes included.
THEOREM OutcomesAreCounted == Spec => []OneOutcome
<1>1. IInv => OneOutcome
  <2> SUFFICES ASSUME IInv, NEW e \in Entry PROVE Outcomes[e] <= 1 + slips[e]
    BY DEF OneOutcome
  <2>1. TypeOK /\ Total[e] <= 1 + slips[e]
    BY DEF IInv, TypeInv, OutcomeInv
  <2>2. QED
    BY <2>1, OutcomesTyped
<1>2. QED
  BY <1>1, Always, PTL

-----------------------------------------------------------------------------
(* The refinement of DeliveryQueue.                                        *)

QueueState == [e \in Entry |-> State(e)]

\* The state of an entry, by where it is.
LEMMA StateCases ==
  ASSUME TypeOK, NEW e \in Entry
  PROVE  /\ e > last => QueueState[e] = "absent"
         /\ e > delivered /\ e <= last => QueueState[e] = "queued"
         /\ e \in pending => QueueState[e] = IF Outcomes[e] > 0 THEN "handled" ELSE "pending"
         /\ e <= delivered /\ e \notin pending => QueueState[e] = "settled"
<1>1. e \in Nat /\ last \in Nat /\ delivered \in Nat /\ delivered <= last
      /\ \A d \in pending : d \in 1..delivered
  BY EntryFacts, EntryAssumption DEF TypeOK
<1>2. QueueState[e] = State(e)
  BY DEF QueueState
<1>3. QED
  BY <1>1, <1>2 DEF State

LEMMA StateDomain == QueueState = [e \in Entry |-> QueueState[e]] /\ DOMAIN QueueState = Entry
BY DEF QueueState

\* A step that leaves the queue and the outcomes alone is a stutter.
LEMMA QueueSame ==
  ASSUME UNCHANGED <<last, delivered, pending>>, Outcomes' = Outcomes
  PROVE  QueueState' = QueueState
BY DEF QueueState, State

\* A step that changes the state of one entry.
LEMMA QueueChange ==
  ASSUME NEW d \in Entry, \A e \in Entry \ {d} : QueueState'[e] = QueueState[e],
         NEW s, QueueState'[d] = s
  PROVE  QueueState' = [QueueState EXCEPT ![d] = s]
<1>1. QueueState' = [e \in Entry |-> QueueState'[e]]
  BY DEF QueueState
<1>2. QueueState = [e \in Entry |-> QueueState[e]]
  BY StateDomain
<1>3. QED
  BY <1>1, <1>2

\* An outcome handles the entry, unless it was already; the one of a late
\* worker may come when the entry is settled.
LEMMA QueueHandled ==
  ASSUME TypeOK, TypeOK', NEW d \in Entry, d <= delivered,
         UNCHANGED <<last, delivered, pending>>,
         \A e \in Entry : Outcomes'[e] = IF e = d THEN Outcomes[e] + 1 ELSE Outcomes[e]
  PROVE  [Queue!Next]_QueueState
<1>1. Outcomes[d] \in Nat
  BY OutcomesTyped
<1>2. \A e \in Entry \ {d} : QueueState'[e] = QueueState[e]
  BY DEF QueueState, State
<1>3. d <= delivered' /\ delivered' <= last' /\ d \in Nat /\ delivered' \in Nat /\ last' \in Nat
  BY EntryFacts, EntryAssumption DEF TypeOK
<1>4. QueueState'[d] = State(d)'
  BY DEF QueueState
<1>5. CASE d \notin pending
  <2>1. QueueState[d] = "settled"
    BY <1>5, StateCases
  <2>2. QueueState'[d] = "settled"
    BY <1>3, <1>4, <1>5 DEF State
  <2>3. QueueState' = [QueueState EXCEPT ![d] = "settled"]
    BY <1>2, <2>2, QueueChange
  <2>4. QED
    BY <2>1, <2>3, StateDomain
<1>6. CASE d \in pending
  <2>1. d \in pending' /\ Outcomes'[d] > 0
    BY <1>1, <1>6
  <2>2. QueueState'[d] = "handled"
    BY <1>3, <1>4, <2>1 DEF State
  <2>3. QueueState' = [QueueState EXCEPT ![d] = "handled"]
    BY <1>2, <2>2, QueueChange
  <2>4. CASE Outcomes[d] > 0
    <3>1. QueueState[d] = "handled"
      BY <1>6, <2>4, StateCases
    <3>2. QED
      BY <2>3, <3>1, StateDomain
  <2>5. CASE Outcomes[d] = 0
    <3>1. QueueState[d] = "pending"
      BY <1>6, <2>5, StateCases
    <3>2. Queue!Handle(d)
      BY <2>3, <3>1 DEF Queue!Handle, Queue!Change, QueueState
    <3>3. QED
      BY <3>2 DEF Queue!Next
  <2>6. QED
    BY <1>1, <2>4, <2>5
<1>7. QED
  BY <1>5, <1>6

LEMMA QueueInit == Init => Queue!Init
<1> SUFFICES ASSUME Init PROVE QueueState = [e \in Entry |-> "absent"]
  BY DEF Queue!Init, QueueState
<1>1. TypeOK /\ \A e \in Entry : e > last
  BY EntryAssumption, TypeInit DEF Init, Entry, TypeInv
<1>2. \A e \in Entry : QueueState[e] = "absent"
  BY <1>1, StateCases
<1>3. QED
  BY <1>2, StateDomain

LEMMA QueueStep == IInv /\ TypeInv' /\ [Next]_vars => [Queue!Next]_QueueState
<1> SUFFICES ASSUME IInv, TypeInv', [Next]_vars PROVE [Queue!Next]_QueueState
  OBVIOUS
<1> USE EntryFacts
<1>t. TypeOK /\ TypeOK' /\ WorkInv /\ OutcomeInv
  BY DEF IInv, TypeInv
<1>n. last \in Nat /\ delivered \in Nat /\ last <= MaxEntries /\ MaxEntries \in Nat /\ delivered <= last
  BY <1>t, EntryAssumption DEF TypeOK
<1>1. CASE Publish
  <2> PICK d \in Entry : d = last + 1
    BY <1>1, <1>n DEF Publish, Entry
  <2>1. /\ d \in Entry /\ last' = d /\ UNCHANGED <<delivered, pending>> /\ Outcomes' = Outcomes
    BY <1>1, <1>n DEF Publish, Entry, Outcomes, outcomeVars
  <2>2. QueueState[d] = "absent"
    BY <1>n, <1>t, <2>1, StateCases
  <2>3. QueueState'[d] = "queued"
    <3>1. ~(d > last') /\ d \in (delivered' + 1)..last'
      BY <1>n, <2>1
    <3>2. QueueState'[d] = State(d)'
      BY <2>1 DEF QueueState
    <3>3. d \notin pending'
      BY <1>n, <1>t, <2>1 DEF TypeOK
    <3>4. QED
      BY <3>1, <3>2, <3>3 DEF State
  <2>4. \A e \in Entry \ {d} : QueueState'[e] = QueueState[e]
    BY <1>n, <2>1 DEF QueueState, State
  <2>5. QueueState' = [QueueState EXCEPT ![d] = "queued"]
    BY <2>1, <2>3, <2>4, QueueChange
  <2>6. Queue!Publish(d)
    BY <2>2, <2>5 DEF Queue!Publish, Queue!Change, QueueState
  <2>7. QED
    BY <2>1, <2>6 DEF Queue!Next
<1>2. CASE Read
  <2> DEFINE d == delivered + 1
  <2>1. /\ d \in Entry /\ d <= last /\ delivered' = d /\ last' = last /\ pending' = pending \cup {d}
        /\ Outcomes' = Outcomes
    BY <1>2, <1>n DEF Read, Entry, Outcomes, outcomeVars
  <2>2. QueueState[d] = "queued"
    BY <1>n, <1>t, <2>1, StateCases
  <2>3. Outcomes[d] = 0
    BY <1>n, <1>t, <2>1 DEF OutcomeInv
  <2>4. QueueState'[d] = "pending"
    BY <1>n, <2>1, <2>3 DEF QueueState, State
  <2>5. \A e \in Entry \ {d} : QueueState'[e] = QueueState[e]
    BY <1>n, <2>1 DEF QueueState, State
  <2>6. QueueState' = [QueueState EXCEPT ![d] = "pending"]
    BY <2>1, <2>4, <2>5, QueueChange
  <2>7. ASSUME NEW e \in Entry, e < d PROVE QueueState[e] # "queued"
    <3>1. e <= delivered /\ e \in Nat
      BY <1>n, <2>7
    <3>2. QED
      BY <1>t, <3>1, StateCases
  <2>8. Queue!Deliver(d)
    BY <2>2, <2>6, <2>7 DEF Queue!Deliver, Queue!Change, QueueState
  <2>9. QED
    BY <2>1, <2>8 DEF Queue!Next
<1>3. CASE UNCHANGED <<last, delivered, pending>> /\ Outcomes' = Outcomes
  BY <1>3, QueueSame
<1>4. CASE Claim \/ NothingToClaim \/ CheckPending \/ CheckPendingFails \/ Crash \/ Tick \/ UNCHANGED vars
  BY <1>3, <1>4 DEF Claim, NothingToClaim, CheckPending, CheckPendingFails, Crash, Tick, vars,
                    queueVars, outcomeVars, Outcomes
<1>5. ASSUME NEW w \in Worker, Store(w) \/ StoreLost(w) PROVE [Queue!Next]_QueueState
  <2>1. UNCHANGED <<last, delivered, pending, alerts>> /\ Stored(w) /\ Busy(w)
    BY <1>5 DEF Store, StoreLost, Busy, queueVars
  <2>2. held[w] \in Entry /\ held[w] <= delivered
    BY <2>1, HeldFacts DEF IInv
  <2>3. \A e \in Entry : Outcomes'[e] = IF e = held[w] THEN Outcomes[e] + 1 ELSE Outcomes[e]
    BY <1>t, <2>1, <2>2 DEF Stored, Outcomes, TypeOK
  <2>4. QED
    BY <1>t, <2>1, <2>2, <2>3, QueueHandled
<1>6. ASSUME NEW w \in Worker, Send(w) PROVE [Queue!Next]_QueueState
  <2>1. UNCHANGED <<last, delivered, pending, signals>> /\ Busy(w)
    BY <1>6 DEF Send, Busy, queueVars
  <2>2. held[w] \in Entry /\ held[w] <= delivered
    BY <2>1, HeldFacts DEF IInv
  <2>3. CASE step[w] = "alert"
    <3>1. \A e \in Entry : Outcomes'[e] = IF e = held[w] THEN Outcomes[e] + 1 ELSE Outcomes[e]
      BY <1>6, <1>t, <2>1, <2>2, <2>3 DEF Send, Outcomes, TypeOK
    <3>2. QED
      BY <1>t, <2>1, <2>2, <3>1, QueueHandled
  <2>4. CASE step[w] # "alert"
    BY <1>3, <1>6, <2>1, <2>4 DEF Send, Outcomes
  <2>5. QED
    BY <2>3, <2>4
<1>7. ASSUME NEW w \in Worker, Ack(w) PROVE [Queue!Next]_QueueState
  <2>1. /\ step[w] = "ack" /\ pending' = pending \ {held[w]} /\ UNCHANGED <<last, delivered>>
        /\ Outcomes' = Outcomes
    BY <1>7 DEF Ack, outcomeVars, Outcomes
  <2>2. held[w] \in Entry /\ held[w] \in pending /\ Outcomes[held[w]] > 0
    <3>1. step[w] = "ack" /\ ~late[w]
      BY <1>7 DEF Ack
    <3>2. QED
      BY <1>t, <3>1, HeldFacts DEF WorkInv, InTime, Working, Busy, Concluded, OutcomeInv, IInv
  <2>3. QueueState[held[w]] = "handled"
    BY <1>t, <2>2, StateCases
  <2>4. held[w] <= delivered /\ held[w] \in Nat
    <3>1. held[w] \in 1..delivered
      BY <1>t, <2>2 DEF TypeOK
    <3>2. QED
      BY <1>n, <3>1
  <2>5. QueueState'[held[w]] = "settled"
    BY <1>n, <2>1, <2>2, <2>4 DEF QueueState, State
  <2>6. \A e \in Entry \ {held[w]} : QueueState'[e] = QueueState[e]
    BY <2>1 DEF QueueState, State
  <2>7. QueueState' = [QueueState EXCEPT ![held[w]] = "settled"]
    BY <2>2, <2>5, <2>6, QueueChange
  <2>8. Queue!Settle(held[w])
    BY <2>3, <2>7 DEF Queue!Settle, Queue!Change, QueueState
  <2>9. QED
    BY <2>2, <2>8 DEF Queue!Next
<1>8. ASSUME NEW w \in Worker,
             Analyse(w) \/ ExecuteFails(w) \/ Expire(w) \/ Del(w) \/ AckNDelFails(w) \/ Panic(w)
      PROVE  [Queue!Next]_QueueState
  BY <1>3, <1>8 DEF Analyse, ExecuteFails, Expire, Del, AckNDelFails, Panic, queueVars, outcomeVars, Outcomes
<1>9. QED
  BY <1>1, <1>2, <1>4, <1>5, <1>6, <1>7, <1>8 DEF Next, Retry, Advance

\* The stream with its two goroutines implements DeliveryQueue: entries are
\* delivered in order and settled only once they were handled.
THEOREM ImplementsDeliveryQueue == Spec => QueueSpec
<1>1. IInv /\ IInv' /\ [Next]_vars => [Queue!Next]_QueueState
  BY QueueStep DEF IInv
<1>2. QED
  BY <1>1, QueueInit, Always, PTL DEF Spec, QueueSpec, Queue!Spec, QueueState

-----------------------------------------------------------------------------
(* The retries of an entry.                                                *)
(*                                                                         *)
(* The delivery count bounds them: an entry that was delivered c times has *)
(* failed in c - 1 retries at most, and none that fails with the limit     *)
(* reached stays pending.  While it is retried, one more is allowed; when  *)
(* the context ends in the middle, the mishap pays for that one.           *)

Bounded(n) ==
  IF n < 0 \/ MaxRetry <= 3 THEN 0 ELSE IF n > MaxRetry - 3 THEN MaxRetry - 3 ELSE n

Trying == step["retrier"] \in {"execute", "store", "notify", "alert", "ack"} /\ ~late["retrier"]

Allowed ==
  [e \in Entry |->
     IF held["retrier"] = e /\ Trying THEN Bounded(count[e] - 2) + 1
     ELSE IF held["retrier"] = e /\ Working("retrier") THEN Bounded(count[e] - 2)
     ELSE Bounded(count[e] - 1)]

Limit == IF MaxRetry > 3 THEN MaxRetry - 2 ELSE 1

TryInv ==
  /\ \A e \in pending : count[e] >= 1
  /\ Working("retrier") => count[held["retrier"]] >= 2 \/ count[held["retrier"]] = MaxRetry
  /\ \A e \in pending : tries[e] <= slips[e] + Allowed[e]
  /\ \A e \in Entry : e > delivered => tries[e] = 0
  /\ \A e \in Entry : tries[e] <= slips[e] + Limit

LEMMA BoundedFacts ==
  /\ Limit \in Nat
  /\ \A n \in Int : /\ Bounded(n) \in Nat /\ Bounded(n) + 1 <= Limit
                    /\ Bounded(n - 1) <= Bounded(n)
                    /\ Bounded(n) <= Bounded(n - 1) + 1
                    /\ n >= 0 /\ n + 1 <= MaxRetry - 3 => Bounded(n + 1) = Bounded(n) + 1
                    /\ n >= MaxRetry - 3 => Bounded(n + 1) = Bounded(n)
BY EntryAssumption DEF Bounded, Limit

LEMMA AllowedNat ==
  ASSUME TypeOK
  PROVE  \A e \in Entry : Allowed[e] \in Nat /\ tries[e] \in Nat /\ slips[e] \in Nat /\ count[e] \in 0..MaxRetry
<1>1. \A e \in Entry : tries[e] \in Nat /\ slips[e] \in Nat /\ count[e] \in 0..MaxRetry
  BY DEF TypeOK
<1>2. \A e \in Entry : count[e] - 1 \in Int /\ count[e] - 2 \in Int
  BY <1>1, EntryAssumption
<1>3. \A e \in Entry : Bounded(count[e] - 1) \in Nat /\ Bounded(count[e] - 2) \in Nat
  BY <1>2, BoundedFacts
<1>4. QED
  BY <1>1, <1>3 DEF Allowed

\* A step without a retry, after which no entry may be retried less often.
LEMMA TryFrame ==
  ASSUME TypeOK, TypeOK', TryInv, UNCHANGED <<tries, delivered, count>>, pending' \subseteq pending,
         Working("retrier")' => Working("retrier") /\ held'["retrier"] = held["retrier"],
         \A e \in Entry : slips'[e] >= slips[e],
         \A e \in pending' : slips'[e] + Allowed'[e] >= slips[e] + Allowed[e]
  PROVE  TryInv'
<1>1. \A e \in Entry : Allowed[e] \in Nat /\ tries[e] \in Nat /\ slips[e] \in Nat
  BY AllowedNat
<1>2. \A e \in Entry : Allowed'[e] \in Nat
  <2>1. Allowed' \in [Entry -> Nat]
    <3>1. \A e \in Entry : count'[e] - 1 \in Int /\ count'[e] - 2 \in Int
      BY EntryAssumption DEF TypeOK
    <3>2. \A e \in Entry : Bounded(count'[e] - 1) \in Nat /\ Bounded(count'[e] - 2) \in Nat
      BY <3>1, BoundedFacts
    <3>3. QED
      BY <3>2 DEF Allowed
  <2>2. QED
    BY <2>1
<1>3. \A e \in Entry : slips'[e] \in Nat
  BY DEF TypeOK
<1>4. pending \subseteq Entry /\ Limit \in Nat
  BY DeliveredTyped, BoundedFacts
<1>5. ASSUME NEW e \in pending' PROVE tries'[e] <= slips'[e] + Allowed'[e]
  <2>1. e \in Entry /\ tries[e] <= slips[e] + Allowed[e]
    BY <1>4 DEF TryInv
  <2>2. slips'[e] + Allowed'[e] >= slips[e] + Allowed[e]
    OBVIOUS
  <2>3. QED
    BY <1>1, <1>2, <1>3, <2>1, <2>2
<1>6. ASSUME NEW e \in Entry PROVE tries'[e] <= slips'[e] + Limit
  <2>1. tries[e] <= slips[e] + Limit /\ slips'[e] >= slips[e]
    BY DEF TryInv
  <2>2. QED
    BY <1>1, <1>3, <1>4, <2>1
<1>7. Working("retrier")' => count'[held'["retrier"]] >= 2 \/ count'[held'["retrier"]] = MaxRetry
  BY DEF TryInv
<1>8. QED
  BY <1>5, <1>6, <1>7 DEF TryInv

\* The retrier stays where it is, or goes on with its entry.
LEMMA RetrierStays ==
  ASSUME TypeOK, TypeOK', TryInv, UNCHANGED <<tries, delivered, count>>, pending' \subseteq pending,
         held'["retrier"] = held["retrier"],
         Trying' <=> Trying, Working("retrier")' <=> Working("retrier"),
         \A e \in Entry : slips'[e] >= slips[e]
  PROVE  TryInv'
<1>1. Working("retrier")' => Working("retrier")
  OBVIOUS
<1>2. Allowed' = Allowed
  BY DEF Allowed
<1>3. \A e \in Entry : slips'[e] + Allowed'[e] >= slips[e] + Allowed[e]
  <2>1. \A e \in Entry : Allowed[e] \in Nat /\ slips[e] \in Nat /\ slips'[e] \in Nat
    BY AllowedNat DEF TypeOK
  <2>2. QED
    BY <1>2, <2>1
<1>4. pending' \subseteq Entry
  BY DeliveredTyped
<1>5. QED
  BY <1>1, <1>3, <1>4, TryFrame

\* The retrier leaves its entry: it is allowed a retry less, or a mishap more.
LEMMA RetrierLeaves ==
  ASSUME TypeOK, TypeOK', TryInv, UNCHANGED <<tries, delivered, count>>, pending' \subseteq pending,
         ~Working("retrier")',
         \A e \in Entry : slips'[e] >= slips[e],
         \A e \in pending' : Working("retrier") /\ held["retrier"] = e =>
            slips'[e] + Bounded(count[e] - 1) >= slips[e] + Allowed[e]
  PROVE  TryInv'
<1>1. \A e \in Entry : Allowed'[e] = Bounded(count[e] - 1)
  BY DEF Allowed, Working, Trying
<1>2. \A e \in Entry : ~(Working("retrier") /\ held["retrier"] = e) => Allowed[e] = Bounded(count[e] - 1)
  BY DEF Allowed, Working, Trying
<1>3. pending' \subseteq Entry
  BY DeliveredTyped
<1>4. \A e \in Entry : Allowed[e] \in Nat /\ slips[e] \in Nat /\ slips'[e] \in Nat
  BY AllowedNat DEF TypeOK
<1>5. \A e \in pending' : slips'[e] + Allowed'[e] >= slips[e] + Allowed[e]
  <2> SUFFICES ASSUME NEW e \in pending' PROVE slips'[e] + Allowed'[e] >= slips[e] + Allowed[e]
    OBVIOUS
  <2>1. CASE Working("retrier") /\ held["retrier"] = e
    BY <1>1, <1>3, <2>1
  <2>2. CASE ~(Working("retrier") /\ held["retrier"] = e)
    <3>1. Allowed'[e] = Allowed[e] /\ e \in Entry /\ slips'[e] >= slips[e]
      BY <1>1, <1>2, <1>3, <2>2
    <3>2. QED
      BY <1>4, <3>1
  <2>3. QED
    BY <2>1, <2>2
<1>6. QED
  BY <1>5, TryFrame

\* A mishap that hits the retrier's entry pays for the retry it ends.
LEMMA RetrierHit ==
  ASSUME TypeOK, TypeOK', TryInv, UNCHANGED <<tries, delivered, count>>, pending' \subseteq pending,
         ~Working("retrier")',
         \A e \in Entry : slips'[e] >= slips[e],
         \A e \in pending' : Working("retrier") /\ held["retrier"] = e => slips'[e] = slips[e] + 1
  PROVE  TryInv'
<1>1. ASSUME NEW e \in pending', Working("retrier"), held["retrier"] = e
      PROVE  slips'[e] + Bounded(count[e] - 1) >= slips[e] + Allowed[e]
  <2>1. e \in Entry /\ count[e] - 1 \in Int /\ count[e] - 2 \in Int /\ slips[e] \in Nat
    BY DeliveredTyped, AllowedNat, EntryAssumption
  <2>2. /\ Bounded(count[e] - 2) <= Bounded(count[e] - 1)
        /\ Bounded(count[e] - 2) \in Nat /\ Bounded(count[e] - 1) \in Nat
    <3>1. (count[e] - 1) - 1 = count[e] - 2
      BY <2>1, AllowedNat, EntryAssumption
    <3>2. QED
      BY <2>1, <3>1, BoundedFacts
  <2>3. Allowed[e] = Bounded(count[e] - 2) \/ Allowed[e] = Bounded(count[e] - 2) + 1
    BY <1>1, <2>1 DEF Allowed, Working, Trying
  <2>4. slips'[e] = slips[e] + 1
    BY <1>1
  <2>5. QED
    BY <2>1, <2>2, <2>3, <2>4
<1>2. QED
  BY <1>1, RetrierLeaves

\* When its context has ended, the retrier leaves its entry at no cost.
LEMMA RetrierEnds ==
  ASSUME TypeOK, TypeOK', TryInv, UNCHANGED <<tries, delivered, count, slips>>, pending' \subseteq pending,
         ~Trying, ~Working("retrier")'
  PROVE  TryInv'
<1>1. ASSUME NEW e \in pending', Working("retrier"), held["retrier"] = e
      PROVE  slips'[e] + Bounded(count[e] - 1) >= slips[e] + Allowed[e]
  <2>1. e \in Entry /\ count[e] - 1 \in Int /\ count[e] - 2 \in Int /\ slips[e] \in Nat
    BY DeliveredTyped, AllowedNat, EntryAssumption
  <2>2. /\ Bounded(count[e] - 2) <= Bounded(count[e] - 1)
        /\ Bounded(count[e] - 2) \in Nat /\ Bounded(count[e] - 1) \in Nat
    <3>1. (count[e] - 1) - 1 = count[e] - 2
      BY <2>1, AllowedNat, EntryAssumption
    <3>2. QED
      BY <2>1, <3>1, BoundedFacts
  <2>3. Allowed[e] = Bounded(count[e] - 2)
    BY <1>1, <2>1 DEF Allowed
  <2>4. QED
    BY <2>1, <2>2, <2>3
<1>2. \A e \in Entry : slips'[e] >= slips[e]
  BY AllowedNat
<1>3. QED
  BY <1>1, <1>2, RetrierLeaves

\* A mishap that ends its context pays for the retry the retrier is at.
LEMMA RetrierLate ==
  ASSUME TypeOK, TypeOK', TryInv, UNCHANGED <<tries, delivered, count, pending, step, held>>,
         Trying, late'["retrier"] = TRUE,
         \A e \in Entry : slips'[e] >= slips[e],
         \A e \in pending : held["retrier"] = e => slips'[e] = slips[e] + 1
  PROVE  TryInv'
<1>1. ~Trying' /\ Working("retrier") /\ Working("retrier")'
  BY DEF Trying, Working
<1>2. \A e \in Entry : held["retrier"] # e => Allowed'[e] = Allowed[e]
  BY DEF Allowed
<1>3. pending \subseteq Entry
  BY DeliveredTyped
<1>4. ASSUME NEW e \in pending PROVE slips'[e] + Allowed'[e] >= slips[e] + Allowed[e]
  <2>1. /\ e \in Entry /\ slips[e] \in Nat /\ slips'[e] \in Nat /\ count[e] - 2 \in Int
        /\ Allowed[e] \in Nat /\ slips'[e] >= slips[e]
    BY <1>3, AllowedNat, EntryAssumption DEF TypeOK
  <2>2. CASE held["retrier"] = e
    <3>1. Allowed[e] = Bounded(count[e] - 2) + 1 /\ Allowed'[e] = Bounded(count[e] - 2)
      BY <1>1, <2>1, <2>2 DEF Allowed
    <3>2. Bounded(count[e] - 2) \in Nat /\ slips'[e] = slips[e] + 1
      BY <2>1, <2>2, BoundedFacts
    <3>3. QED
      BY <2>1, <3>1, <3>2
  <2>3. CASE held["retrier"] # e
    BY <1>2, <2>1, <2>3
  <2>4. QED
    BY <2>2, <2>3
<1>5. QED
  BY <1>1, <1>4, TryFrame

LEMMA TryInit == Init => TryInv
<1> SUFFICES ASSUME Init PROVE TryInv
  OBVIOUS
<1>1. pending = {} /\ step["retrier"] = "free"
  BY DEF Init, Worker
<1>2. \A e \in Entry : tries[e] = 0 /\ slips[e] = 0
  BY DEF Init, NoEntry
<1>3. ~Working("retrier")
  BY <1>1 DEF Working
<1>4. \A e \in Entry : tries[e] <= slips[e] + Limit
  BY <1>2, BoundedFacts
<1>5. QED
  BY <1>1, <1>2, <1>3, <1>4 DEF TryInv

\* Claiming an entry counts a delivery, executing it a retry.
LEMMA ClaimStep ==
  ASSUME TypeInv, TypeOK', TryInv, Claim
  PROVE  TryInv'
<1> USE EntryAssumption
<1>1. PICK d \in Claimable : /\ count' = [count EXCEPT ![d] = AtMost(count[d] + 1, MaxRetry)]
                             /\ Take("retrier", d, "check")
  BY DEF Claim
<1>2. step["retrier"] = "free" /\ UNCHANGED <<delivered, pending, tries, slips>>
  BY DEF Claim, Ticked, outcomeVars, mishapVars
<1>3. d \in pending /\ d \in Entry /\ count[d] \in 0..MaxRetry /\ count[d] >= 1
  BY <1>1, DeliveredTyped, AllowedNat DEF Claimable, TypeInv, TryInv
<1>4. step'["retrier"] = "check" /\ held'["retrier"] = d
  BY <1>1 DEF Take, TypeInv, TypeOK, Worker
<1>5. /\ count'[d] = AtMost(count[d] + 1, MaxRetry)
      /\ \A e \in Entry \ {d} : count'[e] = count[e]
  BY <1>1, <1>3 DEF TypeInv, TypeOK
<1>6. \/ count'[d] = count[d] + 1
      \/ count'[d] = MaxRetry /\ count[d] = MaxRetry
  BY <1>3, <1>5 DEF AtMost
<1>b. ~Working("retrier") /\ ~Trying /\ Working("retrier")' /\ ~Trying'
  BY <1>2, <1>4 DEF Working, Trying
<1>7. \A e \in Entry \ {d} : Allowed'[e] = Allowed[e]
  BY <1>b, <1>4, <1>5 DEF Allowed
<1>8. Allowed'[d] = Bounded(count'[d] - 2) /\ Allowed[d] = Bounded(count[d] - 1)
  BY <1>b, <1>3, <1>4 DEF Allowed
<1>9. Allowed'[d] = Allowed[d]
  <2>1. CASE count'[d] = count[d] + 1
    <3>1. count'[d] - 2 = count[d] - 1
      BY <1>3, <2>1
    <3>2. QED
      BY <1>8, <3>1
  <2>2. CASE count'[d] = MaxRetry /\ count[d] = MaxRetry
    <3>1. MaxRetry - 2 \in Int /\ MaxRetry - 2 >= MaxRetry - 3 /\ (MaxRetry - 2) + 1 = MaxRetry - 1
      OBVIOUS
    <3>2. Bounded((MaxRetry - 2) + 1) = Bounded(MaxRetry - 2)
      BY <3>1, BoundedFacts
    <3>3. QED
      BY <1>8, <2>2, <3>1, <3>2
  <2>3. QED
    BY <1>6, <2>1, <2>2
<1>10. pending \subseteq Entry
  BY DeliveredTyped DEF TypeInv
<1>11. \A e \in pending' : tries'[e] <= slips'[e] + Allowed'[e]
  BY <1>2, <1>7, <1>9, <1>10 DEF TryInv
<1>12. \A e \in pending' : count'[e] >= 1
  <2>1. count'[d] >= 1
    BY <1>3, <1>6
  <2>2. QED
    BY <1>2, <1>5, <1>10, <2>1 DEF TryInv
<1>13. count'[held'["retrier"]] >= 2 \/ count'[held'["retrier"]] = MaxRetry
  BY <1>3, <1>4, <1>6
<1>14. QED
  BY <1>2, <1>11, <1>12, <1>13 DEF TryInv

LEMMA CheckStep ==
  ASSUME TypeInv, TypeOK', TryInv, CheckPending
  PROVE  TryInv'
<1>1. /\ step["retrier"] = "check" /\ UNCHANGED <<delivered, pending, count, slips>>
      /\ Working("retrier")
  BY DEF CheckPending, queueVars, mishapVars, Working
<1> DEFINE d == held["retrier"]
<1>l. ~late["retrier"]
  BY <1>1 DEF TypeInv, WorkInv, Detached, Worker
<1>2. d \in pending /\ d \in Entry
  BY <1>1, <1>l, DeliveredTyped DEF TypeInv, WorkInv, InTime, Worker
<1>3. \A e \in Entry : slips'[e] = slips[e] /\ slips[e] \in Nat /\ tries[e] \in Nat /\ Allowed[e] \in Nat
                       /\ count[e] - 2 \in Int /\ count[e] - 1 \in Int
  BY <1>1, AllowedNat, EntryAssumption DEF TypeInv
<1>4. Allowed[d] = Bounded(count[d] - 2)
  BY <1>1, <1>2 DEF Allowed, Trying
<1>5. CASE d \notin Malformed
  <2>1. Move("retrier", "execute") /\ tries' = [tries EXCEPT ![d] = tries[d] + 1]
    BY <1>2, <1>5 DEF CheckPending
  <2>2. step'["retrier"] = "execute" /\ held' = held /\ late' = late
    BY <2>1 DEF Move, TypeInv, TypeOK, Worker
  <2>3. \A e \in Entry \ {d} : Allowed'[e] = Allowed[e] /\ tries'[e] = tries[e]
    BY <1>1, <2>1, <2>2 DEF Allowed, Trying, TypeInv, TypeOK
  <2>4. Allowed'[d] = Bounded(count[d] - 2) + 1
    BY <1>1, <1>l, <1>2, <2>2 DEF Allowed, Trying
  <2>5. tries'[d] = tries[d] + 1
    BY <1>2, <2>1 DEF TypeInv, TypeOK
  <2>6. tries'[d] <= slips'[d] + Allowed'[d]
    <3>1. tries[d] <= slips[d] + Allowed[d]
      BY <1>2 DEF TryInv
    <3>2. QED
      BY <1>2, <1>3, <1>4, <2>4, <2>5, <3>1
  <2>7. pending \subseteq Entry
    BY DeliveredTyped DEF TypeInv
  <2>8. \A e \in pending' : tries'[e] <= slips'[e] + Allowed'[e]
    BY <1>1, <2>3, <2>6, <2>7 DEF TryInv
  <2>9. \A e \in Entry : tries'[e] <= slips'[e] + Limit
    <3>1. Bounded(count[d] - 2) + 1 <= Limit /\ Bounded(count[d] - 2) \in Nat /\ Limit \in Nat
      BY <1>2, <1>3, BoundedFacts
    <3>2. tries'[d] <= slips'[d] + Limit
      BY <1>2, <1>3, <2>4, <2>5, <2>6, <3>1
    <3>3. QED
      BY <1>3, <2>3, <3>2 DEF TryInv
  <2>10. \A e \in Entry : e > delivered => e # d
    BY <1>2, DeliveredTyped DEF TypeInv
  <2>11. QED
    BY <1>1, <2>2, <2>3, <2>8, <2>9, <2>10 DEF TryInv
<1>6. CASE d \in Malformed
  <2>1. Leave("retrier") /\ UNCHANGED tries
    BY <1>6 DEF CheckPending
  <2>2. ~Working("retrier")'
    BY <2>1 DEF Leave, Take, Working, TypeInv, TypeOK, Worker
  <2>3. Bounded(count[d] - 2) <= Bounded(count[d] - 1)
    <3>1. (count[d] - 1) - 1 = count[d] - 2
      BY <1>2, EntryAssumption DEF TypeInv, TypeOK
    <3>2. QED
      BY <1>2, <1>3, <3>1, BoundedFacts
  <2>4. slips'[d] + Bounded(count[d] - 1) >= slips[d] + Allowed[d]
    <3>1. Bounded(count[d] - 1) \in Nat /\ Bounded(count[d] - 2) \in Nat
      BY <1>2, <1>3, BoundedFacts
    <3>2. QED
      BY <1>2, <1>3, <1>4, <2>3, <3>1
  <2>5. \A e \in Entry : slips'[e] >= slips[e]
    BY <1>3
  <2>6. QED
    BY <1>1, <2>1, <2>2, <2>4, <2>5, RetrierLeaves DEF TypeInv
<1>7. QED
  BY <1>5, <1>6

\* A new entry was not retried.
LEMMA ReadTryStep ==
  ASSUME TypeInv, TypeOK', TryInv, Read
  PROVE  TryInv'
<1> USE EntryAssumption
<1>1. PICK d \in Entry : d = delivered + 1 /\ d \notin pending /\ delivered \in Nat
  BY DEF Read, TypeInv, TypeOK, Entry
<1>2. /\ delivered' = d /\ pending' = pending \cup {d} /\ count' = [count EXCEPT ![d] = 1]
      /\ UNCHANGED <<tries, slips>>
      /\ step["reader"] = "free"
      /\ UNCHANGED workerVars \/ Take("reader", d, "execute")
  BY <1>1 DEF Read, outcomeVars, mishapVars
<1>3. /\ step'["retrier"] = step["retrier"] /\ held'["retrier"] = held["retrier"]
      /\ late'["retrier"] = late["retrier"]
  BY <1>2 DEF Take, workerVars, TypeInv, TypeOK, Worker
<1>4. Working("retrier") => held["retrier"] \in Entry /\ held["retrier"] # d
  <2>1. Working("retrier") => held["retrier"] \in 1..delivered
    BY DEF TypeInv, WorkInv, Working, Busy, Worker
  <2>2. 1..delivered \subseteq Entry /\ d \notin 1..delivered
    BY <1>1 DEF TypeInv, TypeOK, Entry
  <2>3. QED
    BY <2>1, <2>2
<1>5. count'[d] = 1 /\ \A e \in Entry \ {d} : count'[e] = count[e]
  BY <1>2 DEF TypeInv, TypeOK
<1>6. \A e \in Entry \ {d} : Allowed'[e] = Allowed[e]
  <2>1. (Trying' <=> Trying) /\ (Working("retrier")' <=> Working("retrier"))
    BY <1>3 DEF Working, Trying
  <2>2. QED
    BY <1>3, <1>5, <2>1 DEF Allowed
<1>7. tries[d] = 0 /\ slips[d] \in Nat
  BY <1>1, AllowedNat DEF TryInv, TypeInv
<1>8. Allowed'[d] = Bounded(0)
  <2>1. held'["retrier"] # d \/ ~Working("retrier")'
    BY <1>3, <1>4 DEF Working
  <2>2. held'["retrier"] # d \/ ~Trying'
    BY <2>1 DEF Working, Trying
  <2>3. QED
    BY <1>5, <2>1, <2>2 DEF Allowed
<1>9. tries'[d] <= slips'[d] + Allowed'[d]
  <2>1. Bounded(0) \in Nat
    BY BoundedFacts
  <2>2. QED
    BY <1>2, <1>7, <1>8, <2>1
<1>10. pending \subseteq Entry
  BY DeliveredTyped DEF TypeInv
<1>11. \A e \in pending' : count'[e] >= 1 /\ tries'[e] <= slips'[e] + Allowed'[e]
  BY <1>2, <1>5, <1>6, <1>9, <1>10 DEF TryInv
<1>12. Working("retrier")' => count'[held'["retrier"]] >= 2 \/ count'[held'["retrier"]] = MaxRetry
  BY <1>3, <1>4, <1>5 DEF TryInv, Working
<1>13. \A e \in Entry : e > delivered' => tries'[e] = 0
  <2>1. \A e \in Entry : e > d => e > delivered
    BY <1>1 DEF Entry
  <2>2. QED
    BY <1>2, <2>1 DEF TryInv
<1>14. QED
  BY <1>2, <1>11, <1>12, <1>13 DEF TryInv

LEMMA TryStep ==
  ASSUME TypeInv, TypeInv', TryInv, [Next]_vars
  PROVE  TryInv'
<1>t. TypeOK /\ TypeOK' /\ WorkInv
  BY DEF TypeInv
<1>w. Worker = {"reader", "retrier"}
  BY DEF Worker
<1>s. \A e \in Entry : slips[e] \in Nat
  BY <1>t DEF TypeOK
<1>m. \A E : Mishap(E) => /\ \A e \in Entry : slips'[e] >= slips[e]
                          /\ \A e \in Entry : e \in E => slips'[e] = slips[e] + 1
  BY <1>t, MishapTyped
<1>k. UNCHANGED slips => \A e \in Entry : slips'[e] >= slips[e]
  BY <1>s
<1>p. pending \subseteq Entry
  BY <1>t, DeliveredTyped
<1>1. CASE Read \/ Claim \/ CheckPending
  BY <1>1, <1>t, ReadTryStep, ClaimStep, CheckStep
<1>f. ASSUME held'["retrier"] = held["retrier"], step'["retrier"] = step["retrier"],
             late'["retrier"] = late["retrier"], UNCHANGED <<tries, delivered, count>>,
             pending' \subseteq pending, \A e \in Entry : slips'[e] >= slips[e]
      PROVE  TryInv'
  BY <1>f, <1>t, RetrierStays DEF Trying, Working
<1>g. ASSUME step["retrier"] \in {"execute", "store", "notify", "alert", "ack"}, held' = held, late' = late,
             step'["retrier"] \in {"execute", "store", "notify", "alert", "ack"},
             UNCHANGED <<tries, delivered, count, pending>>, \A e \in Entry : slips'[e] >= slips[e]
      PROVE  TryInv'
  BY <1>g, <1>t, RetrierStays DEF Trying, Working
<1>h. ASSUME Leave("retrier") \/ step'["retrier"] \in {"free", "dead", "del"}
      PROVE  ~Working("retrier")'
  BY <1>h, <1>t, <1>w DEF Leave, Take, Working, TypeOK
<1>2. CASE Publish \/ NothingToClaim \/ Tick \/ UNCHANGED vars
  <2>1. UNCHANGED <<tries, delivered, count, pending, held, step, late, slips>>
    BY <1>2 DEF Publish, NothingToClaim, Tick, vars, queueVars, workerVars, outcomeVars, mishapVars
  <2>2. QED
    BY <1>f, <1>k, <2>1
<1>3. CASE CheckPendingFails
  <2>1. /\ step["retrier"] = "check" /\ Mishap({}) /\ Leave("retrier")
        /\ UNCHANGED <<tries, delivered, count, pending>>
    BY <1>3 DEF CheckPendingFails, queueVars, outcomeVars
  <2>2. ~Working("retrier")'
    BY <1>h, <2>1
  <2>3. ASSUME NEW e \in pending, held["retrier"] = e
        PROVE  slips'[e] + Bounded(count[e] - 1) >= slips[e] + Allowed[e]
    <3>1. e \in Entry /\ count[e] - 1 \in Int /\ count[e] - 2 \in Int /\ slips[e] \in Nat /\ slips'[e] \in Nat
      BY <1>p, <1>t, AllowedNat, EntryAssumption DEF TypeOK
    <3>2. Allowed[e] = Bounded(count[e] - 2)
      BY <2>1, <2>3, <3>1 DEF Allowed, Trying, Working
    <3>3. (count[e] - 1) - 1 = count[e] - 2
      BY <3>1, <1>t, AllowedNat, EntryAssumption
    <3>4. /\ Bounded(count[e] - 2) <= Bounded(count[e] - 1)
          /\ Bounded(count[e] - 2) \in Nat /\ Bounded(count[e] - 1) \in Nat
      BY <3>1, <3>3, BoundedFacts
    <3>5. slips'[e] >= slips[e]
      BY <1>m, <2>1, <3>1
    <3>6. QED
      BY <3>1, <3>2, <3>4, <3>5
  <2>4. QED
    BY <1>m, <1>t, <2>1, <2>2, <2>3, RetrierLeaves
<1>4. ASSUME NEW w \in Worker, Analyse(w) \/ Store(w) \/ Send(w) PROVE TryInv'
  <2>1. /\ step[w] \in {"execute", "store", "notify", "alert"} /\ held' = held /\ late' = late
        /\ \E s \in {"store", "notify", "ack"} : step' = [step EXCEPT ![w] = s]
        /\ UNCHANGED <<tries, delivered, count, pending, slips>>
    BY <1>4 DEF Analyse, Store, Send, Move, queueVars, outcomeVars, mishapVars
  <2>2. CASE w = "reader"
    BY <1>f, <1>k, <1>t, <1>w, <2>1, <2>2 DEF TypeOK
  <2>3. CASE w = "retrier"
    BY <1>g, <1>k, <1>t, <1>w, <2>1, <2>3 DEF TypeOK
  <2>4. QED
    BY <1>w, <2>2, <2>3
<1>5. ASSUME NEW w \in Worker, ExecuteFails(w) \/ StoreLost(w) PROVE TryInv'
  <2>1. step[w] \in {"execute", "store"} /\ Failed(w) /\ UNCHANGED <<tries, delivered, count, pending>>
    BY <1>5 DEF ExecuteFails, StoreLost, queueVars, outcomeVars
  <2>2. UNCHANGED slips \/ Mishap({held[w]})
    BY <1>5 DEF ExecuteFails, StoreLost, mishapVars
  <2>3. \A e \in Entry : slips'[e] >= slips[e]
    BY <1>k, <1>m, <2>2
  <2>4. CASE w = "reader"
    <3>1. Leave("reader")
      BY <2>1, <2>4 DEF Failed, GivesUp
    <3>2. /\ step'["retrier"] = step["retrier"] /\ held'["retrier"] = held["retrier"]
          /\ late'["retrier"] = late["retrier"]
      BY <1>t, <1>w, <3>1 DEF Leave, Take, TypeOK
    <3>3. QED
      BY <1>f, <2>1, <2>3, <3>2
  <2>5. CASE w = "retrier" /\ GivesUp(w)
    <3>1. held' = held /\ late' = late /\ step' = [step EXCEPT ![w] = "alert"]
      BY <2>1, <2>5 DEF Failed, Move
    <3>2. step["retrier"] \in {"execute", "store"} /\ step'["retrier"] = "alert"
      BY <1>t, <1>w, <2>1, <2>5, <3>1 DEF TypeOK
    <3>3. QED
      BY <1>g, <2>1, <2>3, <3>1, <3>2
  <2>6. CASE w = "retrier" /\ ~GivesUp(w)
    <3>1. Leave("retrier")
      BY <2>1, <2>6 DEF Failed
    <3>2. ~Working("retrier")' /\ Working("retrier")
      BY <1>h, <2>1, <2>6, <3>1 DEF Working
    <3>3. CASE Mishap({held["retrier"]})
      <4>1. \A e \in pending : held["retrier"] = e => slips'[e] = slips[e] + 1
        BY <1>m, <1>p, <3>3
      <4>2. QED
        BY <1>t, <2>1, <2>3, <3>2, <4>1, RetrierHit
    <3>4. CASE UNCHANGED slips /\ late["retrier"]
      BY <1>t, <2>1, <3>2, <3>4, RetrierEnds DEF Trying
    <3>5. CASE UNCHANGED slips /\ ~late["retrier"]
      <4> DEFINE d == held["retrier"]
      <4>1. d \in pending /\ Trying
        BY <1>t, <2>1, <2>6, <3>2, <3>5 DEF WorkInv, InTime, Trying, Worker
      <4>2. /\ d \in Entry /\ count[d] \in 0..MaxRetry
            /\ count[d] >= 2 \/ count[d] = MaxRetry
            /\ ~(count[d] + 1 >= MaxRetry)
        BY <1>t, <1>p, <2>6, <3>2, <4>1, AllowedNat DEF TryInv, GivesUp
      <4>3. /\ count[d] - 2 \in Int /\ count[d] - 2 >= 0 /\ (count[d] - 2) + 1 = count[d] - 1
            /\ (count[d] - 2) + 1 <= MaxRetry - 3
        BY <4>2, EntryAssumption
      <4>4. Bounded(count[d] - 1) = Bounded(count[d] - 2) + 1
        BY <4>3, BoundedFacts
      <4>5. Allowed[d] = Bounded(count[d] - 2) + 1
        BY <4>1, <4>2 DEF Allowed
      <4>6. slips'[d] + Bounded(count[d] - 1) >= slips[d] + Allowed[d]
        <5>1. Bounded(count[d] - 2) \in Nat /\ slips[d] \in Nat
          BY <1>s, <4>2, <4>3, BoundedFacts
        <5>2. QED
          BY <3>5, <4>4, <4>5, <5>1
      <4>7. QED
        BY <1>t, <2>1, <2>3, <3>2, <4>6, RetrierLeaves
    <3>6. QED
      BY <2>2, <2>6, <3>3, <3>4, <3>5, <1>t DEF TypeOK
  <2>7. QED
    BY <1>w, <2>4, <2>5, <2>6
<1>6. ASSUME NEW w \in Worker, Expire(w) PROVE TryInv'
  <2>1. /\ Detached(w) /\ ~late[w] /\ Mishap({held[w]}) /\ late' = [late EXCEPT ![w] = TRUE]
        /\ UNCHANGED <<tries, delivered, count, pending, step, held>>
    BY <1>6 DEF Expire, queueVars, outcomeVars
  <2>2. \A e \in Entry : slips'[e] >= slips[e]
    BY <1>m, <2>1
  <2>3. CASE w = "reader"
    BY <1>f, <1>t, <1>w, <2>1, <2>2, <2>3 DEF TypeOK
  <2>4. CASE w = "retrier"
    <3>1. Trying /\ late'["retrier"] = TRUE
      BY <1>t, <1>w, <2>1, <2>4 DEF Trying, Detached, TypeOK
    <3>2. \A e \in pending : held["retrier"] = e => slips'[e] = slips[e] + 1
      BY <1>m, <1>p, <2>1, <2>4
    <3>3. QED
      BY <1>t, <2>1, <2>2, <3>1, <3>2, RetrierLate
  <2>5. QED
    BY <1>w, <2>3, <2>4
<1>7. ASSUME NEW w \in Worker, AckNDelFails(w) \/ Panic(w) PROVE TryInv'
  <2>1. \E s \in {"free", "dead"} :
          /\ step' = [step EXCEPT ![w] = s] /\ held' = [held EXCEPT ![w] = None]
          /\ late' = [late EXCEPT ![w] = FALSE]
    BY <1>7 DEF AckNDelFails, Panic, Leave, Take
  <2>2. UNCHANGED <<tries, delivered, count, pending>>
    BY <1>7 DEF AckNDelFails, Panic, queueVars, outcomeVars
  <2>3. Mishap({held[w]}) \/ (UNCHANGED slips /\ late[w])
    BY <1>7 DEF AckNDelFails, Panic, mishapVars
  <2>4. \A e \in Entry : slips'[e] >= slips[e]
    BY <1>k, <1>m, <2>3
  <2>5. CASE w = "reader"
    BY <1>f, <1>t, <1>w, <2>1, <2>2, <2>4, <2>5 DEF TypeOK
  <2>6. CASE w = "retrier"
    <3>1. ~Working("retrier")'
      BY <1>h, <1>t, <1>w, <2>1, <2>6 DEF TypeOK
    <3>2. CASE Mishap({held[w]})
      <4>1. \A e \in pending : held["retrier"] = e => slips'[e] = slips[e] + 1
        BY <1>m, <1>p, <2>6, <3>2
      <4>2. QED
        BY <1>t, <2>2, <2>4, <3>1, <4>1, RetrierHit
    <3>3. CASE UNCHANGED slips /\ late[w]
      BY <1>t, <2>2, <2>6, <3>1, <3>3, RetrierEnds DEF Trying
    <3>4. QED
      BY <2>3, <3>2, <3>3
  <2>7. QED
    BY <1>w, <2>5, <2>6
<1>8. ASSUME NEW w \in Worker, Ack(w) \/ Del(w) PROVE TryInv'
  <2>1. /\ \E s \in {"free", "del"} : step' = [step EXCEPT ![w] = s]
        /\ \A v \in Worker \ {w} : held'[v] = held[v] /\ late'[v] = late[v]
        /\ UNCHANGED <<tries, delivered, count, slips>>
        /\ pending' = pending \/ pending' = pending \ {held[w]}
        /\ Working(w) => pending' = pending \ {held[w]}
    <3>1. CASE Ack(w)
      BY <3>1 DEF Ack, Move, outcomeVars, mishapVars
    <3>2. CASE Del(w)
      BY <1>t, <3>2 DEF Del, Leave, Take, Working, outcomeVars, mishapVars, TypeOK
    <3>3. QED
      BY <1>8, <3>1, <3>2
  <2>2. pending' \subseteq pending /\ \A e \in Entry : slips'[e] >= slips[e]
    BY <1>k, <2>1
  <2>3. CASE w = "reader"
    BY <1>f, <1>t, <1>w, <2>1, <2>2, <2>3 DEF TypeOK
  <2>4. CASE w = "retrier"
    <3>1. ~Working("retrier")'
      BY <1>h, <1>t, <1>w, <2>1, <2>4 DEF TypeOK
    <3>2. Working("retrier") => held["retrier"] \notin pending'
      BY <2>1, <2>4
    <3>3. QED
      BY <1>t, <2>1, <2>2, <3>1, <3>2, RetrierLeaves
  <2>5. QED
    BY <1>w, <2>3, <2>4
<1>9. CASE Crash
  <2> DEFINE E == {held[w] : w \in Worker}
  <2>1. Mishap(E) /\ UNCHANGED <<tries, delivered, count, pending>>
    BY <1>9 DEF Crash, queueVars, outcomeVars
  <2>2. ~Working("retrier")'
    BY <1>9, <1>w DEF Crash, Working
  <2>3. \A e \in pending' : held["retrier"] = e => slips'[e] = slips[e] + 1
    BY <1>m, <1>p, <1>w, <2>1
  <2>4. QED
    BY <1>m, <1>t, <2>1, <2>2, <2>3, RetrierHit
<1>10. QED
  BY <1>1, <1>2, <1>3, <1>4, <1>5, <1>6, <1>7, <1>8, <1>9 DEF Next, Retry, Advance

\* An entry that keeps failing is retried as often as its limit says, and once
\* more for each mishap, whatever else fails.
THEOREM RetriesAreBounded == Spec => []RetriesBounded
<1>1. Init => TryInv
  BY TryInit
<1>2. TypeInv /\ TypeInv' /\ TryInv /\ [Next]_vars => TryInv'
  BY TryStep
<1>3. TryInv => RetriesBounded
  BY DEF TryInv, RetriesBounded, Limit
<1>4. QED
  BY <1>1, <1>2, <1>3, TypeAlways, PTL DEF Spec
=============================================================================
