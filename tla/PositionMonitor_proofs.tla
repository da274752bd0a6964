----------------------- MODULE PositionMonitor_proofs -----------------------
(***************************************************************************)
(* Proofs about PositionMonitor, for any positions, any number of entries, *)
(* any retry limit and any number of mishaps.                              *)
(***************************************************************************)
EXTENDS PositionMonitor, FiniteSetTheorems, TLAPS

(***************************************************************************)
(* What a worker is about.  Only a worker whose context has ended shares   *)
(* its entry with the other one; one whose context lasts works on a        *)
(* pending entry until it has acknowledged it.                             *)
(***************************************************************************)
Idle(w) == step[w] \in {"free", "dead"}

WorkInv ==
  /\ \A w \in Worker : Idle(w) => held[w] = None
  /\ \A w \in Worker : ~Idle(w) => held[w] \in 1..delivered
  /\ \A w \in Worker : step[w] \in {"analyse", "store", "send", "update"} => snap[w] # Null
  /\ step["retrier"] = "check" => ~late["retrier"]
  /\ \A w \in Worker : ~Idle(w) /\ ~late[w] /\ step[w] # "del" => held[w] \in pending
  /\ held["reader"] = held["retrier"] /\ held["reader"] # None => late["reader"] \/ late["retrier"]

TypeInv == TypeOK /\ WorkInv

-----------------------------------------------------------------------------
(* Lemmas about single steps.                                              *)

LEMMA EntryFacts ==
  /\ Worker = {"reader", "retrier"}
  /\ Entry \subseteq Nat /\ None \notin Entry
  /\ \A n \in 0..MaxEntries : n \in Nat /\ 1..n \subseteq Entry
BY MonitorAssumption DEF Entry, None, Worker

LEMMA DeliveredTyped ==
  ASSUME TypeOK
  PROVE  /\ last \in Nat /\ delivered \in Nat /\ delivered <= last /\ last <= MaxEntries
         /\ 1..delivered \subseteq Entry /\ pending \subseteq Entry /\ pending \subseteq 1..delivered
BY MonitorAssumption, EntryFacts DEF TypeOK, Entry

LEMMA HeldTyped ==
  ASSUME TypeInv, NEW w \in Worker, ~Idle(w)
  PROVE  held[w] \in Entry /\ task[held[w]] \in Task /\ Pos(w) \in Position
<1>1. held[w] \in 1..last /\ held[w] \in Entry
  BY DeliveredTyped DEF TypeInv, WorkInv
<1>2. task[held[w]] \in Task
  BY <1>1 DEF TypeInv, TypeOK
<1>3. QED
  BY <1>1, <1>2 DEF Pos, Task

LEMMA MishapTyped ==
  ASSUME TypeOK, NEW E, Mishap(E)
  PROVE  /\ mishaps' \in Nat /\ slips' \in Counter
         /\ \A e \in Entry : slips'[e] = slips[e] + IF e \in E THEN 1 ELSE 0
BY DEF Mishap, TypeOK, Counter

LEMMA Counted ==
  ASSUME NEW f \in Counter, NEW e \in Entry, NEW n \in Nat
  PROVE  /\ [f EXCEPT ![e] = @ + n] \in Counter
         /\ \A d \in Entry : [f EXCEPT ![e] = @ + n][d] = f[d] + IF d = e THEN n ELSE 0
BY DEF Counter

LEMMA TakeTyped ==
  ASSUME TypeOK, NEW w \in Worker, NEW e \in Entry \cup {None}, NEW s \in Step, Take(w, e, s)
  PROVE  /\ step' \in [Worker -> Step] /\ held' \in [Worker -> Entry \cup {None}]
         /\ snap' \in [Worker -> Row \cup {Null}] /\ late' \in [Worker -> BOOLEAN]
         /\ step'[w] = s /\ held'[w] = e /\ snap'[w] = Null /\ late'[w] = FALSE
         /\ \A v \in Worker \ {w} : /\ step'[v] = step[v] /\ held'[v] = held[v]
                                    /\ snap'[v] = snap[v] /\ late'[v] = late[v]
BY DEF Take, TypeOK

LEMMA MoveTyped ==
  ASSUME TypeOK, NEW w \in Worker, NEW s \in Step, Move(w, s)
  PROVE  /\ step' \in [Worker -> Step] /\ UNCHANGED <<held, snap, late>>
         /\ step'[w] = s /\ \A v \in Worker \ {w} : step'[v] = step[v]
BY DEF Move, TypeOK

\* Writing a copy back, and what the users change, leaves the two tables.
LEMMA WrittenBack ==
  ASSUME RowsTypeOK, NEW p \in Position, NEW copy \in Row, WriteBack(p, copy)
  PROVE  RowsTypeOK'
<1>1. users' = users \cup {OwnerOf[p]} /\ users' \subseteq User
  BY PositionAssumption DEF WriteBack, RowsTypeOK
<1>2. CASE rows[p] # Null
  <2>1. rows[p] \in Row
    BY <1>2 DEF RowsTypeOK
  <2>2. Merged(rows[p], copy) \in Row
    BY <2>1 DEF Merged, Kept, Row
  <2>3. rows' = [rows EXCEPT ![p] = Merged(rows[p], copy)]
    BY <1>2 DEF WriteBack
  <2>4. QED
    BY <1>1, <1>2, <2>2, <2>3 DEF RowsTypeOK
<1>3. CASE rows[p] = Null
  BY <1>1, <1>3 DEF WriteBack, RowsTypeOK
<1>4. QED
  BY <1>2, <1>3

LEMMA EditedByUser ==
  ASSUME RowsTypeOK, NEW p \in Position, Close(p) \/ BreakEven(p)
  PROVE  RowsTypeOK'
<1>1. rows[p] \in Row /\ rows[p] # Null /\ users' = users
  BY DEF Close, BreakEven, Open, RowsTypeOK
<1>2. PICK row \in Row : rows' = [rows EXCEPT ![p] = row]
  <2>1. CASE Close(p)
    <3>1. rows' = [rows EXCEPT ![p] = [rows[p] EXCEPT !.open = FALSE]]
      BY <2>1 DEF Close
    <3>2. [rows[p] EXCEPT !.open = FALSE] \in Row
      BY <1>1 DEF Row
    <3>3. QED
      BY <3>1, <3>2
  <2>2. CASE BreakEven(p)
    <3>1. rows' = [rows EXCEPT ![p] = [rows[p] EXCEPT !.stop = rows[p].buy]]
      BY <2>2 DEF BreakEven
    <3>2. [rows[p] EXCEPT !.stop = rows[p].buy] \in Row
      BY <1>1 DEF Row
    <3>3. QED
      BY <3>1, <3>2
  <2>3. QED
    BY <2>1, <2>2
<1>3. QED
  BY <1>1, <1>2 DEF RowsTypeOK

LEMMA UserRemoved ==
  ASSUME RowsTypeOK, NEW u \in User, RemoveUser(u)
  PROVE  RowsTypeOK'
BY DEF RemoveUser, RowsTypeOK, PositionsOf

LEMMA TypeInit == Init => TypeInv
<1> SUFFICES ASSUME Init PROVE TypeInv
  OBVIOUS
<1>1. RowsTypeOK
  BY PositionAssumption DEF Init, RowsInit, RowsTypeOK
<1>2. Zero \in Counter /\ Zero \in [Entry -> 0..MaxRetry]
  BY MonitorAssumption DEF Zero, Counter
<1>3. TypeOK
  BY <1>1, <1>2, MonitorAssumption DEF Init, TypeOK, Step
<1>4. WorkInv
  BY EntryFacts DEF Init, WorkInv, Idle
<1>5. QED
  BY <1>3, <1>4 DEF TypeInv

\* A worker goes on with its entry.
LEMMA WorkMoves ==
  ASSUME TypeInv, NEW w \in Worker, ~Idle(w), step[w] # "del",
         NEW s \in Step \ {"free", "dead", "check", "del"},
         step'[w] = s, held' = held, late' = late, UNCHANGED <<pending, delivered>>,
         s \in {"analyse", "store", "send", "update"} => snap'[w] # Null,
         \A v \in Worker \ {w} : step'[v] = step[v] /\ snap'[v] = snap[v]
  PROVE  WorkInv'
BY EntryFacts DEF TypeInv, WorkInv, Idle, Step

\* A worker leaves its entry.
LEMMA WorkLeaves ==
  ASSUME TypeInv, NEW w \in Worker, NEW s \in {"free", "dead"}, Take(w, None, s),
         UNCHANGED <<pending, delivered>>
  PROVE  WorkInv'
<1>1. /\ step'[w] = s /\ held'[w] = None /\ late'[w] = FALSE
      /\ \A v \in Worker \ {w} : /\ step'[v] = step[v] /\ held'[v] = held[v]
                                 /\ snap'[v] = snap[v] /\ late'[v] = late[v]
  <2>1. TypeOK /\ s \in Step
    BY DEF TypeInv, Step
  <2>2. QED
    BY <2>1, TakeTyped
<1>2. QED
  BY <1>1, EntryFacts DEF TypeInv, WorkInv, Idle

\* A worker takes an entry nobody works on whose context lasts.
LEMMA WorkTakes ==
  ASSUME TypeInv, NEW w \in Worker, Idle(w), NEW e \in Entry, NEW s \in {"check", "read"}, Take(w, e, s),
         NEW d \in Nat, delivered' = d, delivered <= d, e <= d,
         pending \subseteq pending', e \in pending', s = "check" => w = "retrier",
         \A v \in Worker : held[v] = e => late[v]
  PROVE  WorkInv'
<1>1. /\ step'[w] = s /\ held'[w] = e /\ late'[w] = FALSE
      /\ \A v \in Worker \ {w} : /\ step'[v] = step[v] /\ held'[v] = held[v]
                                 /\ snap'[v] = snap[v] /\ late'[v] = late[v]
  <2>1. TypeOK /\ s \in Step
    BY DEF TypeInv, Step
  <2>2. QED
    BY <2>1, TakeTyped
<1>2. e \in 1..d /\ 1..delivered \subseteq 1..d
  <2>1. delivered \in Nat
    BY DeliveredTyped DEF TypeInv
  <2>2. e >= 1 /\ e \in Nat
    BY MonitorAssumption DEF Entry
  <2>3. QED
    BY <2>1, <2>2
<1>3. \A v \in Worker : ~Idle(v)' => held'[v] \in 1..d
  BY <1>1, <1>2 DEF TypeInv, WorkInv, Idle
<1>4. QED
  BY <1>1, <1>3, EntryFacts DEF TypeInv, WorkInv, Idle

\* A step of the queue or of the table alone.
LEMMA WorkFrame ==
  ASSUME TypeInv, UNCHANGED <<step, held, snap, late, pending, delivered>>
  PROVE  WorkInv'
BY DEF TypeInv, WorkInv, Idle

\* Every step keeps the types and the workers apart.
LEMMA TypeStep ==
  ASSUME TypeInv, [Next]_vars
  PROVE  TypeInv'
<1> USE MonitorAssumption
<1>t. TypeOK /\ WorkInv
  BY DEF TypeInv
<1>s. Step = {"free", "check", "read", "analyse", "store", "send", "update",
              "alert", "ack", "del", "dead"}
  BY DEF Step
<1>e. last \in Nat /\ delivered \in Nat /\ delivered <= last /\ last <= MaxEntries
      /\ 1..delivered \subseteq Entry /\ pending \subseteq Entry /\ pending \subseteq 1..delivered
  BY <1>t, DeliveredTyped
<1>w. "reader" \in Worker /\ "retrier" \in Worker
  BY EntryFacts
<1>a. ASSUME NEW w \in Worker, NEW s \in Step, Move(w, s)
      PROVE  /\ step' \in [Worker -> Step] /\ held' \in [Worker -> Entry \cup {None}]
             /\ snap' \in [Worker -> Row \cup {Null}] /\ late' \in [Worker -> BOOLEAN]
  BY <1>a, <1>t, MoveTyped DEF TypeOK
<1>b. ASSUME NEW w \in Worker, Leave(w) \/ Take(w, None, "dead"),
             UNCHANGED <<pending, delivered>>
      PROVE  /\ step' \in [Worker -> Step] /\ held' \in [Worker -> Entry \cup {None}]
             /\ snap' \in [Worker -> Row \cup {Null}] /\ late' \in [Worker -> BOOLEAN]
             /\ WorkInv'
  <2>1. CASE Leave(w)
    BY <1>b, <1>s, <1>t, <2>1, TakeTyped, WorkLeaves DEF Leave
  <2>2. CASE Take(w, None, "dead")
    BY <1>b, <1>s, <1>t, <2>2, TakeTyped, WorkLeaves
  <2>3. QED
    BY <1>b, <2>1, <2>2
<1>m. ASSUME NEW w \in Worker, NEW s \in {"read", "store", "send", "update", "alert", "ack"}, Move(w, s),
             ~Idle(w), step[w] # "del", UNCHANGED <<pending, delivered>>,
             s \in {"store", "send", "update"} => step[w] \in {"analyse", "store", "send", "update"}
      PROVE  WorkInv'
  <2>1. /\ step'[w] = s /\ UNCHANGED <<held, snap, late>>
        /\ \A v \in Worker \ {w} : step'[v] = step[v]
    BY <1>m, <1>s, <1>t, MoveTyped
  <2>2. s \in {"analyse", "store", "send", "update"} => snap'[w] # Null
    BY <1>m, <1>t, <2>1 DEF WorkInv
  <2>3. QED
    BY <1>m, <1>s, <2>1, <2>2, WorkMoves
<1>1. CASE Select \/ Bot
  <2>1. RowsTypeOK' /\ todo' \subseteq Position
    <3>1. CASE Select
      BY <1>t, <3>1 DEF Select, TypeOK, RowsTypeOK, tables
    <3>2. CASE Bot
      BY <1>t, <3>2, EditedByUser, UserRemoved DEF Bot, TypeOK
    <3>3. QED
      BY <1>1, <3>1, <3>2
  <2>2. UNCHANGED <<queueVars, workerVars, outcomeVars, mishapVars>>
    BY <1>1 DEF Select, Bot
  <2>3. WorkInv'
    BY <2>2, WorkFrame DEF queueVars, workerVars
  <2>4. QED
    BY <1>t, <2>1, <2>2, <2>3 DEF TypeInv, TypeOK, queueVars, workerVars, outcomeVars, mishapVars
<1>2. ASSUME NEW p \in Position, NEW send \in BOOLEAN, Enqueue(p, send) \/ UNCHANGED queueVars,
             UNCHANGED tables, todo' \subseteq todo, UNCHANGED <<workerVars, outcomeVars, mishapVars>>
      PROVE  TypeInv'
  <2>1. UNCHANGED <<delivered, pending, count>>
    BY <1>2 DEF Enqueue, queueVars
  <2>2. WorkInv'
    BY <1>2, <2>1, WorkFrame DEF workerVars
  <2>3. CASE UNCHANGED queueVars
    BY <1>2, <1>t, <2>2, <2>3 DEF TypeInv, TypeOK, RowsTypeOK, tables, queueVars, workerVars, outcomeVars, mishapVars
  <2>4. CASE Enqueue(p, send)
    <3> DEFINE new == [pos |-> p, send |-> send]
    <3>1. /\ last' = last + 1 /\ last < MaxEntries /\ last + 1 \in Entry
          /\ task' = [task EXCEPT ![last + 1] = new] /\ stream' = stream \cup {last + 1}
      BY <1>e, <2>4 DEF Enqueue, Entry
    <3>2. new \in Task /\ new # Null
      BY DEF Task
    <3>3. QED
      BY <1>2, <1>e, <1>t, <2>1, <2>2, <3>1, <3>2
         DEF TypeInv, TypeOK, RowsTypeOK, tables, workerVars, outcomeVars, mishapVars
  <2>5. QED
    BY <1>2, <2>3, <2>4
<1>3. CASE Read
  <2>1. PICK d \in Entry : d = delivered + 1
    BY <1>3, <1>e DEF Read, Entry
  <2>2. /\ delivered' = d /\ pending' = pending \cup {d} /\ count' = [count EXCEPT ![d] = 1]
        /\ d <= last /\ step["reader"] = "free" /\ Take("reader", d, "read")
        /\ UNCHANGED <<tables, todo, task, last, stream, outcomeVars, mishapVars>>
    BY <1>3, <1>e, <2>1 DEF Read
  <2>3. /\ step' \in [Worker -> Step] /\ held' \in [Worker -> Entry \cup {None}]
        /\ snap' \in [Worker -> Row \cup {Null}] /\ late' \in [Worker -> BOOLEAN]
    BY <1>s, <1>t, <1>w, <2>2, TakeTyped
  <2>4. \A v \in Worker : held[v] # d
    <3>1. d \notin 1..delivered /\ d # None
      BY <1>e, <2>1, EntryFacts
    <3>2. QED
      BY <1>t, <3>1 DEF WorkInv
  <2>5. WorkInv'
    <3>1. Idle("reader") /\ d \in Nat /\ delivered <= d
      BY <1>e, <2>1, <2>2, EntryFacts DEF Idle
    <3>2. QED
      BY <1>w, <2>2, <2>4, <3>1, WorkTakes
  <2>6. pending' \subseteq 1..delivered' /\ delivered' \in 0..last'
    BY <1>e, <1>t, <2>1, <2>2 DEF TypeOK
  <2>7. count' \in [Entry -> 0..MaxRetry]
    BY <1>t, <2>2 DEF TypeOK
  <2>8. QED
    BY <1>t, <2>2, <2>3, <2>5, <2>6, <2>7 DEF TypeInv, TypeOK, RowsTypeOK, tables, outcomeVars, mishapVars
<1>4. ASSUME NEW d \in Entry, Claim(d) PROVE TypeInv'
  <2>1. /\ step["retrier"] = "free" /\ Claimable(d) /\ Take("retrier", d, "check")
        /\ UNCHANGED <<tables, todo, task, last, delivered, stream, pending, outcomeVars, mishapVars>>
        /\ count' = [count EXCEPT ![d] = IF count[d] < MaxRetry THEN count[d] + 1 ELSE count[d]]
    BY <1>4 DEF Claim
  <2>2. /\ step' \in [Worker -> Step] /\ held' \in [Worker -> Entry \cup {None}]
        /\ snap' \in [Worker -> Row \cup {Null}] /\ late' \in [Worker -> BOOLEAN]
    BY <1>s, <1>t, <1>w, <2>1, TakeTyped
  <2>3. WorkInv'
    <3>1. d \in pending /\ \A v \in Worker : held[v] = d => late[v]
      BY <2>1 DEF Claimable
    <3>2. Idle("retrier") /\ d <= delivered
      BY <1>e, <2>1, <3>1 DEF Idle
    <3>3. QED
      BY <1>e, <1>w, <2>1, <3>1, <3>2, WorkTakes
  <2>4. count' \in [Entry -> 0..MaxRetry]
    BY <1>t, <2>1 DEF TypeOK
  <2>5. QED
    BY <1>t, <2>1, <2>2, <2>3, <2>4 DEF TypeInv, TypeOK, RowsTypeOK, tables, outcomeVars, mishapVars
<1>5. CASE CheckPending \/ CheckPendingFails
  <2>1. /\ step["retrier"] = "check" /\ (Move("retrier", "read") \/ Leave("retrier"))
        /\ UNCHANGED <<tables, todo, queueVars, outcomeVars>>
        /\ mishaps' \in Nat /\ slips' \in Counter
    BY <1>5, <1>t, MishapTyped DEF CheckPending, CheckPendingFails, mishapVars, TypeOK
  <2>2. /\ step' \in [Worker -> Step] /\ held' \in [Worker -> Entry \cup {None}]
        /\ snap' \in [Worker -> Row \cup {Null}] /\ late' \in [Worker -> BOOLEAN]
        /\ WorkInv'
    <3>1. CASE Move("retrier", "read")
      BY <1>a, <1>m, <1>s, <1>w, <2>1, <3>1 DEF Idle, queueVars
    <3>2. CASE Leave("retrier")
      BY <1>b, <1>w, <2>1, <3>2 DEF queueVars
    <3>3. QED
      BY <2>1, <3>1, <3>2
  <2>3. QED
    BY <1>t, <2>1, <2>2 DEF TypeInv, TypeOK, RowsTypeOK, tables, queueVars, outcomeVars
<1>6. ASSUME NEW w \in Worker, ReadPosition(w) PROVE TypeInv'
  <2>1. ~Idle(w) /\ step[w] = "read" /\ UNCHANGED <<tables, todo, queueVars, monitorings, triggered, messages, alerts, mishapVars>>
    BY <1>6 DEF ReadPosition, Idle
  <2>2. held[w] \in Entry /\ Pos(w) \in Position
    BY <2>1, HeldTyped
  <2>3. CASE Open(Pos(w))
    <3>1. /\ snap' = [snap EXCEPT ![w] = rows[Pos(w)]] /\ step' = [step EXCEPT ![w] = "analyse"]
          /\ UNCHANGED <<held, late, idled>>
      BY <1>6, <2>3 DEF ReadPosition
    <3>2. rows[Pos(w)] \in Row /\ rows[Pos(w)] # Null
      BY <1>t, <2>2, <2>3 DEF Open, TypeOK, RowsTypeOK
    <3>3. step' \in [Worker -> Step] /\ snap' \in [Worker -> Row \cup {Null}]
      BY <1>s, <1>t, <3>1, <3>2 DEF TypeOK
    <3>4. /\ step'[w] = "analyse" /\ snap'[w] # Null
          /\ \A v \in Worker \ {w} : step'[v] = step[v] /\ snap'[v] = snap[v]
      BY <1>t, <3>1, <3>2 DEF TypeOK
    <3>5. WorkInv'
      BY <1>s, <2>1, <3>1, <3>4, WorkMoves DEF queueVars
    <3>6. QED
      BY <1>t, <2>1, <3>1, <3>3, <3>5 DEF TypeInv, TypeOK, RowsTypeOK, tables, queueVars, mishapVars
  <2>4. CASE ~Open(Pos(w))
    <3>1. Move(w, "ack") /\ idled' = [idled EXCEPT ![held[w]] = @ + 1]
      BY <1>6, <2>4 DEF ReadPosition
    <3>2. idled' \in Counter
      BY <1>t, <2>2, <3>1, Counted DEF TypeOK
    <3>3. WorkInv'
      BY <1>m, <2>1, <3>1 DEF queueVars
    <3>4. QED
      BY <1>a, <1>s, <1>t, <2>1, <3>1, <3>2, <3>3 DEF TypeInv, TypeOK, RowsTypeOK, tables, queueVars, mishapVars
  <2>5. QED
    BY <2>3, <2>4
<1>7. ASSUME NEW w \in Worker, Analyse(w) \/ ExecuteFails(w) PROVE TypeInv'
  <2>1. /\ step[w] \in {"read", "analyse", "store"} /\ ~Idle(w)
        /\ UNCHANGED <<tables, todo, queueVars, outcomeVars, mishapVars>>
    BY <1>7 DEF Analyse, ExecuteFails, Idle
  <2>2. (step[w] = "analyse" /\ Move(w, "store")) \/ Move(w, "alert") \/ Leave(w)
    BY <1>7 DEF Analyse, ExecuteFails
  <2>3. WorkInv'
    BY <1>b, <1>m, <2>1, <2>2 DEF queueVars
  <2>4. QED
    BY <1>a, <1>b, <1>s, <1>t, <2>1, <2>2, <2>3
       DEF TypeInv, TypeOK, RowsTypeOK, tables, queueVars, outcomeVars, mishapVars
<1>8. ASSUME NEW w \in Worker, StoreMonitoring(w) PROVE TypeInv'
  <2>1. /\ step[w] = "store" /\ ~Idle(w)
        /\ monitorings' = [monitorings EXCEPT ![held[w]] = @ + 1]
        /\ UNCHANGED <<tables, todo, queueVars, messages, alerts, idled, mishapVars>>
    BY <1>8 DEF StoreMonitoring, Idle
  <2>2. held[w] \in Entry
    BY <2>1, HeldTyped
  <2>3. PICK n \in {0, 1} : /\ triggered' = [triggered EXCEPT ![held[w]] = @ + n]
                            /\ Move(w, "send") \/ Move(w, "ack")
    BY <1>8 DEF StoreMonitoring
  <2>4. monitorings' \in Counter /\ triggered' \in Counter
    <3>1. n \in Nat
      OBVIOUS
    <3>2. triggered' \in Counter
      BY <1>t, <2>2, <2>3, <3>1, Counted DEF TypeOK
    <3>3. monitorings' \in Counter
      BY <1>t, <2>1, <2>2, Counted DEF TypeOK
    <3>4. QED
      BY <3>2, <3>3
  <2>5. WorkInv'
    BY <1>m, <2>1, <2>3 DEF queueVars
  <2>6. QED
    BY <1>a, <1>s, <1>t, <2>1, <2>3, <2>4, <2>5 DEF TypeInv, TypeOK, RowsTypeOK, tables, queueVars, mishapVars
<1>9. ASSUME NEW w \in Worker, Send(w) PROVE TypeInv'
  <2>1. /\ step[w] = "send" /\ ~Idle(w)
        /\ messages' = [messages EXCEPT ![held[w]] = @ + 1]
        /\ Move(w, "update") \/ Move(w, "ack")
        /\ UNCHANGED <<tables, todo, queueVars, monitorings, triggered, alerts, idled, mishapVars>>
    BY <1>9 DEF Send, Idle
  <2>2. held[w] \in Entry
    BY <2>1, HeldTyped
  <2>3. messages' \in Counter
    BY <1>t, <2>1, <2>2, Counted DEF TypeOK
  <2>4. WorkInv'
    BY <1>m, <2>1 DEF queueVars
  <2>5. QED
    BY <1>a, <1>s, <1>t, <2>1, <2>3, <2>4 DEF TypeInv, TypeOK, RowsTypeOK, tables, queueVars, mishapVars
<1>10. ASSUME NEW w \in Worker, Update(w) PROVE TypeInv'
  <2>1. /\ step[w] = "update" /\ ~Idle(w) /\ Move(w, "ack")
        /\ UNCHANGED <<todo, queueVars, outcomeVars, mishapVars>>
    BY <1>10 DEF Update, Idle
  <2>2. Pos(w) \in Position /\ snap[w] \in Row
    BY <1>t, <2>1, HeldTyped DEF WorkInv, TypeOK
  <2>3. RowsTypeOK'
    <3>1. CASE WriteBack(Pos(w), snap[w])
      BY <1>t, <2>2, <3>1, WrittenBack DEF TypeOK
    <3>2. CASE UNCHANGED tables
      BY <1>t, <3>2 DEF TypeOK, RowsTypeOK, tables
    <3>3. QED
      BY <1>10, <3>1, <3>2 DEF Update
  <2>4. WorkInv'
    BY <1>m, <2>1 DEF queueVars
  <2>5. QED
    BY <1>a, <1>s, <1>t, <2>1, <2>3, <2>4 DEF TypeInv, TypeOK, queueVars, outcomeVars, mishapVars
<1>11. ASSUME NEW w \in Worker, Alert(w) PROVE TypeInv'
  <2>1. /\ step[w] = "alert" /\ ~Idle(w) /\ Move(w, "ack")
        /\ alerts' = [alerts EXCEPT ![held[w]] = @ + 1]
        /\ UNCHANGED <<tables, todo, queueVars, monitorings, triggered, messages, idled, mishapVars>>
    BY <1>11 DEF Alert, Idle
  <2>2. held[w] \in Entry
    BY <2>1, HeldTyped
  <2>3. alerts' \in Counter
    BY <1>t, <2>1, <2>2, Counted DEF TypeOK
  <2>4. WorkInv'
    BY <1>m, <2>1 DEF queueVars
  <2>5. QED
    BY <1>a, <1>s, <1>t, <2>1, <2>3, <2>4 DEF TypeInv, TypeOK, RowsTypeOK, tables, queueVars, mishapVars
<1>12. ASSUME NEW w \in Worker, Ack(w) PROVE TypeInv'
  <2>1. /\ step[w] = "ack" /\ ~late[w] /\ pending' = pending \ {held[w]} /\ Move(w, "del")
        /\ UNCHANGED <<tables, todo, task, last, delivered, stream, count, outcomeVars, mishapVars>>
    BY <1>12 DEF Ack
  <2>2. /\ step'[w] = "del" /\ UNCHANGED <<held, snap, late>>
        /\ \A v \in Worker \ {w} : step'[v] = step[v]
    BY <1>s, <1>t, <2>1, MoveTyped
  <2>3. held[w] # None /\ \A v \in Worker \ {w} : held[v] = held[w] => late[v]
    BY <1>e, <1>t, <2>1, EntryFacts DEF WorkInv, Idle
  <2>4. WorkInv'
    <3>1. \A v \in Worker : ~Idle(v)' /\ ~late'[v] /\ step'[v] # "del" => held'[v] \in pending'
      BY <1>t, <2>1, <2>2, <2>3 DEF WorkInv, Idle
    <3>2. \A v \in Worker : Idle(v)' <=> Idle(v)
      BY <2>1, <2>2 DEF Idle
    <3>3. \A v \in Worker : step'[v] \in {"analyse", "store", "send", "update"} => snap'[v] # Null
      BY <1>t, <2>2 DEF WorkInv
    <3>4. step'["retrier"] = "check" => ~late'["retrier"]
      BY <1>t, <1>w, <2>2 DEF WorkInv
    <3>5. QED
      BY <1>t, <2>1, <2>2, <3>1, <3>2, <3>3, <3>4 DEF WorkInv
  <2>5. QED
    BY <1>a, <1>s, <1>t, <2>1, <2>4 DEF TypeInv, TypeOK, RowsTypeOK, tables, outcomeVars, mishapVars
<1>13. ASSUME NEW w \in Worker, Del(w) PROVE TypeInv'
  <2>1. /\ Leave(w) /\ stream' \subseteq stream
        /\ UNCHANGED <<tables, todo, task, last, delivered, pending, count, outcomeVars, mishapVars>>
    BY <1>13 DEF Del
  <2>2. QED
    BY <1>b, <1>t, <2>1 DEF TypeInv, TypeOK, RowsTypeOK, tables, outcomeVars, mishapVars
<1>14. ASSUME NEW w \in Worker, AckNDelFails(w) \/ Panic(w) PROVE TypeInv'
  <2>1. /\ Leave(w) \/ Take(w, None, "dead")
        /\ UNCHANGED <<tables, todo, queueVars, outcomeVars>>
        /\ mishaps' \in Nat /\ slips' \in Counter
    BY <1>14, <1>t, MishapTyped DEF AckNDelFails, Panic, mishapVars, TypeOK
  <2>2. QED
    BY <1>b, <1>t, <2>1 DEF TypeInv, TypeOK, RowsTypeOK, tables, queueVars, outcomeVars
<1>15. ASSUME NEW w \in Worker, Expire(w) PROVE TypeInv'
  <2>1. /\ ~Idle(w) /\ step[w] # "check" /\ late' = [late EXCEPT ![w] = TRUE]
        /\ UNCHANGED <<tables, todo, queueVars, step, held, snap, outcomeVars>>
        /\ mishaps' \in Nat /\ slips' \in Counter
    BY <1>15, <1>t, MishapTyped DEF Expire, Idle
  <2>2. late' \in [Worker -> BOOLEAN] /\ late'[w] = TRUE /\ \A v \in Worker \ {w} : late'[v] = late[v]
    BY <1>t, <2>1 DEF TypeOK
  <2>3. WorkInv'
    BY <1>t, <1>w, <2>1, <2>2 DEF WorkInv, Idle, queueVars
  <2>4. QED
    BY <1>t, <2>1, <2>2, <2>3 DEF TypeInv, TypeOK, RowsTypeOK, tables, queueVars, outcomeVars
<1>16. CASE Crash
  <2>1. mishaps' \in Nat /\ slips' \in Counter
    BY <1>16, <1>t, MishapTyped DEF Crash
  <2>2. WorkInv'
    BY <1>16, <1>w DEF Crash, WorkInv, Idle
  <2>3. QED
    BY <1>16, <1>s, <1>t, <2>1, <2>2 DEF TypeInv, TypeOK, RowsTypeOK, tables, Crash, queueVars, outcomeVars
<1>17. CASE UNCHANGED vars
  <2>1. WorkInv'
    BY <1>17, WorkFrame DEF vars, queueVars, workerVars
  <2>2. QED
    BY <1>17, <1>t, <2>1 DEF TypeInv, TypeOK, RowsTypeOK, tables, vars, queueVars, workerVars, outcomeVars, mishapVars
<1>18. CASE PublishNext \/ \E p \in Position : Ask(p)
  <2>1. ASSUME NEW p \in Position, Ask(p) PROVE TypeInv'
    BY <1>2, <2>1 DEF Ask
  <2>2. ASSUME NEW p \in todo, todo' = todo \ {p}, Enqueue(p, FALSE) \/ UNCHANGED queueVars,
               UNCHANGED <<tables, workerVars, outcomeVars, mishapVars>>
        PROVE  TypeInv'
    <3>1. p \in Position /\ todo' \subseteq todo
      BY <1>t, <2>2 DEF TypeOK
    <3>2. QED
      BY <1>2, <2>2, <3>1
  <2>3. QED
    BY <1>18, <2>1, <2>2 DEF PublishNext
<1>19. ASSUME NEW w \in Worker, StoreLost(w) PROVE TypeInv'
  <2>1. /\ step[w] = "store" /\ ~Idle(w)
        /\ monitorings' = [monitorings EXCEPT ![held[w]] = @ + 1]
        /\ Move(w, "alert") \/ Leave(w)
        /\ UNCHANGED <<tables, todo, queueVars, messages, alerts, idled>>
        /\ mishaps' \in Nat /\ slips' \in Counter
    BY <1>19, <1>t, MishapTyped DEF StoreLost, Idle
  <2>2. held[w] \in Entry
    BY <2>1, HeldTyped
  <2>3. PICK n \in {0, 1} : triggered' = [triggered EXCEPT ![held[w]] = @ + n]
    BY <1>19 DEF StoreLost
  <2>4. monitorings' \in Counter /\ triggered' \in Counter
    <3>1. n \in Nat
      OBVIOUS
    <3>2. triggered' \in Counter
      BY <1>t, <2>2, <2>3, <3>1, Counted DEF TypeOK
    <3>3. monitorings' \in Counter
      BY <1>t, <2>1, <2>2, Counted DEF TypeOK
    <3>4. QED
      BY <3>2, <3>3
  <2>5. WorkInv'
    BY <1>b, <1>m, <2>1 DEF queueVars
  <2>6. QED
    BY <1>a, <1>b, <1>s, <1>t, <2>1, <2>4, <2>5 DEF TypeInv, TypeOK, RowsTypeOK, tables, queueVars
<1>20. QED
  BY <1>1, <1>3, <1>4, <1>5, <1>6, <1>7, <1>8, <1>9, <1>10, <1>11, <1>12, <1>13, <1>14, <1>15,
     <1>16, <1>17, <1>18, <1>19 DEF Next, Advance, Execute

LEMMA TypeAlways == Spec => []TypeInv
BY TypeInit, TypeStep, PTL DEF Spec

\* The variables keep their types; in particular nothing that was not
\* published is delivered, and what is pending was delivered.
THEOREM TypeCorrect == Spec => []TypeOK
<1>1. TypeInv => TypeOK
  BY DEF TypeInv
<1>2. QED
  BY <1>1, TypeAlways, PTL

-----------------------------------------------------------------------------
(* The refinement of DeliveryQueue.                                        *)

Done(w) == step[w] \in {"send", "update", "ack"}

\* Who has dealt with an entry has left an outcome; so has nobody for an entry
\* that was not delivered.
OutcomeInv ==
  /\ \A w \in Worker : Done(w) => Outcomes[held[w]] > 0
  /\ \A e \in Entry : e > delivered => Outcomes[e] = 0

QueueState == [e \in Entry |-> State(e)]

LEMMA OutcomesTyped == TypeOK => \A e \in Entry : Outcomes[e] \in Nat
BY DEF TypeOK, Counter, Outcomes

\* The state of an entry, by where it is.
LEMMA StateCases ==
  ASSUME TypeOK, NEW e \in Entry
  PROVE  /\ e > last => QueueState[e] = "absent"
         /\ e > delivered /\ e <= last => QueueState[e] = "queued"
         /\ e \in pending => QueueState[e] = IF Outcomes[e] > 0 THEN "handled" ELSE "pending"
         /\ e <= delivered /\ e \notin pending => QueueState[e] = "settled"
<1>1. e \in Nat /\ last \in Nat /\ delivered \in Nat /\ delivered <= last
      /\ \A d \in pending : d \in 1..delivered
  BY EntryFacts, DeliveredTyped
<1>2. QueueState[e] = State(e)
  BY DEF QueueState
<1>3. QED
  BY <1>1, <1>2 DEF State

LEMMA StateDomain == QueueState = [e \in Entry |-> QueueState[e]] /\ DOMAIN QueueState = Entry
BY DEF QueueState

\* A step that leaves the queue and the outcomes alone is a stutter.
LEMMA QueueSame ==
  ASSUME UNCHANGED <<last, delivered, pending>>, Outcomes' = Outcomes
  PROVE  QueueState' = QueueState
BY DEF QueueState, State

\* A step that changes the state of one entry.
LEMMA QueueChange ==
  ASSUME NEW d \in Entry, \A e \in Entry \ {d} : QueueState'[e] = QueueState[e],
         NEW s, QueueState'[d] = s
  PROVE  QueueState' = [QueueState EXCEPT ![d] = s]
<1>1. QueueState' = [e \in Entry |-> QueueState'[e]]
  BY DEF QueueState
<1>2. QueueState = [e \in Entry |-> QueueState[e]]
  BY StateDomain
<1>3. QED
  BY <1>1, <1>2

\* An outcome handles a pending entry, unless it was already; one that a late
\* worker adds to a settled entry changes nothing.
LEMMA QueueHandled ==
  ASSUME TypeOK, TypeOK', NEW d \in Entry, d <= delivered,
         UNCHANGED <<last, delivered, pending>>,
         \A e \in Entry : Outcomes'[e] = Outcomes[e] + IF e = d THEN 1 ELSE 0
  PROVE  [Queue!Next]_QueueState
<1>1. \A e \in Entry : Outcomes[e] \in Nat
  BY OutcomesTyped
<1>2. \A e \in Entry \ {d} : Outcomes'[e] = Outcomes[e]
  BY <1>1
<1>3. \A e \in Entry \ {d} : QueueState'[e] = QueueState[e]
  BY <1>2 DEF QueueState, State
<1>4. QueueState'[d] = State(d)' /\ QueueState[d] = State(d)
  BY DEF QueueState
<1>5. delivered <= last /\ d \in Nat /\ delivered \in Nat /\ last \in Nat
  BY EntryFacts, DeliveredTyped
<1>6. CASE d \notin pending
  <2>1. State(d)' = State(d)
    BY <1>6 DEF State
  <2>2. QueueState' = [QueueState EXCEPT ![d] = QueueState[d]]
    BY <1>3, <1>4, <2>1, QueueChange
  <2>3. QueueState' = QueueState
    BY <2>2, StateDomain
  <2>4. QED
    BY <2>3
<1>7. CASE d \in pending
  <2>1. d \in pending' /\ Outcomes'[d] > 0
    BY <1>1, <1>7
  <2>2. QueueState'[d] = "handled"
    BY <1>4, <1>5, <2>1 DEF State
  <2>3. QueueState' = [QueueState EXCEPT ![d] = "handled"]
    BY <1>3, <2>2, QueueChange
  <2>4. CASE Outcomes[d] > 0
    <3>1. QueueState[d] = "handled"
      BY <1>7, <2>4, StateCases
    <3>2. QueueState' = QueueState
      BY <2>3, <3>1, StateDomain
    <3>3. QED
      BY <3>2
  <2>5. CASE Outcomes[d] = 0
    <3>1. QueueState[d] = "pending"
      BY <1>7, <2>5, StateCases
    <3>2. Queue!Handle(d)
      BY <2>3, <3>1 DEF Queue!Handle, Queue!Change, QueueState
    <3>3. QED
      BY <3>2 DEF Queue!Next
  <2>6. QED
    BY <1>1, <2>4, <2>5
<1>8. QED
  BY <1>6, <1>7

LEMMA QueueInit == Init => Queue!Init
<1> SUFFICES ASSUME Init PROVE QueueState = [e \in Entry |-> "absent"]
  BY DEF Queue!Init, QueueState
<1>1. TypeOK /\ \A e \in Entry : e > last
  BY MonitorAssumption, TypeInit DEF Init, Entry, TypeInv
<1>2. \A e \in Entry : QueueState[e] = "absent"
  BY <1>1, StateCases
<1>3. QED
  BY <1>2, StateDomain

LEMMA QueuePublish ==
  ASSUME TypeOK, TypeOK', NEW d \in Entry, d = last + 1, last' = d,
         UNCHANGED <<delivered, pending>>, Outcomes' = Outcomes
  PROVE  [Queue!Next]_QueueState
<1>1. /\ last \in Nat /\ delivered \in Nat /\ delivered <= last
      /\ pending \subseteq 1..delivered
  BY DeliveredTyped
<1>2. QueueState[d] = "absent"
  BY <1>1, StateCases
<1>3. QueueState'[d] = "queued"
  <2>1. ~(d > last') /\ d \in (delivered' + 1)..last' /\ d \notin pending'
    BY <1>1
  <2>2. QueueState'[d] = State(d)'
    BY DEF QueueState
  <2>3. QED
    BY <2>1, <2>2 DEF State
<1>4. \A e \in Entry \ {d} : QueueState'[e] = QueueState[e]
  <2>1. ASSUME NEW e \in Entry \ {d} PROVE QueueState'[e] = QueueState[e]
    <3>1. e \in Nat /\ e # last + 1
      BY EntryFacts
    <3>2. CASE e > last
      <4>1. e > last'
        BY <1>1, <3>1, <3>2
      <4>2. QueueState'[e] = "absent"
        <5>1. QueueState'[e] = State(e)'
          BY DEF QueueState
        <5>2. QED
          BY <1>1, <3>1, <4>1, <5>1 DEF State
      <4>3. QED
        BY <3>2, <4>2, StateCases
    <3>3. CASE ~(e > last)
      <4>1. /\ ~(e > last')
            /\ (e \in (delivered' + 1)..(last')) <=> (e \in (delivered + 1)..last)
        BY <1>1, <3>1, <3>3
      <4>2. State(e)' = State(e)
        BY <3>3, <4>1 DEF State
      <4>3. QED
        BY <4>2 DEF QueueState
    <3>4. QED
      BY <3>2, <3>3
  <2>2. QED
    BY <2>1
<1>5. QueueState' = [QueueState EXCEPT ![d] = "queued"]
  BY <1>3, <1>4, QueueChange
<1>6. Queue!Publish(d)
  BY <1>2, <1>5 DEF Queue!Publish, Queue!Change, QueueState
<1>7. QED
  BY <1>6 DEF Queue!Next

LEMMA QueueDeliver ==
  ASSUME TypeOK, TypeOK', NEW d \in Entry, d = delivered + 1, d <= last, delivered' = d,
         pending' = pending \cup {d}, last' = last, Outcomes' = Outcomes, Outcomes[d] = 0
  PROVE  [Queue!Next]_QueueState
<1>1. last \in Nat /\ delivered \in Nat /\ delivered <= last /\ Entry \subseteq Nat
  BY DeliveredTyped, EntryFacts
<1>2. QueueState[d] = "queued"
  BY <1>1, StateCases
<1>3. QueueState'[d] = "pending"
  BY <1>1 DEF QueueState, State
<1>4. \A e \in Entry \ {d} : QueueState'[e] = QueueState[e]
  BY <1>1 DEF QueueState, State
<1>5. QueueState' = [QueueState EXCEPT ![d] = "pending"]
  BY <1>3, <1>4, QueueChange
<1>6. ASSUME NEW e \in Entry, e < d PROVE QueueState[e] # "queued"
  <2>1. e <= delivered /\ e \in Nat
    BY <1>1, <1>6
  <2>2. QED
    BY <2>1, StateCases
<1>7. Queue!Deliver(d)
  BY <1>2, <1>5, <1>6 DEF Queue!Deliver, Queue!Change, QueueState
<1>8. QED
  BY <1>7 DEF Queue!Next

LEMMA QueueSettle ==
  ASSUME TypeOK, NEW d \in Entry, d \in pending, Outcomes[d] > 0, pending' = pending \ {d},
         UNCHANGED <<last, delivered>>, Outcomes' = Outcomes
  PROVE  [Queue!Next]_QueueState
<1>1. QueueState[d] = "handled"
  BY StateCases
<1>2. d <= delivered /\ d \in Nat /\ delivered \in Nat /\ delivered <= last /\ last \in Nat
  BY DeliveredTyped, EntryFacts
<1>3. QueueState'[d] = "settled"
  BY <1>2 DEF QueueState, State
<1>4. \A e \in Entry \ {d} : QueueState'[e] = QueueState[e]
  BY DEF QueueState, State
<1>5. QueueState' = [QueueState EXCEPT ![d] = "settled"]
  BY <1>3, <1>4, QueueChange
<1>6. Queue!Settle(d)
  BY <1>1, <1>5 DEF Queue!Settle, Queue!Change, QueueState
<1>7. QED
  BY <1>6 DEF Queue!Next

\* Steps that add no outcome, and the one outcome a worker adds.
LEMMA OutcomeKept ==
  ASSUME TypeOK, OutcomeInv, Outcomes' = Outcomes, delivered' \in Nat, delivered <= delivered',
         \A v \in Worker : Done(v)' => Done(v) /\ held'[v] = held[v]
  PROVE  OutcomeInv'
<1>1. delivered \in Nat /\ Entry \subseteq Nat
  BY DeliveredTyped, EntryFacts
<1>2. ASSUME NEW e \in Entry, e > delivered' PROVE e > delivered
  BY <1>1, <1>2
<1>3. QED
  BY <1>2 DEF OutcomeInv

LEMMA OutcomeAdded ==
  ASSUME TypeInv, OutcomeInv, NEW w \in Worker, ~Idle(w), UNCHANGED delivered,
         \A e \in Entry : Outcomes'[e] = Outcomes[e] + IF e = held[w] THEN 1 ELSE 0,
         Done(w)' => held'[w] = held[w],
         \A v \in Worker \ {w} : step'[v] = step[v] /\ held'[v] = held[v]
  PROVE  OutcomeInv'
<1>1. TypeOK /\ held[w] \in Entry
  BY HeldTyped DEF TypeInv
<1>2. \A e \in Entry : Outcomes[e] \in Nat
  BY <1>1, OutcomesTyped
<1>3. \A e \in Entry : Outcomes[e] > 0 => Outcomes'[e] > 0
  BY <1>2
<1>4. Outcomes'[held[w]] > 0
  BY <1>1, <1>2
<1>5. \A v \in Worker : Done(v)' => Outcomes'[held'[v]] > 0
  <2>1. ASSUME NEW v \in Worker \ {w}, Done(v)' PROVE Outcomes'[held'[v]] > 0
    <3>1. Done(v) /\ ~Idle(v)
      BY <2>1 DEF Done, Idle
    <3>2. held[v] \in Entry
      BY <3>1, HeldTyped
    <3>3. QED
      BY <1>3, <3>1, <3>2 DEF OutcomeInv
  <2>2. QED
    BY <1>4, <2>1
<1>6. \A e \in Entry : e > delivered' => Outcomes'[e] = 0
  <2>1. \A e \in Entry : e > delivered => e # held[w]
    <3>1. held[w] \in 1..delivered /\ delivered \in Nat
      BY <1>1, DeliveredTyped DEF TypeInv, WorkInv
    <3>2. QED
      BY <3>1, EntryFacts
  <2>2. QED
    BY <1>2, <2>1 DEF OutcomeInv
<1>7. QED
  BY <1>5, <1>6 DEF OutcomeInv

LEMMA OutcomesSame ==
  ASSUME UNCHANGED <<monitorings, idled, alerts>>
  PROVE  Outcomes' = Outcomes
BY DEF Outcomes

\* One more in one of the three counters is one more outcome.
LEMMA OutcomesCounted ==
  ASSUME TypeOK, NEW d \in Entry,
         \/ monitorings' = [monitorings EXCEPT ![d] = @ + 1] /\ UNCHANGED <<idled, alerts>>
         \/ idled' = [idled EXCEPT ![d] = @ + 1] /\ UNCHANGED <<monitorings, alerts>>
         \/ alerts' = [alerts EXCEPT ![d] = @ + 1] /\ UNCHANGED <<monitorings, idled>>
  PROVE  \A e \in Entry : Outcomes'[e] = Outcomes[e] + IF e = d THEN 1 ELSE 0
<1>1. \A e \in Entry : monitorings[e] \in Nat /\ idled[e] \in Nat /\ alerts[e] \in Nat
  BY DEF TypeOK, Counter
<1>2. \A e \in Entry : /\ Outcomes[e] = monitorings[e] + idled[e] + alerts[e]
                       /\ Outcomes'[e] = monitorings'[e] + idled'[e] + alerts'[e]
  BY DEF Outcomes
<1>3. CASE monitorings' = [monitorings EXCEPT ![d] = @ + 1] /\ UNCHANGED <<idled, alerts>>
  <2>1. \A e \in Entry : monitorings'[e] = monitorings[e] + IF e = d THEN 1 ELSE 0
    BY <1>1, <1>3, Counted DEF TypeOK
  <2>2. QED
    <3>1. ASSUME NEW e \in Entry PROVE Outcomes'[e] = Outcomes[e] + IF e = d THEN 1 ELSE 0
      BY <1>1, <1>2, <1>3, <2>1
    <3>2. QED
      BY <3>1
<1>4. CASE idled' = [idled EXCEPT ![d] = @ + 1] /\ UNCHANGED <<monitorings, alerts>>
  <2>1. \A e \in Entry : idled'[e] = idled[e] + IF e = d THEN 1 ELSE 0
    BY <1>1, <1>4, Counted DEF TypeOK
  <2>2. QED
    <3>1. ASSUME NEW e \in Entry PROVE Outcomes'[e] = Outcomes[e] + IF e = d THEN 1 ELSE 0
      BY <1>1, <1>2, <1>4, <2>1
    <3>2. QED
      BY <3>1
<1>5. CASE alerts' = [alerts EXCEPT ![d] = @ + 1] /\ UNCHANGED <<monitorings, idled>>
  <2>1. \A e \in Entry : alerts'[e] = alerts[e] + IF e = d THEN 1 ELSE 0
    BY <1>1, <1>5, Counted DEF TypeOK
  <2>2. QED
    <3>1. ASSUME NEW e \in Entry PROVE Outcomes'[e] = Outcomes[e] + IF e = d THEN 1 ELSE 0
      BY <1>1, <1>2, <1>5, <2>1
    <3>2. QED
      BY <3>1
<1>6. QED
  BY <1>3, <1>4, <1>5

\* Every step maps to a step of DeliveryQueue or to a stutter.
LEMMA QueueStep ==
  ASSUME TypeInv, TypeInv', OutcomeInv, [Next]_vars
  PROVE  OutcomeInv' /\ [Queue!Next]_QueueState
<1>t. TypeOK /\ TypeOK' /\ WorkInv
  BY DEF TypeInv
<1>e. last \in Nat /\ delivered \in Nat /\ delivered <= last /\ last <= MaxEntries
      /\ 1..delivered \subseteq Entry /\ pending \subseteq Entry /\ pending \subseteq 1..delivered
  BY <1>t, DeliveredTyped
<1>s. Step = {"free", "check", "read", "analyse", "store", "send", "update",
              "alert", "ack", "del", "dead"} /\ "reader" \in Worker /\ "retrier" \in Worker
  BY EntryFacts DEF Step
<1>a. ASSUME UNCHANGED <<last, delivered, pending, monitorings, idled, alerts>>,
             \A v \in Worker : Done(v)' => Done(v) /\ held'[v] = held[v]
      PROVE  OutcomeInv' /\ [Queue!Next]_QueueState
  BY <1>a, <1>e, <1>t, OutcomesSame, OutcomeKept, QueueSame
<1>b. ASSUME NEW w \in Worker, NEW e \in Entry \cup {None}, NEW s \in {"free", "dead", "check", "read"},
             Take(w, e, s)
      PROVE  \A v \in Worker : Done(v)' => Done(v) /\ held'[v] = held[v]
  <2>1. step'[w] = s /\ \A v \in Worker \ {w} : step'[v] = step[v] /\ held'[v] = held[v]
    <3>1. s \in Step
      BY <1>s
    <3>2. QED
      BY <1>b, <1>t, <3>1, TakeTyped
  <2>2. QED
    BY <2>1 DEF Done
<1>c. ASSUME NEW w \in Worker, NEW s \in Step, Move(w, s), Done(w) \/ s \notin {"send", "update", "ack"}
      PROVE  \A v \in Worker : Done(v)' => Done(v) /\ held'[v] = held[v]
  <2>1. step'[w] = s /\ held' = held /\ \A v \in Worker \ {w} : step'[v] = step[v]
    BY <1>c, <1>t, MoveTyped
  <2>2. QED
    BY <1>c, <2>1 DEF Done
<1>d. ASSUME NEW w \in Worker, ~Idle(w), NEW s \in Step, Move(w, s) \/ Leave(w), UNCHANGED queueVars,
             \/ monitorings' = [monitorings EXCEPT ![held[w]] = @ + 1] /\ UNCHANGED <<idled, alerts>>
             \/ idled' = [idled EXCEPT ![held[w]] = @ + 1] /\ UNCHANGED <<monitorings, alerts>>
             \/ alerts' = [alerts EXCEPT ![held[w]] = @ + 1] /\ UNCHANGED <<monitorings, idled>>
      PROVE  OutcomeInv' /\ [Queue!Next]_QueueState
  <2>1. held[w] \in Entry /\ held[w] <= delivered
    BY <1>d, <1>e, HeldTyped DEF TypeInv, WorkInv
  <2>2. \A e \in Entry : Outcomes'[e] = Outcomes[e] + IF e = held[w] THEN 1 ELSE 0
    BY <1>d, <1>t, <2>1, OutcomesCounted
  <2>3. /\ Done(w)' => held'[w] = held[w]
        /\ \A v \in Worker \ {w} : step'[v] = step[v] /\ held'[v] = held[v]
    <3>1. CASE Move(w, s)
      BY <1>t, <3>1, MoveTyped
    <3>2. CASE Leave(w)
      <4>1. /\ step'[w] = "free"
            /\ \A v \in Worker \ {w} : step'[v] = step[v] /\ held'[v] = held[v]
        BY <1>s, <1>t, <3>2, TakeTyped DEF Leave
      <4>2. QED
        BY <4>1 DEF Done
    <3>3. QED
      BY <1>d, <3>1, <3>2
  <2>4. UNCHANGED <<last, delivered, pending>>
    BY <1>d DEF queueVars
  <2>5. OutcomeInv'
    BY <1>d, <2>2, <2>3, <2>4, OutcomeAdded
  <2>6. [Queue!Next]_QueueState
    BY <1>t, <2>1, <2>2, <2>4, QueueHandled
  <2>7. QED
    BY <2>5, <2>6
<1>1. CASE Select \/ Bot \/ UNCHANGED vars
  <2>1. UNCHANGED <<last, delivered, pending, monitorings, idled, alerts, step, held>>
    BY <1>1 DEF Select, Bot, vars, queueVars, workerVars, outcomeVars
  <2>2. QED
    BY <1>a, <2>1 DEF Done
<1>2. ASSUME NEW p \in Position, NEW send \in BOOLEAN, Enqueue(p, send) \/ UNCHANGED queueVars,
             UNCHANGED <<workerVars, outcomeVars>>
      PROVE  OutcomeInv' /\ [Queue!Next]_QueueState
  <2>1. \A v \in Worker : Done(v)' => Done(v) /\ held'[v] = held[v]
    BY <1>2 DEF Done, workerVars
  <2>2. CASE UNCHANGED queueVars
    BY <1>2, <1>a, <2>1, <2>2 DEF queueVars, outcomeVars
  <2>3. CASE Enqueue(p, send)
    <3>1. PICK d \in Entry : d = last + 1
      BY <1>e, <2>3, MonitorAssumption DEF Enqueue, Entry
    <3>2. last' = d /\ UNCHANGED <<delivered, pending>>
      BY <2>3, <3>1 DEF Enqueue
    <3>3. Outcomes' = Outcomes
      BY <1>2, OutcomesSame DEF outcomeVars
    <3>4. QED
      BY <1>e, <1>t, <2>1, <3>1, <3>2, <3>3, OutcomeKept, QueuePublish
  <2>4. QED
    BY <1>2, <2>2, <2>3
<1>3. CASE Read
  <2>1. PICK d \in Entry : d = delivered + 1
    BY <1>3, <1>e, MonitorAssumption DEF Read, Entry
  <2>2. /\ delivered' = d /\ pending' = pending \cup {d} /\ d <= last /\ last' = last
        /\ Take("reader", d, "read") /\ UNCHANGED outcomeVars
    BY <1>3, <1>e, <2>1 DEF Read
  <2>3. Outcomes' = Outcomes
    BY <2>2, OutcomesSame DEF outcomeVars
  <2>4. d > delivered /\ d \in Nat /\ delivered <= d
    BY <1>e, <2>1
  <2>5. Outcomes[d] = 0
    BY <2>4 DEF OutcomeInv
  <2>6. [Queue!Next]_QueueState
    BY <1>t, <2>1, <2>2, <2>3, <2>5, QueueDeliver
  <2>7. OutcomeInv'
    BY <1>b, <1>s, <1>t, <2>2, <2>3, <2>4, OutcomeKept
  <2>8. QED
    BY <2>6, <2>7
<1>4. ASSUME NEW d \in Entry, Claim(d) PROVE OutcomeInv' /\ [Queue!Next]_QueueState
  <2>1. Take("retrier", d, "check") /\ UNCHANGED <<last, delivered, pending, outcomeVars>>
    BY <1>4 DEF Claim
  <2>2. QED
    BY <1>a, <1>b, <1>s, <2>1 DEF outcomeVars
<1>5. ASSUME NEW w \in Worker, Take(w, None, "free") \/ Take(w, None, "dead"),
             UNCHANGED <<last, delivered, pending, outcomeVars>>
      PROVE  OutcomeInv' /\ [Queue!Next]_QueueState
  BY <1>5, <1>a, <1>b DEF outcomeVars
<1>6. CASE CheckPending \/ CheckPendingFails
  <2>1. (Move("retrier", "read") \/ Take("retrier", None, "free")) /\ UNCHANGED <<queueVars, outcomeVars>>
    BY <1>6 DEF CheckPending, CheckPendingFails, Leave
  <2>2. CASE Move("retrier", "read")
    BY <1>a, <1>c, <1>s, <2>1, <2>2 DEF queueVars, outcomeVars
  <2>3. CASE Take("retrier", None, "free")
    BY <1>5, <1>s, <2>1, <2>3 DEF queueVars
  <2>4. QED
    BY <2>1, <2>2, <2>3
<1>7. ASSUME NEW w \in Worker, ReadPosition(w) PROVE OutcomeInv' /\ [Queue!Next]_QueueState
  <2>1. step[w] = "read" /\ ~Idle(w) /\ UNCHANGED <<queueVars, monitorings, alerts>>
    BY <1>7 DEF ReadPosition, Idle
  <2>2. CASE Open(Pos(w))
    <3>1. step' = [step EXCEPT ![w] = "analyse"] /\ UNCHANGED <<held, idled>>
      BY <1>7, <2>2 DEF ReadPosition
    <3>2. \A v \in Worker : Done(v)' => Done(v) /\ held'[v] = held[v]
      BY <1>t, <3>1 DEF Done, TypeOK
    <3>3. QED
      BY <1>a, <2>1, <3>1, <3>2 DEF queueVars
  <2>3. CASE ~Open(Pos(w))
    <3>1. Move(w, "ack") /\ idled' = [idled EXCEPT ![held[w]] = @ + 1]
      BY <1>7, <2>3 DEF ReadPosition
    <3>2. QED
      BY <1>d, <1>s, <2>1, <3>1
  <2>4. QED
    BY <2>2, <2>3
<1>8. ASSUME NEW w \in Worker, Analyse(w) \/ ExecuteFails(w) PROVE OutcomeInv' /\ [Queue!Next]_QueueState
  <2>1. UNCHANGED <<queueVars, outcomeVars>>
        /\ (Move(w, "store") \/ Move(w, "alert") \/ Take(w, None, "free"))
    BY <1>8 DEF Analyse, ExecuteFails, Leave
  <2>2. CASE Move(w, "store") \/ Move(w, "alert")
    BY <1>a, <1>c, <1>s, <2>1, <2>2 DEF queueVars, outcomeVars
  <2>3. CASE Take(w, None, "free")
    BY <1>5, <2>1, <2>3 DEF queueVars
  <2>4. QED
    BY <2>1, <2>2, <2>3
<1>9. ASSUME NEW w \in Worker, StoreMonitoring(w) PROVE OutcomeInv' /\ [Queue!Next]_QueueState
  <2>1. /\ ~Idle(w) /\ UNCHANGED <<queueVars, idled, alerts>> /\ (Move(w, "send") \/ Move(w, "ack"))
        /\ monitorings' = [monitorings EXCEPT ![held[w]] = @ + 1]
    BY <1>9 DEF StoreMonitoring, Idle
  <2>2. QED
    BY <1>d, <1>s, <2>1
<1>10. ASSUME NEW w \in Worker, Send(w) \/ Update(w) PROVE OutcomeInv' /\ [Queue!Next]_QueueState
  <2>1. /\ Done(w) /\ UNCHANGED <<queueVars, monitorings, idled, alerts>>
        /\ (Move(w, "update") \/ Move(w, "ack"))
    BY <1>10 DEF Send, Update, Done, outcomeVars
  <2>2. QED
    BY <1>a, <1>c, <1>s, <2>1 DEF queueVars
<1>11. ASSUME NEW w \in Worker, Alert(w) PROVE OutcomeInv' /\ [Queue!Next]_QueueState
  <2>1. /\ ~Idle(w) /\ UNCHANGED <<queueVars, idled, monitorings>> /\ Move(w, "ack")
        /\ alerts' = [alerts EXCEPT ![held[w]] = @ + 1]
    BY <1>11 DEF Alert, Idle
  <2>2. QED
    BY <1>d, <1>s, <2>1
<1>12. ASSUME NEW w \in Worker, Ack(w) PROVE OutcomeInv' /\ [Queue!Next]_QueueState
  <2>1. /\ step[w] = "ack" /\ ~late[w] /\ pending' = pending \ {held[w]} /\ Move(w, "del")
        /\ UNCHANGED <<last, delivered, outcomeVars>>
    BY <1>12 DEF Ack
  <2>2. Outcomes' = Outcomes
    BY <2>1, OutcomesSame DEF outcomeVars
  <2>3. held[w] \in pending /\ held[w] \in Entry /\ Outcomes[held[w]] > 0
    BY <1>e, <1>t, <2>1 DEF WorkInv, Idle, OutcomeInv, Done
  <2>4. [Queue!Next]_QueueState
    BY <1>t, <2>1, <2>2, <2>3, QueueSettle
  <2>5. OutcomeInv'
    BY <1>c, <1>e, <1>s, <1>t, <2>1, <2>2, OutcomeKept
  <2>6. QED
    BY <2>4, <2>5
<1>13. ASSUME NEW w \in Worker, Del(w) \/ AckNDelFails(w) \/ Panic(w)
       PROVE  OutcomeInv' /\ [Queue!Next]_QueueState
  <2>1. /\ Take(w, None, "free") \/ Take(w, None, "dead")
        /\ UNCHANGED <<last, delivered, pending, outcomeVars>>
    BY <1>13 DEF Del, AckNDelFails, Panic, Leave, queueVars
  <2>2. QED
    BY <1>5, <2>1
<1>14. ASSUME NEW w \in Worker, Expire(w) PROVE OutcomeInv' /\ [Queue!Next]_QueueState
  <2>1. UNCHANGED <<last, delivered, pending, step, held, monitorings, idled, alerts>>
    BY <1>14 DEF Expire, queueVars, outcomeVars
  <2>2. QED
    BY <1>a, <2>1 DEF Done
<1>15. CASE Crash
  <2>1. /\ UNCHANGED <<last, delivered, pending, monitorings, idled, alerts>>
        /\ \A v \in Worker : step'[v] = "free"
    BY <1>15 DEF Crash, queueVars, outcomeVars
  <2>2. QED
    BY <1>a, <2>1 DEF Done
<1>16. CASE PublishNext \/ \E p \in Position : Ask(p)
  <2>1. todo \subseteq Position
    BY <1>t DEF TypeOK
  <2>2. QED
    BY <1>16, <1>2, <2>1 DEF PublishNext, Ask
<1>17. ASSUME NEW w \in Worker, StoreLost(w) PROVE OutcomeInv' /\ [Queue!Next]_QueueState
  <2>1. /\ ~Idle(w) /\ UNCHANGED <<queueVars, idled, alerts>> /\ (Move(w, "alert") \/ Leave(w))
        /\ monitorings' = [monitorings EXCEPT ![held[w]] = @ + 1]
    BY <1>17 DEF StoreLost, Idle
  <2>2. QED
    BY <1>d, <1>s, <2>1
<1>18. QED
  BY <1>1, <1>3, <1>4, <1>6, <1>7, <1>8, <1>9, <1>10, <1>11, <1>12, <1>13, <1>14, <1>15, <1>16, <1>17
     DEF Next, Advance, Execute

LEMMA OutcomeAlways == Spec => []OutcomeInv /\ [][Queue!Next]_QueueState
<1>1. Init => OutcomeInv
  <2>1. Init => \A w \in Worker : ~Done(w)
    BY DEF Init, Done
  <2>2. Init => \A e \in Entry : Outcomes[e] = 0
    BY DEF Init, Outcomes, Zero
  <2>3. QED
    BY <2>1, <2>2 DEF OutcomeInv
<1>2. TypeInv /\ TypeInv' /\ OutcomeInv /\ [Next]_vars => OutcomeInv' /\ [Queue!Next]_QueueState
  BY QueueStep
<1>3. QED
  BY <1>1, <1>2, TypeAlways, PTL DEF Spec

\* Refinement: the two goroutines, with claims, retries, deadlines, panics and
\* crashes, implement DeliveryQueue: entries are delivered in their order, and
\* one is acknowledged only after a row, a closed position or an alert.
THEOREM ImplementsDeliveryQueue == Spec => QueueSpec
BY QueueInit, OutcomeAlways, PTL DEF QueueSpec, Queue!Spec, Spec, QueueState

-----------------------------------------------------------------------------
(* One row and one message per entry.                                      *)
(* The balance of an entry: every mishap pays for one execution more.  A   *)
(* worker whose context has ended and who may still store a row holds on   *)
(* to what its mishap paid; one who has stored it in time stands in for    *)
(* the acknowledgement to come.                                            *)

RowShare == [w \in Worker |-> [e \in Entry |->
  IF held[w] # e THEN 0
  ELSE IF late[w] THEN IF step[w] \in {"read", "analyse", "store"} THEN -1 ELSE 0
  ELSE IF Done(w) THEN 1 ELSE 0]]

MessageShare == [w \in Worker |-> [e \in Entry |->
  IF held[w] # e THEN 0
  ELSE IF late[w] THEN IF step[w] \in {"read", "analyse", "store"} THEN -1 ELSE 0
  ELSE IF step[w] = "send" THEN 1 ELSE 0]]

Acknowledged == [e \in Entry |-> IF e \in pending THEN 0 ELSE 1]

BalanceInv ==
  \A e \in Entry :
    /\ monitorings[e] <= slips[e] + Acknowledged[e] + RowShare["reader"][e] + RowShare["retrier"][e]
    /\ triggered[e] <= messages[e] + slips[e] + MessageShare["reader"][e] + MessageShare["retrier"][e]

LEMMA ShareTyped ==
  ASSUME NEW w \in Worker, NEW e \in Entry
  PROVE  /\ RowShare[w][e] \in Int /\ MessageShare[w][e] \in Int
         /\ RowShare'[w][e] \in Int /\ MessageShare'[w][e] \in Int
         /\ Acknowledged[e] \in 0..1 /\ Acknowledged'[e] \in 0..1
BY DEF RowShare, MessageShare, Acknowledged

LEMMA Share ==
  ASSUME NEW w \in Worker, NEW e \in Entry
  PROVE  /\ held[w] # e => RowShare[w][e] = 0 /\ MessageShare[w][e] = 0
         /\ held[w] = e /\ late[w] /\ step[w] \in {"read", "analyse", "store"}
              => RowShare[w][e] = -1 /\ MessageShare[w][e] = -1
         /\ held[w] = e /\ late[w] /\ step[w] \notin {"read", "analyse", "store"}
              => RowShare[w][e] = 0 /\ MessageShare[w][e] = 0
         /\ held[w] = e /\ ~late[w] /\ step[w] = "send"
              => RowShare[w][e] = 1 /\ MessageShare[w][e] = 1
         /\ held[w] = e /\ ~late[w] /\ step[w] \in {"update", "ack"}
              => RowShare[w][e] = 1 /\ MessageShare[w][e] = 0
         /\ held[w] = e /\ ~late[w] /\ step[w] \notin {"send", "update", "ack"}
              => RowShare[w][e] = 0 /\ MessageShare[w][e] = 0
BY DEF RowShare, MessageShare, Done

LEMMA ShareAfter ==
  ASSUME NEW w \in Worker, NEW e \in Entry
  PROVE  /\ held'[w] # e => RowShare'[w][e] = 0 /\ MessageShare'[w][e] = 0
         /\ held'[w] = e /\ late'[w] /\ step'[w] \in {"read", "analyse", "store"}
              => RowShare'[w][e] = -1 /\ MessageShare'[w][e] = -1
         /\ held'[w] = e /\ late'[w] /\ step'[w] \notin {"read", "analyse", "store"}
              => RowShare'[w][e] = 0 /\ MessageShare'[w][e] = 0
         /\ held'[w] = e /\ ~late'[w] /\ step'[w] = "send"
              => RowShare'[w][e] = 1 /\ MessageShare'[w][e] = 1
         /\ held'[w] = e /\ ~late'[w] /\ step'[w] \in {"update", "ack"}
              => RowShare'[w][e] = 1 /\ MessageShare'[w][e] = 0
         /\ held'[w] = e /\ ~late'[w] /\ step'[w] \notin {"send", "update", "ack"}
              => RowShare'[w][e] = 0 /\ MessageShare'[w][e] = 0
BY DEF RowShare, MessageShare, Done

LEMMA CountersTyped ==
  ASSUME TypeOK, NEW e \in Entry
  PROVE  monitorings[e] \in Nat /\ triggered[e] \in Nat /\ messages[e] \in Nat /\ slips[e] \in Nat
BY DEF TypeOK, Counter

LEMMA CountersTypedAfter ==
  ASSUME TypeOK', NEW e \in Entry
  PROVE  monitorings'[e] \in Nat /\ triggered'[e] \in Nat /\ messages'[e] \in Nat /\ slips'[e] \in Nat
BY DEF TypeOK, Counter

\* A step of one worker that is paid for keeps the balance.
LEMMA Balanced ==
  ASSUME TypeOK, TypeOK', BalanceInv, NEW w \in Worker,
         \A v \in Worker \ {w} : step'[v] = step[v] /\ held'[v] = held[v] /\ late'[v] = late[v],
         \A e \in Entry :
           /\ monitorings'[e] + slips[e] + Acknowledged[e] + RowShare[w][e]
                <= monitorings[e] + slips'[e] + Acknowledged'[e] + RowShare'[w][e]
           /\ triggered'[e] + messages[e] + slips[e] + MessageShare[w][e]
                <= triggered[e] + messages'[e] + slips'[e] + MessageShare'[w][e]
  PROVE  BalanceInv'
<1>1. \A v \in Worker \ {w} : \A e \in Entry :
        RowShare'[v][e] = RowShare[v][e] /\ MessageShare'[v][e] = MessageShare[v][e]
  BY DEF RowShare, MessageShare, Done
<1>2. ASSUME NEW e \in Entry
      PROVE  /\ monitorings'[e] <= slips'[e] + Acknowledged'[e] + RowShare'["reader"][e] + RowShare'["retrier"][e]
             /\ triggered'[e] <= messages'[e] + slips'[e] + MessageShare'["reader"][e] + MessageShare'["retrier"][e]
  <2>1. /\ monitorings[e] \in Nat /\ triggered[e] \in Nat /\ messages[e] \in Nat /\ slips[e] \in Nat
        /\ monitorings'[e] \in Nat /\ triggered'[e] \in Nat /\ messages'[e] \in Nat /\ slips'[e] \in Nat
    BY CountersTyped, CountersTypedAfter
  <2>2. "reader" \in Worker /\ "retrier" \in Worker /\ w \in {"reader", "retrier"}
    BY EntryFacts
  <2>3. /\ Acknowledged[e] \in Int /\ Acknowledged'[e] \in Int
        /\ \A v \in Worker : /\ RowShare[v][e] \in Int /\ MessageShare[v][e] \in Int
                             /\ RowShare'[v][e] \in Int /\ MessageShare'[v][e] \in Int
    BY ShareTyped
  <2>4. /\ monitorings[e] <= slips[e] + Acknowledged[e] + RowShare["reader"][e] + RowShare["retrier"][e]
        /\ triggered[e] <= messages[e] + slips[e] + MessageShare["reader"][e] + MessageShare["retrier"][e]
    BY DEF BalanceInv
  <2>5. CASE w = "reader"
    <3>1. /\ RowShare'["retrier"][e] = RowShare["retrier"][e]
          /\ MessageShare'["retrier"][e] = MessageShare["retrier"][e]
      BY <1>1, <2>2, <2>5
    <3>2. QED
      BY <2>1, <2>2, <2>3, <2>4, <2>5, <3>1
  <2>6. CASE w = "retrier"
    <3>1. /\ RowShare'["reader"][e] = RowShare["reader"][e]
          /\ MessageShare'["reader"][e] = MessageShare["reader"][e]
      BY <1>1, <2>2, <2>6
    <3>2. QED
      BY <2>1, <2>2, <2>3, <2>4, <2>6, <3>1
  <2>7. QED
    BY <2>2, <2>5, <2>6
<1>3. QED
  BY <1>2 DEF BalanceInv

\* One that works on entry d need only be paid for there.
LEMMA BalancedOn ==
  ASSUME TypeOK, TypeOK', BalanceInv, NEW w \in Worker, NEW d \in Entry, held[w] = d, held'[w] \in {d, None},
         \A v \in Worker \ {w} : step'[v] = step[v] /\ held'[v] = held[v] /\ late'[v] = late[v],
         \A e \in Entry \ {d} : /\ monitorings'[e] = monitorings[e] /\ triggered'[e] = triggered[e]
                                /\ messages'[e] = messages[e] /\ slips'[e] = slips[e]
                                /\ Acknowledged'[e] = Acknowledged[e],
         monitorings'[d] + slips[d] + Acknowledged[d] + RowShare[w][d]
           <= monitorings[d] + slips'[d] + Acknowledged'[d] + RowShare'[w][d],
         triggered'[d] + messages[d] + slips[d] + MessageShare[w][d]
           <= triggered[d] + messages'[d] + slips'[d] + MessageShare'[w][d]
  PROVE  BalanceInv'
<1>1. ASSUME NEW e \in Entry \ {d}
      PROVE  /\ monitorings'[e] + slips[e] + Acknowledged[e] + RowShare[w][e]
                  <= monitorings[e] + slips'[e] + Acknowledged'[e] + RowShare'[w][e]
             /\ triggered'[e] + messages[e] + slips[e] + MessageShare[w][e]
                  <= triggered[e] + messages'[e] + slips'[e] + MessageShare'[w][e]
  <2>1. held[w] # e /\ held'[w] # e
    BY EntryFacts
  <2>2. RowShare[w][e] = 0 /\ MessageShare[w][e] = 0 /\ RowShare'[w][e] = 0 /\ MessageShare'[w][e] = 0
    BY <2>1, Share, ShareAfter
  <2>3. /\ monitorings[e] \in Nat /\ triggered[e] \in Nat /\ messages[e] \in Nat /\ slips[e] \in Nat
        /\ Acknowledged[e] \in Int
    BY CountersTyped, ShareTyped
  <2>4. QED
    BY <2>2, <2>3
<1>2. QED
  BY <1>1, Balanced

\* A step that is paid for on d, by its kind: the worker goes on, or leaves.
LEMMA BalancedMove ==
  ASSUME TypeInv, TypeOK', BalanceInv, NEW w \in Worker, ~Idle(w), step[w] # "check",
         UNCHANGED <<monitorings, triggered, slips, messages, pending, held, late>>,
         step'[w] \in {"analyse", "store", "alert", "ack"},
         step'[w] = "ack" => step[w] # "send",
         step'[w] \in {"analyse", "store"} => step[w] \in {"read", "analyse"},
         step'[w] = "alert" => step[w] \in {"read", "analyse", "store"},
         \A v \in Worker \ {w} : step'[v] = step[v]
  PROVE  BalanceInv'
<1>1. PICK d \in Entry : held[w] = d
  BY HeldTyped
<1>2. Acknowledged' = Acknowledged /\ Acknowledged[d] \in Int
  BY ShareTyped DEF Acknowledged
<1>3. monitorings[d] \in Nat /\ triggered[d] \in Nat /\ messages[d] \in Nat /\ slips[d] \in Nat
  BY CountersTyped DEF TypeInv
<1>4. RowShare[w][d] \in Int /\ RowShare'[w][d] \in Int /\ MessageShare[w][d] \in Int /\ MessageShare'[w][d] \in Int
  BY ShareTyped
<1>5. RowShare[w][d] <= RowShare'[w][d] /\ MessageShare[w][d] <= MessageShare'[w][d]
  <2>1. CASE late[w]
    <3>1. held'[w] = d /\ late'[w]
      BY <1>1, <2>1
    <3>2. QED
      BY <1>1, <2>1, <3>1, Share, ShareAfter
  <2>2. CASE ~late[w]
    <3>1. held'[w] = d /\ ~late'[w]
      BY <1>1, <2>2
    <3>2. QED
      BY <1>1, <2>2, <3>1, Share, ShareAfter
  <2>3. QED
    BY <2>1, <2>2
<1>6. QED
  <2>1. held'[w] \in {d, None}
    BY <1>1
  <2>2. /\ monitorings'[d] + slips[d] + Acknowledged[d] + RowShare[w][d]
             <= monitorings[d] + slips'[d] + Acknowledged'[d] + RowShare'[w][d]
        /\ triggered'[d] + messages[d] + slips[d] + MessageShare[w][d]
             <= triggered[d] + messages'[d] + slips'[d] + MessageShare'[w][d]
    BY <1>2, <1>3, <1>4, <1>5
  <2>3. QED
    BY <1>1, <1>2, <2>1, <2>2, BalancedOn DEF TypeInv

\* Whoever leaves an entry after a mishap, or before it stored a row.
LEMMA BalancedLeave ==
  ASSUME TypeInv, TypeOK', BalanceInv, NEW w \in Worker, ~Idle(w),
         NEW s \in {"free", "dead"}, Take(w, None, s),
         UNCHANGED <<monitorings, triggered, messages, pending>>,
         NEW n \in 0..1,
         \A e \in Entry : slips'[e] = slips[e] + IF e = held[w] THEN n ELSE 0,
         n = 1 \/ late[w] \/ ~Done(w)
  PROVE  BalanceInv'
<1>1. PICK d \in Entry : held[w] = d
  BY HeldTyped
<1>2. Acknowledged' = Acknowledged /\ Acknowledged[d] \in Int
  BY ShareTyped DEF Acknowledged
<1>3. monitorings[d] \in Nat /\ triggered[d] \in Nat /\ messages[d] \in Nat /\ slips[d] \in Nat
  BY CountersTyped DEF TypeInv
<1>4. /\ held'[w] = None
      /\ \A v \in Worker \ {w} : step'[v] = step[v] /\ held'[v] = held[v] /\ late'[v] = late[v]
  <2>1. TypeOK /\ s \in Step
    BY DEF TypeInv, Step
  <2>2. QED
    BY <2>1, TakeTyped
<1>5. RowShare'[w][d] = 0 /\ MessageShare'[w][d] = 0
  BY <1>4, ShareAfter, EntryFacts
<1>6. RowShare[w][d] <= n /\ MessageShare[w][d] <= n
  <2>1. CASE n = 1
    BY <2>1 DEF RowShare, MessageShare
  <2>2. CASE late[w]
    BY <1>1, <2>2, Share
  <2>3. CASE n = 0 /\ ~late[w]
    <3>1. step[w] \notin {"send", "update", "ack"}
      BY <2>3 DEF Done
    <3>2. QED
      BY <1>1, <2>3, <3>1, Share
  <2>4. QED
    BY <2>1, <2>2, <2>3
<1>7. \A e \in Entry \ {d} : slips'[e] = slips[e]
  BY <1>1, CountersTyped DEF TypeInv
<1>8. slips'[d] = slips[d] + n /\ n \in Int
  BY <1>1
<1>9. RowShare[w][d] \in Int /\ MessageShare[w][d] \in Int
  BY ShareTyped
<1>10. /\ monitorings'[d] + slips[d] + Acknowledged[d] + RowShare[w][d]
             <= monitorings[d] + slips'[d] + Acknowledged'[d] + RowShare'[w][d]
       /\ triggered'[d] + messages[d] + slips[d] + MessageShare[w][d]
             <= triggered[d] + messages'[d] + slips'[d] + MessageShare'[w][d]
  BY <1>2, <1>3, <1>5, <1>6, <1>8, <1>9
<1>11. QED
  BY <1>1, <1>2, <1>4, <1>7, <1>10, BalancedOn DEF TypeInv

\* Only one worker whose context lasts works on an entry, and only while the
\* entry is pending.
LEMMA SharesBounded ==
  ASSUME TypeOK, WorkInv, NEW e \in Entry
  PROVE  /\ RowShare["reader"][e] + RowShare["retrier"][e] <= 1
         /\ MessageShare["reader"][e] + MessageShare["retrier"][e] <= 1
         /\ Acknowledged[e] + RowShare["reader"][e] + RowShare["retrier"][e] <= 1
<1>1. ASSUME NEW w \in Worker
      PROVE  /\ RowShare[w][e] \in {-1, 0, 1} /\ MessageShare[w][e] \in {-1, 0, 1}
             /\ RowShare[w][e] = 1 \/ MessageShare[w][e] = 1
                  => held[w] = e /\ ~late[w] /\ Done(w)
  BY DEF RowShare, MessageShare, Done
<1>2. ASSUME NEW w \in Worker, held[w] = e, ~late[w], Done(w) PROVE e \in pending
  BY <1>2 DEF WorkInv, Idle, Done
<1>3. ~(held["reader"] = e /\ ~late["reader"] /\ held["retrier"] = e /\ ~late["retrier"])
  BY EntryFacts DEF WorkInv
<1>4. Acknowledged[e] \in {0, 1} /\ (e \in pending => Acknowledged[e] = 0)
  BY DEF Acknowledged
<1>5. ~(RowShare["reader"][e] = 1 /\ RowShare["retrier"][e] = 1)
      /\ ~(MessageShare["reader"][e] = 1 /\ MessageShare["retrier"][e] = 1)
  BY <1>1, <1>3, EntryFacts
<1>6. RowShare["reader"][e] = 1 \/ RowShare["retrier"][e] = 1 => Acknowledged[e] = 0
  BY <1>1, <1>2, <1>4, EntryFacts
<1>7. /\ RowShare["reader"][e] \in {-1, 0, 1} /\ MessageShare["reader"][e] \in {-1, 0, 1}
      /\ RowShare["retrier"][e] \in {-1, 0, 1} /\ MessageShare["retrier"][e] \in {-1, 0, 1}
  BY <1>1, EntryFacts
<1>8. QED
  BY <1>4, <1>5, <1>6, <1>7

\* Every step is paid for.
LEMMA BalanceStep ==
  ASSUME TypeInv, TypeInv', OutcomeInv, BalanceInv, [Next]_vars
  PROVE  BalanceInv'
<1>t. TypeOK /\ TypeOK' /\ WorkInv
  BY DEF TypeInv
<1>e. last \in Nat /\ delivered \in Nat /\ delivered <= last /\ last <= MaxEntries
      /\ 1..delivered \subseteq Entry /\ pending \subseteq Entry /\ pending \subseteq 1..delivered
  BY <1>t, DeliveredTyped
<1>s. Step = {"free", "check", "read", "analyse", "store", "send", "update",
              "alert", "ack", "del", "dead"} /\ "reader" \in Worker /\ "retrier" \in Worker
  BY EntryFacts DEF Step
<1>a. ASSUME UNCHANGED <<step, held, late, pending, monitorings, triggered, messages, slips>>
      PROVE  BalanceInv'
  BY <1>a DEF BalanceInv, RowShare, MessageShare, Acknowledged, Done
<1>1. CASE Select \/ PublishNext \/ (\E p \in Position : Ask(p)) \/ Bot \/ UNCHANGED vars
  <2>1. UNCHANGED <<step, held, late, pending, monitorings, triggered, messages, slips>>
    BY <1>1 DEF Select, PublishNext, Ask, Enqueue, Bot, vars, queueVars, workerVars, outcomeVars, mishapVars
  <2>2. QED
    BY <1>a, <2>1
<1>2. CASE Read
  <2>1. PICK d \in Entry : d = delivered + 1
    BY <1>2, <1>e, MonitorAssumption DEF Read, Entry
  <2>2. /\ pending' = pending \cup {d} /\ step["reader"] = "free" /\ Take("reader", d, "read")
        /\ UNCHANGED <<monitorings, triggered, messages, alerts, idled, slips>>
    BY <1>2, <2>1 DEF Read, outcomeVars, mishapVars
  <2>3. /\ step'["reader"] = "read" /\ late'["reader"] = FALSE /\ held["reader"] = None
        /\ \A v \in Worker \ {"reader"} : step'[v] = step[v] /\ held'[v] = held[v] /\ late'[v] = late[v]
    BY <1>s, <1>t, <2>2, TakeTyped DEF WorkInv, Idle
  <2>4. \A e \in Entry : RowShare["reader"][e] = 0 /\ MessageShare["reader"][e] = 0
    BY <1>s, <2>3, Share, EntryFacts
  <2>5. \A e \in Entry : RowShare'["reader"][e] = 0 /\ MessageShare'["reader"][e] = 0
    BY <1>s, <2>3, ShareAfter
  <2>6. \A e \in Entry \ {d} : Acknowledged'[e] = Acknowledged[e]
    BY <2>2 DEF Acknowledged
  <2>7. Acknowledged'[d] = 0
    BY <2>2 DEF Acknowledged
  <2>8. monitorings[d] = 0
    <3>1. Outcomes[d] = 0
      <4>1. d > delivered
        BY <1>e, <2>1
      <4>2. QED
        BY <4>1 DEF OutcomeInv
    <3>2. monitorings[d] \in Nat /\ idled[d] \in Nat /\ alerts[d] \in Nat
      BY <1>t DEF TypeOK, Counter
    <3>3. Outcomes[d] = monitorings[d] + idled[d] + alerts[d]
      BY DEF Outcomes
    <3>4. QED
      BY <3>1, <3>2, <3>3
  <2>9. \A v \in Worker : held'[v] = d => v = "reader"
    <3>1. d \notin 1..delivered /\ d # None
      BY <1>e, <2>1, EntryFacts
    <3>2. QED
      BY <1>t, <2>3, <3>1 DEF WorkInv
  <2>10. ASSUME NEW e \in Entry
         PROVE  /\ monitorings'[e] <= slips'[e] + Acknowledged'[e] + RowShare'["reader"][e] + RowShare'["retrier"][e]
                /\ triggered'[e] <= messages'[e] + slips'[e] + MessageShare'["reader"][e] + MessageShare'["retrier"][e]
    <3>1. /\ monitorings[e] <= slips[e] + Acknowledged[e] + RowShare["reader"][e] + RowShare["retrier"][e]
          /\ triggered[e] <= messages[e] + slips[e] + MessageShare["reader"][e] + MessageShare["retrier"][e]
      BY DEF BalanceInv
    <3>2. RowShare'["retrier"][e] = RowShare["retrier"][e] /\ MessageShare'["retrier"][e] = MessageShare["retrier"][e]
      <4>1. /\ step'["retrier"] = step["retrier"] /\ held'["retrier"] = held["retrier"]
            /\ late'["retrier"] = late["retrier"]
        BY <1>s, <2>3
      <4>2. QED
        BY <1>s, <4>1 DEF RowShare, MessageShare, Done
    <3>3. /\ monitorings[e] \in Nat /\ triggered[e] \in Nat /\ messages[e] \in Nat /\ slips[e] \in Nat
          /\ Acknowledged[e] \in Int /\ RowShare["retrier"][e] \in Int /\ MessageShare["retrier"][e] \in Int
      BY <1>s, <1>t, CountersTyped, ShareTyped
    <3>4. CASE e # d
      BY <2>2, <2>4, <2>5, <2>6, <3>1, <3>2, <3>3, <3>4
    <3>5. CASE e = d
      <4>1. held'["retrier"] # d
        BY <1>s, <2>9
      <4>2. RowShare'["retrier"][d] = 0
        BY <1>s, <4>1, ShareAfter
      <4>3. QED
        BY <2>2, <2>4, <2>5, <2>7, <2>8, <3>1, <3>2, <3>3, <3>5, <4>2
    <3>6. QED
      BY <3>4, <3>5
  <2>11. QED
    BY <2>10 DEF BalanceInv
<1>3. ASSUME NEW d \in Entry, Claim(d) PROVE BalanceInv'
  <2>1. /\ step["retrier"] = "free" /\ Take("retrier", d, "check")
        /\ UNCHANGED <<pending, monitorings, triggered, messages, slips>>
    BY <1>3 DEF Claim, outcomeVars, mishapVars
  <2>2. /\ step'["retrier"] = "check" /\ late'["retrier"] = FALSE /\ held["retrier"] = None
        /\ \A v \in Worker \ {"retrier"} : step'[v] = step[v] /\ held'[v] = held[v] /\ late'[v] = late[v]
    BY <1>s, <1>t, <2>1, TakeTyped DEF WorkInv, Idle
  <2>3. \A e \in Entry : /\ RowShare["retrier"][e] = 0 /\ MessageShare["retrier"][e] = 0
                         /\ RowShare'["retrier"][e] = 0 /\ MessageShare'["retrier"][e] = 0
    BY <1>s, <2>2, Share, ShareAfter, EntryFacts
  <2>4. Acknowledged' = Acknowledged /\ \A e \in Entry : Acknowledged[e] \in Int
    BY <2>1, ShareTyped DEF Acknowledged
  <2>5. ASSUME NEW e \in Entry
        PROVE  /\ monitorings'[e] + slips[e] + Acknowledged[e] + RowShare["retrier"][e]
                    <= monitorings[e] + slips'[e] + Acknowledged'[e] + RowShare'["retrier"][e]
               /\ triggered'[e] + messages[e] + slips[e] + MessageShare["retrier"][e]
                    <= triggered[e] + messages'[e] + slips'[e] + MessageShare'["retrier"][e]
    BY <1>t, <2>1, <2>3, <2>4, CountersTyped
  <2>6. QED
    BY <1>s, <1>t, <2>2, <2>5, Balanced
<1>4. CASE CheckPending \/ CheckPendingFails
  <2>1. /\ step["retrier"] = "check" /\ ~Idle("retrier") /\ ~Done("retrier")
        /\ UNCHANGED <<pending, monitorings, triggered, messages>>
        /\ \A e \in Entry : slips'[e] = slips[e]
        /\ Move("retrier", "read") \/ Take("retrier", None, "free")
    BY <1>4 DEF CheckPending, CheckPendingFails, Leave, Mishap, Idle, Done, queueVars, outcomeVars, mishapVars
  <2>2. CASE Move("retrier", "read")
    <3>1. PICK d \in Entry : held["retrier"] = d
      BY <1>s, <2>1, HeldTyped
    <3>2. /\ step'["retrier"] = "read" /\ held' = held /\ late' = late /\ ~late["retrier"]
          /\ \A v \in Worker \ {"retrier"} : step'[v] = step[v] /\ held'[v] = held[v] /\ late'[v] = late[v]
      BY <1>s, <1>t, <2>1, <2>2, MoveTyped DEF WorkInv
    <3>3. /\ RowShare["retrier"][d] = 0 /\ MessageShare["retrier"][d] = 0
          /\ RowShare'["retrier"][d] = 0 /\ MessageShare'["retrier"][d] = 0
      BY <1>s, <2>1, <3>1, <3>2, Share, ShareAfter
    <3>4. Acknowledged' = Acknowledged /\ Acknowledged[d] \in Int
      BY <2>1, ShareTyped DEF Acknowledged
    <3>5. /\ monitorings'[d] + slips[d] + Acknowledged[d] + RowShare["retrier"][d]
               <= monitorings[d] + slips'[d] + Acknowledged'[d] + RowShare'["retrier"][d]
          /\ triggered'[d] + messages[d] + slips[d] + MessageShare["retrier"][d]
               <= triggered[d] + messages'[d] + slips'[d] + MessageShare'["retrier"][d]
      BY <1>t, <2>1, <3>3, <3>4, CountersTyped
    <3>6. held'["retrier"] \in {d, None}
      BY <3>1, <3>2
    <3>7. QED
      BY <1>s, <1>t, <2>1, <3>1, <3>2, <3>4, <3>5, <3>6, BalancedOn
  <2>3. CASE Take("retrier", None, "free")
    <3>1. \A e \in Entry : slips'[e] = slips[e] + IF e = held["retrier"] THEN 0 ELSE 0
      BY <1>t, <2>1, CountersTyped
    <3>2. QED
      BY <1>s, <1>t, <2>1, <2>3, <3>1, BalancedLeave
  <2>4. QED
    BY <2>1, <2>2, <2>3
<1>5. ASSUME NEW w \in Worker, ReadPosition(w) \/ Analyse(w) \/ ExecuteFails(w) \/ Update(w) \/ Alert(w)
      PROVE  BalanceInv'
  <2>1. /\ ~Idle(w) /\ step[w] # "check"
        /\ UNCHANGED <<pending, monitorings, triggered, messages, slips>>
    BY <1>5 DEF ReadPosition, Analyse, ExecuteFails, Update, Alert, Idle, queueVars, outcomeVars, mishapVars
  <2>2. CASE Take(w, None, "free")
    <3>1. ~Done(w)
      <4>1. step[w] \notin {"send", "update", "ack"}
        <5>1. step'[w] = "free"
          BY <1>s, <1>t, <2>2, TakeTyped
        <5>2. CASE ExecuteFails(w)
          BY <5>2 DEF ExecuteFails
        <5>3. CASE ReadPosition(w) \/ Analyse(w) \/ Alert(w)
          BY <5>3 DEF ReadPosition, Analyse, Alert
        <5>4. CASE Update(w)
          <6>1. step'[w] = "ack"
            BY <1>s, <1>t, <5>4, MoveTyped DEF Update
          <6>2. QED
            BY <5>1, <6>1
        <5>5. QED
          BY <1>5, <5>2, <5>3, <5>4
      <4>2. QED
        BY <4>1 DEF Done
    <3>2. \A e \in Entry : slips'[e] = slips[e] + IF e = held[w] THEN 0 ELSE 0
      BY <1>t, <2>1, CountersTyped
    <3>3. QED
      BY <1>t, <2>1, <2>2, <3>1, <3>2, BalancedLeave
  <2>3. CASE ~Take(w, None, "free")
    <3>1. /\ UNCHANGED <<held, late>> /\ step'[w] \in {"analyse", "store", "alert", "ack"}
          /\ step'[w] = "ack" => step[w] # "send"
          /\ step'[w] \in {"analyse", "store"} => step[w] \in {"read", "analyse"}
          /\ step'[w] = "alert" => step[w] \in {"read", "analyse", "store"}
          /\ \A v \in Worker \ {w} : step'[v] = step[v]
      <4>1. CASE ReadPosition(w)
        BY <1>t, <4>1 DEF ReadPosition, Move, TypeOK
      <4>2. CASE Analyse(w) \/ ExecuteFails(w)
        BY <1>t, <2>3, <4>2 DEF Analyse, ExecuteFails, Leave, Move, TypeOK
      <4>3. CASE Update(w) \/ Alert(w)
        BY <1>t, <4>3 DEF Update, Alert, Move, TypeOK
      <4>4. QED
        BY <1>5, <4>1, <4>2, <4>3
    <3>2. QED
      BY <1>t, <2>1, <3>1, BalancedMove
  <2>4. QED
    BY <2>2, <2>3
<1>6. ASSUME NEW w \in Worker, StoreMonitoring(w) PROVE BalanceInv'
  <2>1. /\ step[w] = "store" /\ ~Idle(w) /\ UNCHANGED <<pending, messages, slips>>
        /\ monitorings' = [monitorings EXCEPT ![held[w]] = @ + 1]
    BY <1>6 DEF StoreMonitoring, Idle, queueVars, mishapVars
  <2>2. PICK d \in Entry : held[w] = d
    BY <2>1, HeldTyped
  <2>3. PICK n \in 0..1, s \in {"send", "ack"} :
          triggered' = [triggered EXCEPT ![d] = @ + n] /\ Move(w, s) /\ (n = 1 => s = "send")
    <3>1. PICK b \in BOOLEAN :
            /\ triggered' = [triggered EXCEPT ![d] = triggered[d] + IF b THEN 1 ELSE 0]
            /\ Move(w, IF b THEN "send" ELSE "ack")
      <4>1. PICK urgent \in BOOLEAN :
              LET b == (snap[w].monitored /\ urgent) \/ task[held[w]].send
              IN  /\ triggered' = [triggered EXCEPT ![held[w]] = @ + IF b THEN 1 ELSE 0]
                  /\ Move(w, IF b THEN "send" ELSE "ack")
        BY <1>6 DEF StoreMonitoring, ShouldSend
      <4>2. QED
        BY <2>2, <4>1
    <3>2. CASE b
      BY <3>1, <3>2
    <3>3. CASE ~b
      BY <3>1, <3>3
    <3>4. QED
      BY <3>2, <3>3
  <2>4. /\ step'[w] = s /\ held' = held /\ late' = late
        /\ \A v \in Worker \ {w} : step'[v] = step[v] /\ held'[v] = held[v] /\ late'[v] = late[v]
    BY <1>s, <1>t, <2>3, MoveTyped
  <2>5. Acknowledged' = Acknowledged /\ Acknowledged[d] \in Int
    BY <2>1, ShareTyped DEF Acknowledged
  <2>6. /\ monitorings'[d] = monitorings[d] + 1 /\ triggered'[d] = triggered[d] + n
        /\ \A e \in Entry \ {d} : monitorings'[e] = monitorings[e] /\ triggered'[e] = triggered[e]
    BY <1>t, <2>1, <2>2, <2>3 DEF TypeOK, Counter
  <2>7. monitorings[d] \in Nat /\ triggered[d] \in Nat /\ messages[d] \in Nat /\ slips[d] \in Nat
    BY <1>t, CountersTyped
  <2>8. /\ RowShare[w][d] \in Int /\ RowShare'[w][d] = RowShare[w][d] + 1
        /\ MessageShare[w][d] \in Int /\ MessageShare'[w][d] \in Int
        /\ MessageShare[w][d] + n <= MessageShare'[w][d]
    <3>1. CASE late[w]
      <4>1. late'[w] /\ held'[w] = d
        BY <2>2, <2>4, <3>1
      <4>2. /\ RowShare[w][d] = -1 /\ RowShare'[w][d] = 0
            /\ MessageShare[w][d] = -1 /\ MessageShare'[w][d] = 0
        BY <2>1, <2>2, <2>4, <3>1, <4>1, Share, ShareAfter
      <4>3. QED
        BY <4>2
    <3>2. CASE ~late[w]
      <4>1. ~late'[w] /\ held'[w] = d
        BY <2>2, <2>4, <3>2
      <4>2. /\ RowShare[w][d] = 0 /\ RowShare'[w][d] = 1 /\ MessageShare[w][d] = 0
            /\ MessageShare'[w][d] = IF s = "send" THEN 1 ELSE 0
        BY <2>1, <2>2, <2>4, <3>2, <4>1, Share, ShareAfter
      <4>3. QED
        BY <2>3, <4>2
    <3>3. QED
      BY <3>1, <3>2
  <2>9. /\ monitorings'[d] + slips[d] + Acknowledged[d] + RowShare[w][d]
             <= monitorings[d] + slips'[d] + Acknowledged'[d] + RowShare'[w][d]
        /\ triggered'[d] + messages[d] + slips[d] + MessageShare[w][d]
             <= triggered[d] + messages'[d] + slips'[d] + MessageShare'[w][d]
    BY <2>1, <2>5, <2>6, <2>7, <2>8
  <2>10. held'[w] \in {d, None}
    BY <2>2, <2>4
  <2>11. QED
    BY <1>t, <2>1, <2>2, <2>4, <2>5, <2>6, <2>9, <2>10, BalancedOn
<1>7. ASSUME NEW w \in Worker, Send(w) PROVE BalanceInv'
  <2>1. /\ step[w] = "send" /\ ~Idle(w) /\ UNCHANGED <<pending, monitorings, triggered, slips>>
        /\ messages' = [messages EXCEPT ![held[w]] = @ + 1]
    BY <1>7 DEF Send, Idle, queueVars, mishapVars
  <2>2. PICK d \in Entry : held[w] = d
    BY <2>1, HeldTyped
  <2>3. PICK s \in {"update", "ack"} : Move(w, s)
    BY <1>7 DEF Send
  <2>4. /\ step'[w] = s /\ held' = held /\ late' = late
        /\ \A v \in Worker \ {w} : step'[v] = step[v] /\ held'[v] = held[v] /\ late'[v] = late[v]
    BY <1>s, <1>t, <2>3, MoveTyped
  <2>5. Acknowledged' = Acknowledged /\ Acknowledged[d] \in Int
    BY <2>1, ShareTyped DEF Acknowledged
  <2>6. messages'[d] = messages[d] + 1 /\ \A e \in Entry \ {d} : messages'[e] = messages[e]
    BY <1>t, <2>1, <2>2 DEF TypeOK, Counter
  <2>7. monitorings[d] \in Nat /\ triggered[d] \in Nat /\ messages[d] \in Nat /\ slips[d] \in Nat
    BY <1>t, CountersTyped
  <2>8. /\ RowShare[w][d] \in Int /\ RowShare'[w][d] = RowShare[w][d]
        /\ MessageShare[w][d] \in Int /\ MessageShare'[w][d] \in Int
        /\ MessageShare[w][d] <= MessageShare'[w][d] + 1
    <3>1. CASE late[w]
      <4>1. late'[w] /\ held'[w] = d
        BY <2>2, <2>4, <3>1
      <4>2. /\ RowShare[w][d] = 0 /\ RowShare'[w][d] = 0
            /\ MessageShare[w][d] = 0 /\ MessageShare'[w][d] = 0
        BY <2>1, <2>2, <2>4, <3>1, <4>1, Share, ShareAfter
      <4>3. QED
        BY <4>2
    <3>2. CASE ~late[w]
      <4>1. ~late'[w] /\ held'[w] = d
        BY <2>2, <2>4, <3>2
      <4>2. /\ RowShare[w][d] = 1 /\ RowShare'[w][d] = 1
            /\ MessageShare[w][d] = 1 /\ MessageShare'[w][d] = 0
        BY <2>1, <2>2, <2>4, <3>2, <4>1, Share, ShareAfter
      <4>3. QED
        BY <4>2
    <3>3. QED
      BY <3>1, <3>2
  <2>9. /\ monitorings'[d] + slips[d] + Acknowledged[d] + RowShare[w][d]
             <= monitorings[d] + slips'[d] + Acknowledged'[d] + RowShare'[w][d]
        /\ triggered'[d] + messages[d] + slips[d] + MessageShare[w][d]
             <= triggered[d] + messages'[d] + slips'[d] + MessageShare'[w][d]
    BY <2>1, <2>5, <2>6, <2>7, <2>8
  <2>10. held'[w] \in {d, None}
    BY <2>2, <2>4
  <2>11. QED
    BY <1>t, <2>1, <2>2, <2>4, <2>5, <2>6, <2>9, <2>10, BalancedOn
<1>8. ASSUME NEW w \in Worker, Ack(w) PROVE BalanceInv'
  <2>1. /\ step[w] = "ack" /\ ~late[w] /\ pending' = pending \ {held[w]} /\ Move(w, "del") /\ ~Idle(w)
        /\ UNCHANGED <<monitorings, triggered, messages, slips>>
    BY <1>8 DEF Ack, Idle, outcomeVars, mishapVars
  <2>2. PICK d \in Entry : held[w] = d
    BY <2>1, HeldTyped
  <2>3. /\ step'[w] = "del" /\ held' = held /\ late' = late
        /\ \A v \in Worker \ {w} : step'[v] = step[v] /\ held'[v] = held[v] /\ late'[v] = late[v]
    BY <1>s, <1>t, <2>1, MoveTyped
  <2>4. d \in pending
    BY <1>t, <2>1, <2>2 DEF WorkInv
  <2>5. /\ Acknowledged[d] = 0 /\ Acknowledged'[d] = 1
        /\ \A e \in Entry \ {d} : Acknowledged'[e] = Acknowledged[e]
    BY <2>1, <2>2, <2>4 DEF Acknowledged
  <2>6. /\ RowShare[w][d] = 1 /\ RowShare'[w][d] = 0 /\ MessageShare[w][d] = 0 /\ MessageShare'[w][d] = 0
    BY <2>1, <2>2, <2>3, Share, ShareAfter
  <2>7. monitorings[d] \in Nat /\ triggered[d] \in Nat /\ messages[d] \in Nat /\ slips[d] \in Nat
    BY <1>t, CountersTyped
  <2>8. /\ monitorings'[d] + slips[d] + Acknowledged[d] + RowShare[w][d]
             <= monitorings[d] + slips'[d] + Acknowledged'[d] + RowShare'[w][d]
        /\ triggered'[d] + messages[d] + slips[d] + MessageShare[w][d]
             <= triggered[d] + messages'[d] + slips'[d] + MessageShare'[w][d]
    BY <2>1, <2>5, <2>6, <2>7
  <2>9. held'[w] \in {d, None}
    BY <2>2, <2>3
  <2>10. QED
    BY <1>t, <2>1, <2>2, <2>3, <2>5, <2>8, <2>9, BalancedOn
<1>9. ASSUME NEW w \in Worker, Del(w) PROVE BalanceInv'
  <2>1. /\ ~Idle(w) /\ ~Done(w) /\ Take(w, None, "free")
        /\ UNCHANGED <<pending, monitorings, triggered, messages, slips>>
    BY <1>9 DEF Del, Leave, Idle, Done, outcomeVars, mishapVars
  <2>2. \A e \in Entry : slips'[e] = slips[e] + IF e = held[w] THEN 0 ELSE 0
    BY <1>t, <2>1, CountersTyped
  <2>3. QED
    BY <1>t, <2>1, <2>2, BalancedLeave
<1>10. ASSUME NEW w \in Worker, AckNDelFails(w) \/ Panic(w) PROVE BalanceInv'
  <2>1. /\ ~Idle(w) /\ (Take(w, None, "free") \/ Take(w, None, "dead"))
        /\ UNCHANGED <<pending, monitorings, triggered, messages>>
        /\ Mishap({held[w]}) \/ (late[w] /\ UNCHANGED slips)
    BY <1>10 DEF AckNDelFails, Panic, Leave, Idle, queueVars, outcomeVars, mishapVars
  <2>2. CASE Mishap({held[w]})
    <3>1. \A e \in Entry : slips'[e] = slips[e] + IF e = held[w] THEN 1 ELSE 0
      BY <1>t, <2>2, MishapTyped
    <3>2. QED
      BY <1>t, <2>1, <3>1, BalancedLeave
  <2>3. CASE late[w] /\ UNCHANGED slips
    <3>1. \A e \in Entry : slips'[e] = slips[e] + IF e = held[w] THEN 0 ELSE 0
      BY <1>t, <2>3, CountersTyped
    <3>2. QED
      BY <1>t, <2>1, <2>3, <3>1, BalancedLeave
  <2>4. QED
    BY <2>1, <2>2, <2>3
<1>11. ASSUME NEW w \in Worker, Expire(w) PROVE BalanceInv'
  <2>1. /\ ~Idle(w) /\ ~late[w] /\ late' = [late EXCEPT ![w] = TRUE] /\ Mishap({held[w]})
        /\ UNCHANGED <<pending, step, held, monitorings, triggered, messages>>
    BY <1>11 DEF Expire, Idle, queueVars, outcomeVars
  <2>2. PICK d \in Entry : held[w] = d
    BY <2>1, HeldTyped
  <2>3. /\ slips'[d] = slips[d] + 1 /\ \A e \in Entry \ {d} : slips'[e] = slips[e]
    BY <1>t, <2>1, <2>2, MishapTyped, CountersTyped
  <2>4. /\ late'[w] /\ held'[w] = d /\ step'[w] = step[w]
        /\ \A v \in Worker \ {w} : step'[v] = step[v] /\ held'[v] = held[v] /\ late'[v] = late[v]
    BY <1>t, <2>1, <2>2 DEF TypeOK
  <2>5. Acknowledged' = Acknowledged /\ Acknowledged[d] \in Int
    BY <2>1, ShareTyped DEF Acknowledged
  <2>6. /\ RowShare[w][d] \in Int /\ RowShare'[w][d] \in Int
        /\ MessageShare[w][d] \in Int /\ MessageShare'[w][d] \in Int
        /\ RowShare[w][d] <= RowShare'[w][d] + 1 /\ MessageShare[w][d] <= MessageShare'[w][d] + 1
    <3>1. CASE step[w] \in {"read", "analyse", "store"}
      <4>1. /\ RowShare[w][d] = 0 /\ RowShare'[w][d] = -1
            /\ MessageShare[w][d] = 0 /\ MessageShare'[w][d] = -1
        BY <2>1, <2>2, <2>4, <3>1, Share, ShareAfter
      <4>2. QED
        BY <4>1
    <3>2. CASE step[w] \notin {"read", "analyse", "store"}
      <4>1. RowShare'[w][d] = 0 /\ MessageShare'[w][d] = 0
        BY <2>4, <3>2, ShareAfter
      <4>2. RowShare[w][d] \in 0..1 /\ MessageShare[w][d] \in 0..1
        BY <2>1, <2>2 DEF RowShare, MessageShare
      <4>3. QED
        BY <4>1, <4>2
    <3>3. QED
      BY <3>1, <3>2
  <2>7. monitorings[d] \in Nat /\ triggered[d] \in Nat /\ messages[d] \in Nat /\ slips[d] \in Nat
    BY <1>t, CountersTyped
  <2>8. /\ monitorings'[d] + slips[d] + Acknowledged[d] + RowShare[w][d]
             <= monitorings[d] + slips'[d] + Acknowledged'[d] + RowShare'[w][d]
        /\ triggered'[d] + messages[d] + slips[d] + MessageShare[w][d]
             <= triggered[d] + messages'[d] + slips'[d] + MessageShare'[w][d]
    BY <2>1, <2>3, <2>5, <2>6, <2>7
  <2>9. QED
    BY <1>t, <2>1, <2>2, <2>3, <2>4, <2>5, <2>8, BalancedOn
<1>12. CASE Crash
  <2>1. /\ Mishap({held[w] : w \in Worker})
        /\ UNCHANGED <<pending, monitorings, triggered, messages>>
        /\ \A w \in Worker : held'[w] = None
    BY <1>12 DEF Crash, queueVars, outcomeVars
  <2>2. Acknowledged' = Acknowledged
    BY <2>1 DEF Acknowledged
  <2>3. ASSUME NEW e \in Entry
        PROVE  /\ monitorings'[e] <= slips'[e] + Acknowledged'[e] + RowShare'["reader"][e] + RowShare'["retrier"][e]
               /\ triggered'[e] <= messages'[e] + slips'[e] + MessageShare'["reader"][e] + MessageShare'["retrier"][e]
    <3>1. /\ monitorings[e] <= slips[e] + Acknowledged[e] + RowShare["reader"][e] + RowShare["retrier"][e]
          /\ triggered[e] <= messages[e] + slips[e] + MessageShare["reader"][e] + MessageShare["retrier"][e]
      BY DEF BalanceInv
    <3>2. \A w \in Worker : RowShare'[w][e] = 0 /\ MessageShare'[w][e] = 0
      BY <2>1, ShareAfter, EntryFacts
    <3>3. /\ monitorings[e] \in Nat /\ triggered[e] \in Nat /\ messages[e] \in Nat /\ slips[e] \in Nat
          /\ Acknowledged[e] \in Int
          /\ \A w \in Worker : RowShare[w][e] \in Int /\ MessageShare[w][e] \in Int
      <4>1. monitorings[e] \in Nat /\ triggered[e] \in Nat /\ messages[e] \in Nat /\ slips[e] \in Nat
        BY <1>t, CountersTyped
      <4>2. Acknowledged[e] \in Int
        BY DEF Acknowledged
      <4>3. \A w \in Worker : RowShare[w][e] \in Int /\ MessageShare[w][e] \in Int
        BY ShareTyped
      <4>4. QED
        BY <4>1, <4>2, <4>3
    <3>4. CASE \A w \in Worker : held[w] # e
      <4>1. \A w \in Worker : RowShare[w][e] = 0 /\ MessageShare[w][e] = 0
        BY <3>4, Share
      <4>2. slips'[e] = slips[e]
        <5>1. e \notin {held[w] : w \in Worker}
          BY <3>4
        <5>2. QED
          BY <1>t, <2>1, <3>3, <5>1, MishapTyped
      <4>3. QED
        BY <1>s, <2>1, <2>2, <3>1, <3>2, <3>3, <4>1, <4>2
    <3>5. CASE \E w \in Worker : held[w] = e
      <4>1. slips'[e] = slips[e] + 1
        <5>1. e \in {held[w] : w \in Worker}
          BY <3>5
        <5>2. QED
          BY <1>t, <2>1, <5>1, MishapTyped
      <4>2. RowShare["reader"][e] + RowShare["retrier"][e] <= 1 /\ MessageShare["reader"][e] + MessageShare["retrier"][e] <= 1
        BY <1>t, <1>s, SharesBounded
      <4>3. QED
        BY <1>s, <2>1, <2>2, <3>1, <3>2, <3>3, <4>1, <4>2
    <3>6. QED
      BY <3>4, <3>5
  <2>4. QED
    BY <2>3 DEF BalanceInv
<1>13. ASSUME NEW w \in Worker, StoreLost(w) PROVE BalanceInv'
  <2>1. /\ step[w] = "store" /\ ~Idle(w) /\ UNCHANGED <<pending, messages>> /\ Mishap({held[w]})
        /\ monitorings' = [monitorings EXCEPT ![held[w]] = @ + 1]
        /\ Move(w, "alert") \/ Take(w, None, "free")
    BY <1>13 DEF StoreLost, Leave, Idle, queueVars
  <2>2. PICK d \in Entry : held[w] = d
    BY <2>1, HeldTyped
  <2>3. PICK n \in 0..1 : triggered' = [triggered EXCEPT ![d] = @ + n]
    <3>1. PICK b \in {0, 1} : triggered' = [triggered EXCEPT ![held[w]] = @ + b]
      BY <1>13 DEF StoreLost
    <3>2. b \in 0..1
      OBVIOUS
    <3>3. QED
      BY <2>2, <3>1, <3>2
  <2>4. /\ step'[w] \in {"alert", "free"} /\ held'[w] \in {d, None}
        /\ \A v \in Worker \ {w} : step'[v] = step[v] /\ held'[v] = held[v] /\ late'[v] = late[v]
    <3>1. CASE Move(w, "alert")
      BY <1>s, <1>t, <2>2, <3>1, MoveTyped
    <3>2. CASE Take(w, None, "free")
      BY <1>s, <1>t, <3>2, TakeTyped
    <3>3. QED
      BY <2>1, <3>1, <3>2
  <2>5. Acknowledged' = Acknowledged /\ Acknowledged[d] \in Int
    BY <2>1, ShareTyped DEF Acknowledged
  <2>6. /\ monitorings'[d] = monitorings[d] + 1 /\ triggered'[d] = triggered[d] + n
        /\ \A e \in Entry \ {d} : monitorings'[e] = monitorings[e] /\ triggered'[e] = triggered[e]
    BY <1>t, <2>1, <2>2, <2>3 DEF TypeOK, Counter
  <2>7. /\ monitorings[d] \in Nat /\ triggered[d] \in Nat /\ messages[d] \in Nat /\ slips[d] \in Nat
        /\ slips'[d] = slips[d] + 1 /\ \A e \in Entry \ {d} : slips'[e] = slips[e]
    BY <1>t, <2>1, <2>2, CountersTyped, MishapTyped
  <2>8. /\ RowShare[w][d] \in {0, -1} /\ MessageShare[w][d] \in {0, -1}
        /\ RowShare'[w][d] = 0 /\ MessageShare'[w][d] = 0
    <3>1. RowShare[w][d] \in {0, -1} /\ MessageShare[w][d] \in {0, -1}
      BY <2>1 DEF RowShare, MessageShare, Done
    <3>2. RowShare'[w][d] = 0 /\ MessageShare'[w][d] = 0
      BY <2>4 DEF RowShare, MessageShare, Done
    <3>3. QED
      BY <3>1, <3>2
  <2>9. /\ monitorings'[d] + slips[d] + Acknowledged[d] + RowShare[w][d]
             <= monitorings[d] + slips'[d] + Acknowledged'[d] + RowShare'[w][d]
        /\ triggered'[d] + messages[d] + slips[d] + MessageShare[w][d]
             <= triggered[d] + messages'[d] + slips'[d] + MessageShare'[w][d]
    BY <2>1, <2>5, <2>6, <2>7, <2>8
  <2>10. QED
    BY <1>t, <2>1, <2>2, <2>4, <2>5, <2>6, <2>7, <2>9, BalancedOn
<1>14. QED
  BY <1>1, <1>2, <1>3, <1>4, <1>5, <1>6, <1>7, <1>8, <1>9, <1>10, <1>11, <1>12, <1>13
     DEF Next, Advance, Execute

LEMMA BalanceAlways == Spec => []BalanceInv
<1>1. Init => BalanceInv
  <2> SUFFICES ASSUME Init, NEW e \in Entry
               PROVE /\ monitorings[e] <= slips[e] + Acknowledged[e] + RowShare["reader"][e] + RowShare["retrier"][e]
                     /\ triggered[e] <= messages[e] + slips[e] + MessageShare["reader"][e] + MessageShare["retrier"][e]
    BY DEF BalanceInv
  <2>1. monitorings[e] = 0 /\ triggered[e] = 0 /\ messages[e] = 0 /\ slips[e] = 0
    BY DEF Init, Zero
  <2>2. Acknowledged[e] \in 0..1
    BY ShareTyped, EntryFacts
  <2>3. \A w \in Worker : RowShare[w][e] = 0 /\ MessageShare[w][e] = 0
    BY Share, EntryFacts DEF Init
  <2>4. QED
    BY <2>1, <2>2, <2>3, EntryFacts
<1>2. TypeInv /\ TypeInv' /\ OutcomeInv /\ BalanceInv /\ [Next]_vars => BalanceInv'
  BY BalanceStep
<1>3. QED
  BY <1>1, <1>2, TypeAlways, OutcomeAlways, PTL DEF Spec

\* One monitoring row per entry, and one more at most for each mishap that hit
\* it, although two goroutines may execute it at the same time.
THEOREM RowsArePaidFor == Spec => []OneRow
<1>1. TypeInv /\ BalanceInv => OneRow
  <2> SUFFICES ASSUME TypeInv, BalanceInv, NEW e \in Entry PROVE monitorings[e] <= 1 + slips[e]
    BY DEF OneRow
  <2>1. monitorings[e] <= slips[e] + Acknowledged[e] + RowShare["reader"][e] + RowShare["retrier"][e]
    BY DEF BalanceInv
  <2>2. /\ monitorings[e] \in Nat /\ slips[e] \in Nat /\ Acknowledged[e] \in Int
        /\ RowShare["reader"][e] \in Int /\ RowShare["retrier"][e] \in Int
    BY CountersTyped, ShareTyped, EntryFacts DEF TypeInv
  <2>3. Acknowledged[e] + RowShare["reader"][e] + RowShare["retrier"][e] <= 1
    BY SharesBounded DEF TypeInv
  <2>4. QED
    BY <2>1, <2>2, <2>3
<1>2. QED
  BY <1>1, BalanceAlways, TypeAlways, PTL

\* Every row that says it triggered an alert has its message tried, unless a
\* mishap interrupted the worker or it is about to send.
THEOREM AlertsAreTried == Spec => []TriggeredIsSent
<1>1. TypeInv /\ BalanceInv => TriggeredIsSent
  <2> SUFFICES ASSUME TypeInv, BalanceInv, NEW e \in Entry
               PROVE triggered[e] <= messages[e] + slips[e]
                       + Cardinality({w \in Worker : step[w] = "send" /\ held[w] = e})
    BY DEF TriggeredIsSent
  <2> DEFINE senders == {w \in Worker : step[w] = "send" /\ held[w] = e}
  <2>1. triggered[e] <= messages[e] + slips[e] + MessageShare["reader"][e] + MessageShare["retrier"][e]
    BY DEF BalanceInv
  <2>2. /\ triggered[e] \in Nat /\ messages[e] \in Nat /\ slips[e] \in Nat
        /\ MessageShare["reader"][e] \in Int /\ MessageShare["retrier"][e] \in Int
    BY CountersTyped, ShareTyped, EntryFacts DEF TypeInv
  <2>3. IsFiniteSet(senders) /\ Cardinality(senders) \in Nat
    <3>1. IsFiniteSet({"reader", "retrier"})
      <4>1. IsFiniteSet({"reader"}) /\ IsFiniteSet({"reader"} \cup {"retrier"})
        BY FS_Singleton, FS_AddElement
      <4>2. {"reader"} \cup {"retrier"} = {"reader", "retrier"}
        OBVIOUS
      <4>3. QED
        BY <4>1, <4>2
    <3>2. senders \subseteq {"reader", "retrier"}
      BY EntryFacts
    <3>3. QED
      BY <3>1, <3>2, FS_Subset, FS_CardinalityType
  <2>4. MessageShare["reader"][e] + MessageShare["retrier"][e] <= Cardinality(senders)
    <3>1. CASE MessageShare["reader"][e] + MessageShare["retrier"][e] <= 0
      BY <2>2, <2>3, <3>1
    <3>2. CASE MessageShare["reader"][e] + MessageShare["retrier"][e] > 0
      <4>1. PICK w \in Worker : MessageShare[w][e] > 0
        BY <2>2, <3>2, EntryFacts
      <4>2. w \in senders
        BY <4>1 DEF MessageShare
      <4>3. Cardinality(senders) >= 1
        <5>1. Cardinality(senders) # 0
          BY <2>3, <4>2, FS_EmptySet
        <5>2. QED
          BY <2>3, <5>1
      <4>4. MessageShare["reader"][e] + MessageShare["retrier"][e] <= 1
        BY SharesBounded DEF TypeInv
      <4>5. QED
        BY <2>2, <2>3, <4>3, <4>4
    <3>3. QED
      BY <2>2, <3>1, <3>2
  <2>5. QED
    BY <2>1, <2>2, <2>3, <2>4
<1>2. QED
  BY <1>1, BalanceAlways, TypeAlways, PTL
=============================================================================
