--------------------------- MODULE PositionMonitor ---------------------------
(***************************************************************************)
(* The stream stock.position.monitor.  The job strategy publishes an entry *)
(* for every open, monitored position                                      *)
(* (stock_position_monitor_strategy.go), the Telegram bot one for a        *)
(* position a user asks about; one goroutine reads new entries and         *)
(* executes them, a second one claims and executes again those that stay   *)
(* pending (stock_position_monitoring_multi_timeframe.go).                 *)
(*                                                                         *)
(* There is no clock.  An entry can be claimed MaxIdle after its delivery; *)
(* a worker's context is created before the delivery and lasts MaxIdle too *)
(* (configs/config-executor.yaml sets both to 1m), so that an entry is     *)
(* never claimed while a worker holds it whose context has not ended.      *)
(* Insertions and Telegram are called without the context and go on after  *)
(* its end.  Payloads that do not parse are left to RetryStream.           *)
(***************************************************************************)
EXTENDS PositionStore, FiniteSets

CONSTANTS MaxEntries,  \* bound: entries published in a behaviour
          MaxRetry,    \* RedisStreamStockPositionMonitorMaxRetry
          MaxMishaps   \* bound: crashes, panics and failures in a behaviour

Entry == 1..MaxEntries
None == 0

\* What an entry asks for, and whether its user wants a message in any case
Task == [pos : Position, send : BOOLEAN]

ASSUME MonitorAssumption ==
  /\ MaxEntries \in Nat /\ MaxRetry \in Nat \ {0} /\ MaxMishaps \in Nat
  /\ Null \notin Task

VARIABLES todo,       \* positions the strategy has yet to publish
          task,       \* the payload of each entry
          last,       \* entries 1..last have been published
          delivered,  \* entries 1..delivered have been delivered by XREADGROUP
          stream,     \* entries in the stream
          pending,    \* entries delivered and not acknowledged
          count,      \* delivery count of an entry, up to MaxRetry
          step,       \* each worker's place in ProcessTask or ProcessRetries
          held,       \* the entry it works on
          snap,       \* the row of the position it read
          late,       \* its context has ended
          monitorings, \* history variable: monitoring rows stored for an entry
          triggered,  \* history variable: those of them with triggered_alert
          messages,   \* history variable: messages to its user tried
          alerts,     \* history variable: alerts tried for an entry given up
          idled,      \* history variable: executions that found the position closed
          slips,      \* history variable: mishaps that hit an entry
          mishaps     \* number of mishaps so far

queueVars == <<task, last, delivered, stream, pending, count>>
workerVars == <<step, held, snap, late>>
outcomeVars == <<monitorings, triggered, messages, alerts, idled>>
mishapVars == <<slips, mishaps>>
vars == <<tables, todo, queueVars, workerVars, outcomeVars, mishapVars>>

Worker == {"reader", "retrier"}

\* A worker is between two calls; has claimed an entry and asks for its
\* delivery count; reads the position; collects news, quotes and the model's
\* answer; stores the monitoring row, with or without a message to follow;
\* sends the message; writes the position back; alerts that the entry is given
\* up; acknowledges; deletes; or died of a panic.
Step == {"free", "check", "read", "analyse", "store", "send", "update",
         "alert", "ack", "del", "dead"}

Counter == [Entry -> Nat]

TypeOK ==
  /\ RowsTypeOK /\ todo \subseteq Position
  /\ last \in 0..MaxEntries /\ delivered \in 0..last
  /\ task \in [Entry -> Task \cup {Null}] /\ \A e \in 1..last : task[e] # Null
  /\ stream \subseteq 1..last /\ pending \subseteq 1..delivered
  /\ count \in [Entry -> 0..MaxRetry]
  /\ step \in [Worker -> Step] /\ held \in [Worker -> Entry \cup {None}]
  /\ snap \in [Worker -> Row \cup {Null}] /\ late \in [Worker -> BOOLEAN]
  /\ monitorings \in Counter /\ triggered \in Counter /\ messages \in Counter
  /\ alerts \in Counter /\ idled \in Counter
  /\ slips \in Counter /\ mishaps \in Nat

Zero == [e \in Entry |-> 0]

Init ==
  /\ RowsInit /\ todo = {}
  /\ task = [e \in Entry |-> Null] /\ last = 0 /\ delivered = 0
  /\ stream = {} /\ pending = {} /\ count = Zero
  /\ step = [w \in Worker |-> "free"] /\ held = [w \in Worker |-> None]
  /\ snap = [w \in Worker |-> Null] /\ late = [w \in Worker |-> FALSE]
  /\ monitorings = Zero /\ triggered = Zero /\ messages = Zero
  /\ alerts = Zero /\ idled = Zero /\ slips = Zero /\ mishaps = 0

\* Something goes wrong for the entries in E.
Mishap(E) ==
  /\ mishaps < MaxMishaps
  /\ mishaps' = mishaps + 1
  /\ slips' = [e \in Entry |-> IF e \in E THEN slips[e] + 1 ELSE slips[e]]

-----------------------------------------------------------------------------
(* Publishers.                                                             *)

Enqueue(p, send) ==
  /\ last < MaxEntries
  /\ last' = last + 1
  /\ task' = [task EXCEPT ![last + 1] = [pos |-> p, send |-> send]]
  /\ stream' = stream \cup {last + 1}
  /\ UNCHANGED <<delivered, pending, count>>

\* StockPositionMonitorStrategy.Execute: the positions of one query ...
Select ==
  /\ todo = {}
  /\ todo' = {p \in Position : MonitoredRows[p] # Null}
  /\ UNCHANGED <<tables, queueVars, workerVars, outcomeVars, mishapVars>>

\* ... are published one by one; whichever fails is recorded and passed over.
PublishNext ==
  \E p \in todo :
    /\ todo' = todo \ {p}
    /\ Enqueue(p, FALSE) \/ UNCHANGED queueVars
    /\ UNCHANGED <<tables, workerVars, outcomeVars, mishapVars>>

\* The bot publishes a user's question.
Ask(p) ==
  /\ Enqueue(p, TRUE)
  /\ UNCHANGED <<tables, todo, workerVars, outcomeVars, mishapVars>>

-----------------------------------------------------------------------------
(* Workers.                                                                *)

Pos(w) == task[held[w]].pos

Take(w, e, s) ==
  /\ step' = [step EXCEPT ![w] = s]
  /\ held' = [held EXCEPT ![w] = e]
  /\ snap' = [snap EXCEPT ![w] = Null]
  /\ late' = [late EXCEPT ![w] = FALSE]

Move(w, s) == step' = [step EXCEPT ![w] = s] /\ UNCHANGED <<held, snap, late>>

\* The handler returns.
Leave(w) == Take(w, None, "free")

\* Mutant of Read: the block may end without an entry
ReadNothing ==
  /\ step["reader"] = "free"
  /\ delivered < MaxEntries
  /\ delivered' = delivered + 1
  /\ pending' = pending \cup {delivered + 1}
  /\ count' = [count EXCEPT ![delivered + 1] = 1]
  /\ Take("reader", delivered + 1, "read")
  /\ UNCHANGED <<tables, todo, task, last, stream, outcomeVars, mishapVars>>

\* ProcessTask: XREADGROUP ">" of one entry
Read ==
  /\ step["reader"] = "free"
  /\ delivered < last
  /\ delivered' = delivered + 1
  /\ pending' = pending \cup {delivered + 1}
  /\ count' = [count EXCEPT ![delivered + 1] = 1]
  /\ Take("reader", delivered + 1, "read")
  /\ UNCHANGED <<tables, todo, task, last, stream, outcomeVars, mishapVars>>

\* Mutant of Claimable: no MinIdle
ClaimableAtOnce(e) == e \in pending

\* XAUTOCLAIM finds it idle for MaxIdle; see above.
Claimable(e) == e \in pending /\ \A w \in Worker : held[w] = e => late[w]

\* ProcessRetries: XAUTOCLAIM of one entry.  Which of the pending ones have
\* been idle long enough is a matter of time.
Claim(e) ==
  /\ step["retrier"] = "free"
  /\ Claimable(e)
  /\ count' = [count EXCEPT ![e] = IF @ < MaxRetry THEN @ + 1 ELSE @]
  /\ Take("retrier", e, "check")
  /\ UNCHANGED <<tables, todo, task, last, delivered, stream, pending, outcomeVars, mishapVars>>

\* XPENDING finds the entry; when it is gone there is nothing left to do.
CheckPending ==
  /\ step["retrier"] = "check"
  /\ IF held["retrier"] \in pending THEN Move("retrier", "read") ELSE Leave("retrier")
  /\ UNCHANGED <<tables, todo, queueVars, outcomeVars, mishapVars>>

\* It fails, or its context has ended.
CheckPendingFails ==
  /\ step["retrier"] = "check"
  /\ Mishap({})
  /\ Leave("retrier")
  /\ UNCHANGED <<tables, todo, queueVars, outcomeVars>>

\* Execute: the position is read once; a closed one needs nothing.
ReadPosition(w) ==
  /\ step[w] = "read"
  /\ rows[Pos(w)] # Null
  /\ IF Open(Pos(w))
       THEN /\ snap' = [snap EXCEPT ![w] = rows[Pos(w)]]
            /\ step' = [step EXCEPT ![w] = "analyse"]
            /\ UNCHANGED <<held, late, idled>>
       ELSE /\ Move(w, "ack")
            /\ idled' = [idled EXCEPT ![held[w]] = @ + 1]
  /\ UNCHANGED <<tables, todo, queueVars, monitorings, triggered, messages, alerts, mishapVars>>

\* The last summary, three ranges of quotes and the model's answer.  The risk
\* reward ratio divides by buy_price - stop_loss_price: where they are equal
\* the answer cannot be marshalled (ExecuteFails is all that is left).
Analyse(w) ==
  /\ step[w] = "analyse" /\ ~late[w]
  /\ snap[w].buy # snap[w].stop
  /\ Move(w, "store")
  /\ UNCHANGED <<tables, todo, queueVars, outcomeVars, mishapVars>>

\* Mutant of GivesUp: the count of an entry is not looked at
GivesUpNever(w) == FALSE

\* pendingInfo[0].RetryCount+1 >= MaxRetry
GivesUp(w) == w = "retrier" /\ count[held[w]] + 1 >= MaxRetry

\* Mutant of ExecuteFails: the error is only logged
ExecuteIgnored(w) ==
  /\ step[w] \in {"read", "analyse", "store"}
  /\ Move(w, "ack")
  /\ UNCHANGED <<tables, todo, queueVars, outcomeVars, mishapVars>>

\* Execute returns an error: a call failed or ran into the deadline, or the
\* position is gone.
ExecuteFails(w) ==
  /\ step[w] \in {"read", "analyse", "store"}
  /\ IF GivesUp(w) THEN Move(w, "alert") ELSE Leave(w)
  /\ UNCHANGED <<tables, todo, queueVars, outcomeVars, mishapVars>>

\* Mutant of StoreMonitoring: the message is only sent for an urgent answer,
\* the row is marked when the user asked
StoreMarked(w) ==
  /\ step[w] = "store"
  /\ rows[Pos(w)] # Null
  /\ \E urgent \in BOOLEAN :
       /\ triggered' = [triggered EXCEPT ![held[w]] = @ +
            IF urgent \/ task[held[w]].send THEN 1 ELSE 0]
       /\ Move(w, IF urgent THEN "send" ELSE "ack")
  /\ monitorings' = [monitorings EXCEPT ![held[w]] = @ + 1]
  /\ UNCHANGED <<tables, todo, queueVars, messages, alerts, idled, mishapVars>>

\* A message follows when the answer is urgent (not HOLD, confidence of 60 or
\* more) and the position monitored, or when the entry asks for it.
ShouldSend(w, urgent) == (snap[w].monitored /\ urgent) \/ task[held[w]].send

\* The monitoring row is stored; triggered_alert says that a message follows.
\* The foreign key wants the position.
StoreMonitoring(w) ==
  /\ step[w] = "store"
  /\ rows[Pos(w)] # Null
  /\ \E urgent \in BOOLEAN :
       /\ triggered' = [triggered EXCEPT ![held[w]] = @ + IF ShouldSend(w, urgent) THEN 1 ELSE 0]
       /\ Move(w, IF ShouldSend(w, urgent) THEN "send" ELSE "ack")
  /\ monitorings' = [monitorings EXCEPT ![held[w]] = @ + 1]
  /\ UNCHANGED <<tables, todo, queueVars, messages, alerts, idled, mishapVars>>

\* The row is stored, but the reply is lost: Execute returns an error.
StoreLost(w) ==
  /\ step[w] = "store"
  /\ rows[Pos(w)] # Null
  /\ Mishap({held[w]})
  /\ \E urgent \in BOOLEAN :
       triggered' = [triggered EXCEPT ![held[w]] = @ + IF ShouldSend(w, urgent) THEN 1 ELSE 0]
  /\ monitorings' = [monitorings EXCEPT ![held[w]] = @ + 1]
  /\ IF GivesUp(w) THEN Move(w, "alert") ELSE Leave(w)
  /\ UNCHANGED <<tables, todo, queueVars, messages, alerts, idled>>

\* The message is sent, and the position written back after it; when it fails
\* Execute returns without that.
Send(w) ==
  /\ step[w] = "send"
  /\ messages' = [messages EXCEPT ![held[w]] = @ + 1]
  /\ \E s \in {"update", "ack"} : Move(w, s)
  /\ UNCHANGED <<tables, todo, queueVars, monitorings, triggered, alerts, idled, mishapVars>>

\* Update of the whole copy read at the beginning; an error is only logged, and
\* certain when the context has ended.
Update(w) ==
  /\ step[w] = "update"
  /\ Move(w, "ack")
  /\ (~late[w] /\ WriteBack(Pos(w), snap[w])) \/ UNCHANGED tables
  /\ UNCHANGED <<todo, queueVars, outcomeVars, mishapVars>>

\* The alert that an entry is given up, whose error is only logged
Alert(w) ==
  /\ step[w] = "alert"
  /\ alerts' = [alerts EXCEPT ![held[w]] = @ + 1]
  /\ Move(w, "ack")
  /\ UNCHANGED <<tables, todo, queueVars, monitorings, triggered, messages, idled, mishapVars>>

\* AckNDel: XACK, then XDEL
Ack(w) ==
  /\ step[w] = "ack" /\ ~late[w]
  /\ pending' = pending \ {held[w]}
  /\ Move(w, "del")
  /\ UNCHANGED <<tables, todo, task, last, delivered, stream, count, outcomeVars, mishapVars>>

Del(w) ==
  /\ step[w] = "del" /\ ~late[w]
  /\ stream' = stream \ {held[w]}
  /\ Leave(w)
  /\ UNCHANGED <<tables, todo, task, last, delivered, pending, count, outcomeVars, mishapVars>>

\* One of them fails.
AckNDelFails(w) ==
  /\ step[w] \in {"ack", "del"}
  /\ late[w] \/ Mishap({held[w]})
  /\ late[w] => UNCHANGED mishapVars
  /\ Leave(w)
  /\ UNCHANGED <<tables, todo, queueVars, outcomeVars>>

\* The worker's context ends before its work does.
Expire(w) ==
  /\ step[w] \notin {"free", "check", "dead"} /\ ~late[w]
  /\ Mishap({held[w]})
  /\ late' = [late EXCEPT ![w] = TRUE]
  /\ UNCHANGED <<tables, todo, queueVars, step, held, snap, outcomeVars>>

\* A panic: GoSafe recovers it outside the loop, so the goroutine is gone.
Panic(w) ==
  /\ step[w] \notin {"free", "check", "dead"}
  /\ Mishap({held[w]})
  /\ Take(w, None, "dead")
  /\ UNCHANGED <<tables, todo, queueVars, outcomeVars>>

\* The process ends and is started again; the strategy's list is lost with it.
Crash ==
  /\ Mishap({held[w] : w \in Worker})
  /\ todo' = {}
  /\ step' = [w \in Worker |-> "free"] /\ held' = [w \in Worker |-> None]
  /\ snap' = [w \in Worker |-> Null] /\ late' = [w \in Worker |-> FALSE]
  /\ UNCHANGED <<tables, queueVars, outcomeVars>>

-----------------------------------------------------------------------------

Bot ==
  /\ (\E p \in Position : Close(p) \/ BreakEven(p)) \/ (\E u \in User : RemoveUser(u))
  /\ UNCHANGED <<todo, queueVars, workerVars, outcomeVars, mishapVars>>

Execute(w) ==
  ReadPosition(w) \/ Analyse(w) \/ ExecuteFails(w) \/ StoreMonitoring(w) \/ Send(w) \/ Update(w)

Advance(w) == Execute(w) \/ Alert(w) \/ Ack(w) \/ Del(w)

Next ==
  \/ Select \/ PublishNext \/ \E p \in Position : Ask(p)
  \/ Read \/ \E e \in Entry : Claim(e)
  \/ CheckPending \/ CheckPendingFails
  \/ \E w \in Worker : Advance(w) \/ StoreLost(w) \/ AckNDelFails(w) \/ Expire(w) \/ Panic(w)
  \/ Crash
  \/ Bot

Spec == Init /\ [][Next]_vars

\* The workers run, every call returns in the end, and when entries stay
\* pending the retrier claims one of them, it does not matter which.
FairSpec ==
  /\ Spec
  /\ WF_vars(Read) /\ WF_vars(CheckPending)
  /\ WF_vars(\E e \in Entry : Claim(e))
  /\ \A w \in Worker : WF_vars(Advance(w) \/ AckNDelFails(w))

-----------------------------------------------------------------------------
(* Properties.                                                             *)

Outcomes == [e \in Entry |-> monitorings[e] + idled[e] + alerts[e]]

\* One monitoring row per entry: any further one is paid for by a mishap that
\* kept the entry from being acknowledged.
OneRow == \A e \in Entry : monitorings[e] <= 1 + slips[e]

\* A row that says it triggered an alert had its message tried: one that had
\* not is being sent or was interrupted by a mishap.
TriggeredIsSent ==
  \A e \in Entry :
    triggered[e] <= messages[e] + slips[e]
                    + Cardinality({w \in Worker : step[w] = "send" /\ held[w] = e})

State(e) ==
  CASE e > last -> "absent"
    [] e \in (delivered + 1)..last -> "queued"
    [] e \in pending -> IF Outcomes[e] > 0 THEN "handled" ELSE "pending"
    [] OTHER -> "settled"

Queue == INSTANCE DeliveryQueue WITH state <- [e \in Entry |-> State(e)]

\* Refinement: every step, claims, retries, crashes and late workers included,
\* is a step of DeliveryQueue or leaves the queue alone.  An entry is settled
\* only when it was dealt with: a monitoring row was stored, the position was
\* found closed, or an alert that it is given up was tried.
QueueSpec == Queue!Spec

\* Every entry is dealt with in the end, unless a panic ended a worker.
EntrySettles ==
  \A e \in Entry :
    e <= last ~> (e <= delivered /\ e \notin pending) \/ \E w \in Worker : step[w] = "dead"
=============================================================================
