----------------------------- MODULE RetryStream -----------------------------
(***************************************************************************)
(* The stream stock.analyzer: a strategy publishes one entry per stock;    *)
(* one goroutine reads new entries, executes them and acknowledges what    *)
(* succeeded; a second one, woken by a ticker, claims entries that have    *)
(* been pending too long and executes them again, until it gives them up   *)
(* with an alert (stock_analyzer_multi_timeframe.go, consumer.go).         *)
(*                                                                         *)
(* Time is discrete.  An entry's idle time is Redis' (since its last       *)
(* delivery); a worker's age is the time since its context was created.    *)
(* Calls end with that context, except the insertion of the signal and     *)
(* those to Telegram: they are made without it and may last longer.        *)
(***************************************************************************)
EXTENDS Integers, FiniteSets

CONSTANTS MaxEntries,    \* bound: entries published in a behaviour
          Malformed,     \* entries whose payload does not parse (other publishers)
          Notified,      \* entries that ask to notify a user (other publishers)
          Timeout,       \* RedisStreamStockAnalyzerTimeout
          MaxIdle,       \* RedisStreamStockAnalyzerMaxIdleDuration
          Interval,      \* RedisStreamStockAnalyzerRetryInterval
          MaxRetry,      \* RedisStreamStockAnalyzerMaxRetry
          MaxMishaps     \* bound: crashes, panics and failed calls in a behaviour

Entry == 1..MaxEntries
None == 0

ASSUME EntryAssumption ==
  /\ MaxEntries \in Nat /\ MaxMishaps \in Nat /\ MaxRetry \in Nat \ {0}
  /\ Malformed \subseteq Entry /\ Notified \subseteq Entry

\* configs/config-executor.yaml: 1m, 5m and 1m
ASSUME TimeAssumption ==
  /\ Timeout \in Nat /\ MaxIdle \in Nat /\ Interval \in Nat \ {0}
  /\ Timeout < MaxIdle

VARIABLES last,       \* entries 1..last have been published
          delivered,  \* entries 1..delivered have been delivered by XREADGROUP
          stream,     \* entries in the stream
          pending,    \* entries delivered and not acknowledged
          idle,       \* idle time of a pending entry, up to MaxIdle
          count,      \* its delivery count, up to MaxRetry
          step,       \* each worker's place in ProcessTask or ProcessRetries
          held,       \* the entry it works on
          age,        \* time since its context was created
          late,       \* its context has ended
          timer,      \* time until the ticker of the retrier fires
          due,        \* the ticker's channel holds a tick
          signals,    \* history variable: stock signals stored for an entry
          alerts,     \* history variable: alerts tried for an entry given up
          tries,      \* history variable: executions of an entry by the retrier
          slips,      \* history variable: mishaps that hit an entry
          mishaps     \* number of mishaps so far

queueVars == <<last, delivered, stream, pending, idle, count>>
workerVars == <<step, held, age, late>>
tickerVars == <<timer, due>>
outcomeVars == <<signals, alerts, tries>>
mishapVars == <<slips, mishaps>>
vars == <<queueVars, workerVars, tickerVars, outcomeVars, mishapVars>>

Worker == {"reader", "retrier"}

\* A worker is between two calls; has claimed an entry and asks for its
\* delivery count; collects quotes, news and the model's answer; inserts the
\* signal; sends the analysis to the user; alerts that an entry is given up;
\* acknowledges; deletes; or died of a panic.
Step == {"free", "check", "execute", "store", "notify", "alert", "ack", "del", "dead"}

TypeOK ==
  /\ last \in 0..MaxEntries /\ delivered \in 0..last
  /\ stream \subseteq 1..last /\ pending \subseteq 1..delivered
  /\ idle \in [Entry -> 0..MaxIdle] /\ count \in [Entry -> 0..MaxRetry]
  /\ step \in [Worker -> Step] /\ held \in [Worker -> Entry \cup {None}]
  /\ age \in [Worker -> Nat] /\ late \in [Worker -> BOOLEAN]
  /\ timer \in 1..Interval /\ due \in BOOLEAN
  /\ signals \in [Entry -> Nat] /\ alerts \in [Entry -> Nat]
  /\ tries \in [Entry -> Nat] /\ slips \in [Entry -> Nat] /\ mishaps \in Nat

NoEntry == [e \in Entry |-> 0]

Init ==
  /\ last = 0 /\ delivered = 0 /\ stream = {} /\ pending = {}
  /\ idle = NoEntry /\ count = NoEntry
  /\ step = [w \in Worker |-> "free"] /\ held = [w \in Worker |-> None]
  /\ age = [w \in Worker |-> 0] /\ late = [w \in Worker |-> FALSE]
  /\ timer = Interval /\ due = FALSE
  /\ signals = NoEntry /\ alerts = NoEntry /\ tries = NoEntry
  /\ slips = NoEntry /\ mishaps = 0

\* Something goes wrong for the entries in E.
Mishap(E) ==
  /\ mishaps < MaxMishaps
  /\ mishaps' = mishaps + 1
  /\ slips' = [e \in Entry |-> IF e \in E THEN slips[e] + 1 ELSE slips[e]]

AtMost(n, bound) == IF n < bound THEN n ELSE bound

-----------------------------------------------------------------------------
(* Workers.                                                                *)

Deadline(w) == IF w = "reader" THEN Timeout ELSE MaxIdle

Busy(w) == step[w] \notin {"free", "dead"}

\* A call that is made without the worker's context
Detached(w) == step[w] \in {"store", "notify", "alert"}

Take(w, e, s) ==
  /\ step' = [step EXCEPT ![w] = s]
  /\ held' = [held EXCEPT ![w] = e]
  /\ age' = [age EXCEPT ![w] = 0]
  /\ late' = [late EXCEPT ![w] = FALSE]

Move(w, s) == step' = [step EXCEPT ![w] = s] /\ UNCHANGED <<held, age, late>>

\* The handler returns.
Leave(w) == Take(w, None, "free")

\* StockAnalyzerStrategy: one XADD per stock, without MAXLEN
Publish ==
  /\ last < MaxEntries
  /\ last' = last + 1
  /\ stream' = stream \cup {last + 1}
  /\ UNCHANGED <<delivered, pending, idle, count, workerVars, tickerVars, outcomeVars, mishapVars>>

\* Mutant of Read: the group's last delivered id is not moved
ReadInPlace ==
  /\ step["reader"] = "free"
  /\ delivered < last
  /\ pending' = pending \cup {delivered + 1}
  /\ Take("reader", delivered + 1, "execute")
  /\ UNCHANGED <<last, delivered, stream, idle, count, tickerVars, outcomeVars, mishapVars>>

\* ProcessTask: XREADGROUP ">" of one entry.  A malformed one stays pending;
\* so does one whose reply is lost, as after ExecuteFails.
Read ==
  /\ step["reader"] = "free"
  /\ delivered < last
  /\ delivered' = delivered + 1
  /\ LET e == delivered + 1
     IN  /\ pending' = pending \cup {e}
         /\ idle' = [idle EXCEPT ![e] = 0]
         /\ count' = [count EXCEPT ![e] = 1]
         /\ IF e \in Malformed THEN UNCHANGED workerVars ELSE Take("reader", e, "execute")
  /\ UNCHANGED <<last, stream, tickerVars, outcomeVars, mishapVars>>

Ticked == step["retrier"] = "free" /\ due /\ due' = FALSE /\ UNCHANGED timer

\* Mutant of Claimable: no MinIdle
AnyPending == pending

\* Mutant of Claimable: only the first pending entry is looked at
FirstIfIdle == {e \in pending : idle[e] = MaxIdle /\ \A d \in pending : e <= d}

\* MinIdle: MaxIdle
Claimable == {e \in pending : idle[e] = MaxIdle}

\* ProcessRetries: XAUTOCLAIM from "0" of one entry takes the oldest that is
\* idle (it looks at ten entries, more than any instance has).
Claim ==
  /\ Ticked
  /\ \E e \in Claimable :
       /\ \A d \in Claimable : e <= d
       /\ idle' = [idle EXCEPT ![e] = 0]
       /\ count' = [count EXCEPT ![e] = AtMost(@ + 1, MaxRetry)]
       /\ Take("retrier", e, "check")
  /\ UNCHANGED <<last, delivered, stream, pending, outcomeVars, mishapVars>>

\* There is nothing to claim.
NothingToClaim ==
  /\ Ticked
  /\ Claimable = {}
  /\ UNCHANGED <<queueVars, workerVars, outcomeVars, mishapVars>>

\* XPENDING finds the claimed entry's delivery count, and the payload parses.
CheckPending ==
  /\ step["retrier"] = "check"
  /\ IF held["retrier"] \in pending \ Malformed
       THEN /\ Move("retrier", "execute")
            /\ tries' = [tries EXCEPT ![held["retrier"]] = @ + 1]
       ELSE Leave("retrier") /\ UNCHANGED tries
  /\ UNCHANGED <<queueVars, tickerVars, signals, alerts, mishapVars>>

\* XPENDING fails, or the reply of XAUTOCLAIM is lost: the claim has counted.
CheckPendingFails ==
  /\ step["retrier"] = "check"
  /\ Mishap({})
  /\ Leave("retrier")
  /\ UNCHANGED <<queueVars, tickerVars, outcomeVars>>

\* Execute up to the insertion: each of these calls ends with the context.
Analyse(w) ==
  /\ step[w] = "execute"
  /\ Move(w, "store")
  /\ UNCHANGED <<queueVars, tickerVars, outcomeVars, mishapVars>>

Stored(w) == signals' = [signals EXCEPT ![held[w]] = @ + 1]

\* The signal is inserted, whether or not the context has ended meanwhile.
Store(w) ==
  /\ step[w] = "store"
  /\ Stored(w)
  /\ Move(w, IF held[w] \in Notified THEN "notify" ELSE "ack")
  /\ UNCHANGED <<queueVars, tickerVars, alerts, tries, mishapVars>>

\* Mutant of GivesUp: the delivery count as it is
GivesUpLater(w) == w = "retrier" /\ count[held[w]] >= MaxRetry

\* pendingInfo[0].RetryCount+1 >= MaxRetry; nobody else claims, so the count
\* is still the one XPENDING returned.
GivesUp(w) == w = "retrier" /\ count[held[w]] + 1 >= MaxRetry

\* Mutant of Failed: the error is not looked at
FailedIgnored(w) == Move(w, "ack")

\* What the handler does about an error of Execute
Failed(w) == IF GivesUp(w) THEN Move(w, "alert") ELSE Leave(w)

\* A call fails, or runs into the deadline.
ExecuteFails(w) ==
  /\ step[w] \in {"execute", "store"}
  /\ Failed(w)
  /\ UNCHANGED <<queueVars, tickerVars, outcomeVars, mishapVars>>

\* The insertion is committed, and its reply is lost.
StoreLost(w) ==
  /\ step[w] = "store"
  /\ Stored(w)
  /\ Mishap({held[w]})
  /\ Failed(w)
  /\ UNCHANGED <<queueVars, tickerVars, alerts, tries>>

\* The calls to Telegram, whose errors are only logged
Send(w) ==
  /\ step[w] \in {"notify", "alert"}
  /\ alerts' = IF step[w] = "alert" THEN [alerts EXCEPT ![held[w]] = @ + 1] ELSE alerts
  /\ Move(w, "ack")
  /\ UNCHANGED <<queueVars, tickerVars, signals, tries, mishapVars>>

\* The deadline passes while the worker waits for an insertion or Telegram.
Expire(w) ==
  /\ Detached(w) /\ ~late[w] /\ age[w] = Deadline(w)
  /\ Mishap({held[w]})
  /\ late' = [late EXCEPT ![w] = TRUE]
  /\ UNCHANGED <<queueVars, step, held, age, tickerVars, outcomeVars>>

\* Mutant of Ack: XDEL only
AckLost(w) ==
  /\ step[w] = "ack" /\ ~late[w]
  /\ Move(w, "del")
  /\ UNCHANGED <<queueVars, tickerVars, outcomeVars, mishapVars>>

\* AckNDel: XACK, then XDEL
Ack(w) ==
  /\ step[w] = "ack" /\ ~late[w]
  /\ pending' = pending \ {held[w]}
  /\ Move(w, "del")
  /\ UNCHANGED <<last, delivered, stream, idle, count, tickerVars, outcomeVars, mishapVars>>

Del(w) ==
  /\ step[w] = "del"
  /\ stream' = stream \ {held[w]}
  /\ Leave(w)
  /\ UNCHANGED <<last, delivered, pending, idle, count, tickerVars, outcomeVars, mishapVars>>

\* One of them fails, at once when the context has ended.
AckNDelFails(w) ==
  /\ step[w] \in {"ack", "del"}
  /\ IF late[w] THEN UNCHANGED mishapVars ELSE Mishap({held[w]})
  /\ Leave(w)
  /\ UNCHANGED <<queueVars, tickerVars, outcomeVars>>

\* A panic: GoSafe recovers it outside the loop, so the goroutine is gone.
Panic(w) ==
  /\ step[w] = "execute" \/ Detached(w)
  /\ Mishap({held[w]})
  /\ Take(w, None, "dead")
  /\ UNCHANGED <<queueVars, tickerVars, outcomeVars>>

-----------------------------------------------------------------------------
(* The process and time.                                                   *)

\* The process ends and is started again.  (On SIGTERM the contexts are
\* cancelled first: ExecuteFails, AckNDelFails, CheckPendingFails.)
Crash ==
  /\ Mishap({held[w] : w \in Worker})
  /\ step' = [w \in Worker |-> "free"] /\ held' = [w \in Worker |-> None]
  /\ age' = [w \in Worker |-> 0] /\ late' = [w \in Worker |-> FALSE]
  /\ timer' = Interval /\ due' = FALSE
  /\ UNCHANGED <<queueVars, outcomeVars>>

\* Time passes.  No worker stays in a call with its context beyond the
\* deadline; the retrier takes a tick from its channel when it is free to, and
\* XPENDING answers within one unit of time.
Tick ==
  /\ \A w \in Worker : Busy(w) /\ ~late[w] => age[w] < Deadline(w)
  /\ ~(due /\ step["retrier"] = "free") /\ step["retrier"] # "check"
  /\ age' = [w \in Worker |-> IF Busy(w) /\ ~late[w] THEN age[w] + 1 ELSE age[w]]
  /\ idle' = [e \in Entry |-> IF e \in pending THEN AtMost(idle[e] + 1, MaxIdle) ELSE idle[e]]
  /\ timer' = IF timer = 1 THEN Interval ELSE timer - 1
  /\ due' = (due \/ timer = 1)
  /\ UNCHANGED <<last, delivered, stream, pending, count, step, held, late, outcomeVars, mishapVars>>

-----------------------------------------------------------------------------

Retry == Claim \/ NothingToClaim \/ CheckPending

Advance(w) ==
  Analyse(w) \/ Store(w) \/ ExecuteFails(w) \/ Send(w) \/ Ack(w) \/ Del(w) \/ AckNDelFails(w)

Next ==
  \/ Publish
  \/ Read
  \/ Retry \/ CheckPendingFails
  \/ \E w \in Worker : Advance(w) \/ StoreLost(w) \/ Expire(w) \/ Panic(w)
  \/ Crash
  \/ Tick

Spec == Init /\ [][Next]_vars

\* Both goroutines run, every call returns in the end, and time passes.
FairSpec ==
  /\ Spec
  /\ WF_vars(Read) /\ WF_vars(Retry) /\ WF_vars(Tick)
  /\ \A w \in Worker : WF_vars(Advance(w))

-----------------------------------------------------------------------------
(* Properties.                                                             *)

\* The retrier gets an entry the reader still holds only when the reader's
\* context has ended: the reader can finish a call it has begun, and store a
\* second signal, but it will not acknowledge what the retrier works on.  Rests
\* on the reader's deadline ending before an entry is idle long enough.
SharedOnlyLate ==
  held["reader"] = held["retrier"] /\ held["reader"] # None => late["reader"]

Outcomes == [e \in Entry |-> signals[e] + alerts[e]]

\* An entry leaves the pending list only with an outcome: its signal was
\* stored, or an alert that it is given up was tried.
NothingLost == \A e \in (1..delivered) \ pending : Outcomes[e] > 0

\* An entry has one outcome: any further one is paid for by a mishap of the
\* entry, which kept it from being acknowledged after the one before or left a
\* worker behind that stores its signal after the deadline.
OneOutcome == \A e \in Entry : Outcomes[e] <= 1 + slips[e]

\* The limit bounds the work on an entry that keeps failing, whatever fails:
\* MaxRetry - 2 retries, but one at least, and one more for each mishap.
RetriesBounded ==
  \A e \in Entry : tries[e] <= slips[e] + IF MaxRetry > 3 THEN MaxRetry - 2 ELSE 1

State(e) ==
  CASE e > last -> "absent"
    [] e \in (delivered + 1)..last -> "queued"
    [] e \in pending -> IF Outcomes[e] > 0 THEN "handled" ELSE "pending"
    [] OTHER -> "settled"

Queue == INSTANCE DeliveryQueue WITH state <- [e \in Entry |-> State(e)]

\* Refinement: every step, claims, retries, crashes and late workers included,
\* is a step of DeliveryQueue or leaves the queue alone.
QueueSpec == Queue!Spec

\* The malformed entries before e, which are never settled
Blockers(e) == {d \in Malformed : d < e}

\* Every entry that parses is settled in the end, unless a panic ended a worker
\* or the malformed entries before it take every tick: each of them is idle
\* again after MaxIdle, and XAUTOCLAIM prefers it.
EntrySettles ==
  \A e \in {d \in Entry \ Malformed : Cardinality(Blockers(d)) * Interval < MaxIdle} :
    e <= last ~> (e <= delivered /\ e \notin pending) \/ \E w \in Worker : step[w] = "dead"
=============================================================================
