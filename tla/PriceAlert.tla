----------------------------- MODULE PriceAlert -----------------------------
(***************************************************************************)
(* The job STOCK_PRICE_ALERT (strategy/stock_price_alert.go): for every    *)
(* open position with price alerts it fetches quotes, tells the owner when *)
(* the take profit or stop loss price is reached, and remembers the price  *)
(* of the alert in Redis for a while.  Several tasks may run at a time;    *)
(* they share the table of positions and the keys in Redis.                *)
(*                                                                         *)
(* The hash with the last price is left out: nothing reads it here.        *)
(***************************************************************************)
EXTENDS PositionStore, FiniteSets, Sequences

CONSTANTS Stock,       \* stock codes
          StockOf,     \* stock_code of each position
          Run,         \* tasks of the job that may overlap
          Quotes,      \* what Yahoo Finance may answer, see Quote
          Threshold,   \* alert_resend_threshold_percent
          MaxRuns,     \* bound: tasks started in a behaviour
          MaxEvents    \* bound: failed calls and edits by users in a behaviour

Kind == {"take", "loss"}

\* A candle is fresh when it lies in alert_trigger_window_duration; market is
\* the market price, 0 when Yahoo has none.
Candle == [fresh : BOOLEAN, high : 1..MaxPrice, low : 1..MaxPrice]
Quote == [market : Price, candles : Seq(Candle)]

ASSUME AlertAssumption ==
  /\ StockOf \in [Position -> Stock]
  /\ Quotes \subseteq Quote
  /\ IsFiniteSet(Run)
  /\ Threshold \in Nat /\ MaxRuns \in Nat /\ MaxEvents \in Nat

VARIABLES key,      \* Redis: price of the last alert of a kind for a stock, 0 for no key
          step,     \* each task's place in Execute
          list,     \* the positions it has still to deal with, as it read them
          pos,      \* the position it deals with
          reached,  \* the price that reached each target, 0 for none
          kind,     \* the target it deals with
          runs,     \* number of tasks started
          lastSent, \* history variable: price of the last message, as long as it counts
          repeats,  \* history variable: messages too near to the one before
          excused,  \* history variable: times a task decided to send an alert another
                    \* was about to send, messages whose price was not kept, and
                    \* prices kept that are not the last message's
          wanted,   \* history variable: the rows as the users left them
          members,  \* history variable: the users the bot has not deleted
          meddled,  \* history variable: positions edited while a task held a copy
          events    \* number of failed calls and edits so far

localVars == <<step, list, pos, reached, kind>>
countVars == <<lastSent, repeats, excused>>
editVars == <<wanted, members, meddled>>
vars == <<tables, key, localVars, runs, countVars, editVars, events>>

Alert == Kind \X Stock

\* A task fetches the quotes of the next position, if there is one; asks Redis
\* for the last alert; sends the message; keeps its price; writes the position
\* back.
Step == {"fetch", "check", "send", "set", "update"}

Topic(t) == <<kind[t], StockOf[pos[t]]>>
Target(t) == reached[t][kind[t]]

\* The positions left, in the order the database gave them
Listed(t) == {p \in Position : list[t][p] # Null}

TypeOK ==
  /\ RowsTypeOK /\ key \in [Alert -> Price]
  /\ step \in [Run -> Step]
  /\ list \in [Run -> [Position -> Row \cup {Null}]]
  /\ pos \in [Run -> Position \cup {Null}]
  /\ reached \in [Run -> [Kind -> Price]] /\ kind \in [Run -> Kind]
  /\ \A t \in Run : step[t] # "fetch" => pos[t] \in Listed(t) /\ Target(t) # 0
  /\ runs \in 0..MaxRuns /\ events \in 0..MaxEvents
  /\ lastSent \in [Alert -> Price]
  /\ repeats \in [Alert -> Nat] /\ excused \in [Alert -> Nat]
  /\ wanted \in [Position -> Row \cup {Null}]
  /\ members \subseteq users /\ meddled \subseteq Position

NoRows == [p \in Position |-> Null]
NoAlerts == [a \in Alert |-> 0]
NotReached == [k \in Kind |-> 0]

Init ==
  /\ RowsInit /\ key = NoAlerts
  /\ step = [t \in Run |-> "fetch"] /\ list = [t \in Run |-> NoRows]
  /\ pos = [t \in Run |-> Null] /\ reached = [t \in Run |-> NotReached]
  /\ kind = [t \in Run |-> "take"]
  /\ runs = 0 /\ events = 0
  /\ lastSent = NoAlerts /\ repeats = NoAlerts /\ excused = NoAlerts
  /\ wanted = rows /\ members = users /\ meddled = {}

\* A call fails or a user changes something.
Event == events < MaxEvents /\ events' = events + 1

-----------------------------------------------------------------------------
(* Which prices reach a target.                                            *)

\* The last fresh candle that does, overridden by the market price.  A target
\* that is NULL is 0 in the copy: take profit is always reached.
Hits(row, candles, k) ==
  {i \in DOMAIN candles :
     /\ candles[i].fresh
     /\ IF k = "take" THEN candles[i].high >= row.take ELSE candles[i].low <= row.stop}

MarketHits(row, market, k) ==
  market # 0 /\ IF k = "take" THEN market >= row.take ELSE market <= row.stop

\* The price that counts for target k, 0 when none reaches it
Reaches(row, q, k, price) ==
  LET hits == Hits(row, q.candles, k)
  IN  IF MarketHits(row, q.market, k) THEN price = q.market
      ELSE IF hits = {} THEN price = 0
      ELSE \E i \in hits :
             /\ \A j \in hits : j <= i
             /\ price = IF k = "take" THEN q.candles[i].high ELSE q.candles[i].low

\* shouldTriggerAlert: no alert before, or the price moved by the threshold
Far(price, last) ==
  LET diff == IF price > last THEN price - last ELSE last - price
  IN  last = 0 \/ diff * 100 >= Threshold * last

-----------------------------------------------------------------------------
(* Execute.                                                                *)

Goto(t, s) == step' = [step EXCEPT ![t] = s]

\* The task is over, or not started.
Idle(t) == step[t] = "fetch" /\ list[t] = NoRows

\* The positions with an alert, in one query; when it fails the task is over.
Begin(t) ==
  /\ Idle(t) /\ runs < MaxRuns
  /\ runs' = runs + 1
  /\ list' = [list EXCEPT ![t] = AlertedRows]
  /\ UNCHANGED <<tables, key, step, pos, reached, kind, countVars, events, editVars>>

Forgotten(t, p) == [list EXCEPT ![t][p] = Null]

\* Its quotes.  When no target is reached it is noted as skipped.
Fetch(t) ==
  /\ step[t] = "fetch"
  /\ \E p \in Listed(t), q \in Quotes, prices \in [Kind -> Price] :
       /\ \A k \in Kind : Reaches(list[t][p], q, k, prices[k])
       /\ IF prices = NotReached
            THEN list' = Forgotten(t, p) /\ UNCHANGED <<step, pos, reached, kind>>
            ELSE /\ pos' = [pos EXCEPT ![t] = p]
                 /\ reached' = [reached EXCEPT ![t] = prices]
                 /\ kind' = [kind EXCEPT ![t] = IF prices["take"] # 0 THEN "take" ELSE "loss"]
                 /\ Goto(t, "check")
                 /\ UNCHANGED list
  /\ UNCHANGED <<tables, key, runs, countVars, events, editVars>>

\* They cannot be had; the task goes on with the next position.
FetchFails(t) ==
  /\ step[t] = "fetch"
  /\ \E p \in Listed(t) : list' = Forgotten(t, p)
  /\ UNCHANGED <<tables, key, step, pos, reached, kind, runs, countVars, events, editVars>>

\* Mutant of NextTarget: the stop loss is dealt with, reached or not
NextTargetAlways(t) ==
  IF kind[t] = "take"
    THEN kind' = [kind EXCEPT ![t] = "loss"] /\ Goto(t, "check")
    ELSE Goto(t, "update") /\ UNCHANGED kind

\* The targets are dealt with in turn, take profit first.
NextTarget(t) ==
  IF kind[t] = "take" /\ reached[t]["loss"] # 0
    THEN kind' = [kind EXCEPT ![t] = "loss"] /\ Goto(t, "check")
    ELSE Goto(t, "update") /\ UNCHANGED kind

\* A task has decided to send the alert and not kept its price yet.
Pending(a) == \E u \in Run : step[u] \in {"send", "set"} /\ Topic(u) = a

\* getLastAlertPrice, shouldTriggerAlert
Check(t) ==
  /\ step[t] = "check"
  /\ IF Far(Target(t), key[Topic(t)])
       THEN /\ Goto(t, "send") /\ UNCHANGED kind
            /\ excused' = [excused EXCEPT ![Topic(t)] = @ + IF Pending(Topic(t)) THEN 1 ELSE 0]
       ELSE NextTarget(t) /\ UNCHANGED excused
  /\ UNCHANGED <<tables, key, list, pos, reached, runs, lastSent, repeats, events, editVars>>

\* The error ends up in the result, unless the next target overwrites it.
CheckFails(t) ==
  /\ step[t] = "check" /\ Event
  /\ NextTarget(t)
  /\ UNCHANGED <<tables, key, list, pos, reached, runs, countVars, editVars>>

\* SendMessageUser, whose error is only logged
Send(t) ==
  /\ step[t] = "send"
  /\ lastSent' = [lastSent EXCEPT ![Topic(t)] = Target(t)]
  /\ repeats' = [repeats EXCEPT ![Topic(t)] =
                   @ + IF Far(Target(t), lastSent[Topic(t)]) THEN 0 ELSE 1]
  /\ Goto(t, "set")
  /\ UNCHANGED <<tables, key, list, pos, reached, kind, runs, excused, events, editVars>>

\* Another message of the kind was sent since this task's.
Overtaken(t) == lastSent[Topic(t)] \notin {0, Target(t)}

\* Mutant of Keep: the key holds the target price, not the one that reached it
KeepTarget(t) ==
  /\ step[t] = "set"
  /\ LET snap == list[t][pos[t]]
     IN  key' = [key EXCEPT ![Topic(t)] = IF kind[t] = "take" THEN snap.take ELSE snap.stop]
  /\ excused' = [excused EXCEPT ![Topic(t)] = @ + IF Overtaken(t) THEN 1 ELSE 0]
  /\ NextTarget(t)
  /\ UNCHANGED <<tables, list, pos, reached, runs, lastSent, repeats, events, editVars>>

\* SET with alert_cache_duration.  Tasks that overlap do so in any order.
Keep(t) ==
  /\ step[t] = "set"
  /\ key' = [key EXCEPT ![Topic(t)] = Target(t)]
  /\ excused' = [excused EXCEPT ![Topic(t)] = @ + IF Overtaken(t) THEN 1 ELSE 0]
  /\ NextTarget(t)
  /\ UNCHANGED <<tables, list, pos, reached, runs, lastSent, repeats, events, editVars>>

KeepFails(t) ==
  /\ step[t] = "set" /\ Event
  /\ excused' = [excused EXCEPT ![Topic(t)] = @ + 1]
  /\ NextTarget(t)
  /\ UNCHANGED <<tables, key, list, pos, reached, runs, lastSent, repeats, editVars>>

\* The copy is written back, alert or no alert; an error ends up in the result.
Update(t) ==
  /\ step[t] = "update"
  /\ WriteBack(pos[t], list[t][pos[t]]) \/ UNCHANGED tables
  /\ list' = Forgotten(t, pos[t])
  /\ pos' = [pos EXCEPT ![t] = Null]
  /\ reached' = [reached EXCEPT ![t] = NotReached]
  /\ Goto(t, "fetch")
  /\ UNCHANGED <<key, kind, runs, countVars, events, editVars>>

\* Redis: a key expires.  The next alert of its kind is not a repetition.
ExpireKey(a) ==
  /\ key[a] # 0
  /\ key' = [key EXCEPT ![a] = 0]
  /\ lastSent' = [lastSent EXCEPT ![a] = 0]
  /\ UNCHANGED <<tables, localVars, runs, repeats, excused, events, editVars>>

Held(p) == \E t \in Run : list[t][p] # Null

\* The positions in P, and their user, are as the user wants them to be.
Edited(P) ==
  /\ wanted' = [p \in Position |-> IF p \in P THEN rows'[p] ELSE wanted[p]]
  /\ members' = members \cap users'
  /\ meddled' = IF \E p \in P : Held(p) THEN meddled \cup P ELSE meddled \ P

Bot ==
  /\ \/ \E p \in Position : (Close(p) \/ BreakEven(p)) /\ Edited({p})
     \/ \E u \in User : RemoveUser(u) /\ Edited(PositionsOf(u))
  /\ Event
  /\ UNCHANGED <<key, localVars, runs, countVars>>

Execute(t) ==
  \/ Fetch(t) \/ FetchFails(t) \/ Check(t) \/ CheckFails(t)
  \/ Send(t) \/ Keep(t) \/ KeepFails(t) \/ Update(t)

Next ==
  \/ \E t \in Run : Begin(t) \/ Execute(t)
  \/ \E a \in Alert : ExpireKey(a)
  \/ Bot

Spec == Init /\ [][Next]_vars

-----------------------------------------------------------------------------
(* Properties.                                                             *)

\* An alert of one kind for a stock is repeated only when the price has moved
\* by the threshold since the last message, apart from one repetition for each
\* message two tasks were about to send at the same time, each price Redis
\* failed to keep, and each price kept over that of a later message.
AlertsSpaced == \A a \in Alert : repeats[a] <= excused[a]

\* What a user has changed stays as the user left it, and a deleted user stays
\* away, unless the change was made while a task held a copy of the position:
\* the tasks write positions back, but nothing of their own.
EditsStick ==
  \A p \in Position \ meddled :
    rows[p] = wanted[p] /\ (OwnerOf[p] \in users => OwnerOf[p] \in members)
=============================================================================
