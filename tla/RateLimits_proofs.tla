-------------------------- MODULE RateLimits_proofs --------------------------
(***************************************************************************)
(* Proofs about RateLimits, for any goroutines, budget, period, rates and  *)
(* deadlines.                                                              *)
(***************************************************************************)
EXTENDS RateLimits, FiniteSetTheorems, TLAPS

\* A call that has not sent its last request has one left to send.
RequestsLeft == \A c \in Caller : step[c] \notin {"idle", "send"} => left[c] >= 1

TypeInv == TypeOK /\ RequestsLeft

(***************************************************************************)
(* ledger[now] + remaining - Capacity tokens had been granted when the     *)
(* budget was filled up the last time.  Every later instant's ledger holds *)
(* them; and as the fill-up before that one was a period earlier, the      *)
(* ledger of an instant in that period lacks at most one capacity of them. *)
(***************************************************************************)
SinceRefill == \A u \in lastRefill..now : ledger[u] + Capacity >= ledger[now] + remaining

BeforeRefill ==
  \A u \in 0..now :
    u + Period >= lastRefill => ledger[u] + 2 * Capacity >= ledger[now] + remaining

IInv == TypeInv /\ SinceRefill /\ BeforeRefill /\ TwicePerPeriod

-----------------------------------------------------------------------------
(* Type correctness.                                                       *)

LEMMA Steps == Step = {"idle", "count", "refill", "take", "sleep", "reserve", "book", "wait", "send"}
BY DEF Step

\* A caller's moves keep its locals typed.
LEMMA MoveTyped ==
  ASSUME TypeInv, NEW c \in Caller, NEW s \in Step, Move(c, s)
  PROVE  step' \in [Caller -> Step]
BY DEF Move, TypeInv, TypeOK

LEMMA LeaveTyped ==
  ASSUME TypeInv, NEW c \in Caller, Leave(c)
  PROVE  /\ step' = [step EXCEPT ![c] = "idle"] /\ step' \in [Caller -> Step]
         /\ left' = [left EXCEPT ![c] = 0] /\ left' \in [Caller -> 0..3]
         /\ need' \in [Caller -> 0..MaxNeed]
         /\ turn' \in [Caller -> Nat] /\ deadline' \in [Caller -> Nat]
         /\ api' = api
BY RateAssumption, Steps DEF Leave, Move, TypeInv, TypeOK

LEMMA TypeInit == Init => TypeInv
<1> SUFFICES ASSUME Init PROVE TypeInv
  OBVIOUS
<1>1. now \in Clock /\ remaining \in 0..Capacity /\ lastRefill \in 0..now
  BY RateAssumption DEF Init, Clock
<1>2. /\ slot \in [Api -> Nat] /\ sent \in [Api -> Nat] /\ ledger \in [Clock -> Nat]
      /\ step \in [Caller -> Step] /\ api \in [Caller -> Api]
  BY Steps DEF Init, Api
<1>3. /\ left \in [Caller -> 0..3] /\ need \in [Caller -> 0..MaxNeed]
      /\ turn \in [Caller -> Nat] /\ deadline \in [Caller -> Nat]
  BY RateAssumption DEF Init
<1>4. RequestsLeft
  BY DEF Init, RequestsLeft
<1>5. QED
  BY <1>1, <1>2, <1>3, <1>4 DEF TypeInv, TypeOK

\* The turn the request limiter gives is an instant.
LEMMA TurnTyped == ASSUME TypeInv, NEW a \in Api PROVE NextTurn(a) \in Nat /\ NextTurn(a) + Gap \in Nat
BY RateAssumption DEF TypeInv, TypeOK, NextTurn, Clock

LEMMA TypeStep == TypeInv /\ [Next]_vars => TypeInv'
<1> SUFFICES ASSUME TypeInv, [Next]_vars PROVE TypeInv'
  OBVIOUS
<1> USE RateAssumption, Steps
<1>1. CASE Tick
  <2>1. /\ now' = now + 1 /\ now < MaxClock
        /\ ledger' = [ledger EXCEPT ![now + 1] = ledger[now]]
        /\ UNCHANGED <<limiterVars, step, callVars, sent>>
    BY <1>1 DEF Tick
  <2>2. now' \in Clock /\ lastRefill' \in 0..now'
    BY <2>1 DEF TypeInv, TypeOK, Clock, limiterVars
  <2>3. ledger' \in [Clock -> Nat]
    BY <2>1 DEF TypeInv, TypeOK, Clock
  <2>4. QED
    BY <2>1, <2>2, <2>3 DEF TypeInv, TypeOK, RequestsLeft, limiterVars, callVars
<1>2. ASSUME NEW c \in Caller, Start(c) PROVE TypeInv'
  <2>1. PICK a \in Uses[c] : \E n \in Requests(a) :
          /\ api' = [api EXCEPT ![c] = a] /\ left' = [left EXCEPT ![c] = n]
          /\ Move(c, FirstStep(a))
    BY <1>2 DEF Start
  <2>2. PICK n \in Requests(a) :
          /\ api' = [api EXCEPT ![c] = a] /\ left' = [left EXCEPT ![c] = n]
          /\ Move(c, FirstStep(a))
    BY <2>1
  <2>3. a \in Api /\ n \in 1..3 /\ FirstStep(a) \in Step \ {"idle", "send"}
    BY DEF Requests, FirstStep
  <2>4. deadline' \in [Caller -> Nat]
    BY <1>2 DEF Start, TypeInv, TypeOK, Clock
  <2>5. step' \in [Caller -> Step]
    BY <2>2, <2>3, MoveTyped
  <2>6. api' \in [Caller -> Api] /\ left' \in [Caller -> 0..3]
    BY <2>2, <2>3 DEF TypeInv, TypeOK
  <2>7. RequestsLeft'
    BY <2>2, <2>3 DEF RequestsLeft, Move, TypeInv, TypeOK
  <2>8. QED
    BY <1>2, <2>4, <2>5, <2>6, <2>7 DEF Start, TypeInv, TypeOK, limiterVars, countVars
<1>3. ASSUME NEW c \in Caller, CountTokens(c) PROVE TypeInv'
  <2>1. need' \in [Caller -> 0..MaxNeed]
    BY <1>3 DEF CountTokens, TypeInv, TypeOK
  <2>2. step' \in [Caller -> Step] /\ RequestsLeft'
    BY <1>3, MoveTyped DEF CountTokens, Move, TypeInv, TypeOK, RequestsLeft
  <2>3. QED
    BY <1>3, <2>1, <2>2 DEF CountTokens, TypeInv, TypeOK, limiterVars, countVars
<1>4. ASSUME NEW c \in Caller, CallFails(c) \/ GiveUp(c) \/ WaitEnds(c) PROVE TypeInv'
  <2>1. Leave(c) /\ UNCHANGED <<now, limiterVars, countVars>>
    BY <1>4 DEF CallFails, GiveUp, WaitEnds
  <2>2. RequestsLeft'
    BY <2>1, LeaveTyped DEF RequestsLeft, TypeInv, TypeOK
  <2>3. QED
    BY <2>1, <2>2, LeaveTyped DEF TypeInv, TypeOK, limiterVars, countVars
<1>5. ASSUME NEW c \in Caller, Refill(c) PROVE TypeInv'
  <2>1. remaining' \in 0..Capacity /\ lastRefill' \in 0..now
    BY <1>5 DEF Refill, TypeInv, TypeOK, Clock
  <2>2. step' \in [Caller -> Step] /\ RequestsLeft'
    BY <1>5, MoveTyped DEF Refill, Move, TypeInv, TypeOK, RequestsLeft, callVars
  <2>3. QED
    BY <1>5, <2>1, <2>2 DEF Refill, TypeInv, TypeOK, callVars, countVars
<1>6. ASSUME NEW c \in Caller, TakeTokens(c) PROVE TypeInv'
  <2>1. remaining' \in 0..Capacity
    BY <1>6 DEF TakeTokens, TypeInv, TypeOK
  <2>2. ledger' \in [Clock -> Nat]
    BY <1>6 DEF TakeTokens, TypeInv, TypeOK
  <2>3. step' \in [Caller -> Step] /\ RequestsLeft'
    BY <1>6, MoveTyped DEF TakeTokens, Move, TypeInv, TypeOK, RequestsLeft, callVars
  <2>4. QED
    BY <1>6, <2>1, <2>2, <2>3 DEF TakeTokens, TypeInv, TypeOK, callVars
<1>7. ASSUME NEW c \in Caller, Sleep(c) PROVE TypeInv'
  <2>1. turn' \in [Caller -> Nat]
    BY <1>7 DEF Sleep, TypeInv, TypeOK, Clock
  <2>2. step' \in [Caller -> Step] /\ RequestsLeft'
    BY <1>7, MoveTyped DEF Sleep, Move, TypeInv, TypeOK, RequestsLeft
  <2>3. QED
    BY <1>7, <2>1, <2>2 DEF Sleep, TypeInv, TypeOK, limiterVars, countVars
<1>8. ASSUME NEW c \in Caller, Poll(c) PROVE TypeInv'
  <2>1. step' \in [Caller -> Step] /\ RequestsLeft'
    BY <1>8, MoveTyped DEF Poll, Move, TypeInv, TypeOK, RequestsLeft, callVars
  <2>2. QED
    BY <1>8, <2>1 DEF Poll, TypeInv, TypeOK, limiterVars, callVars, countVars
<1>9. ASSUME NEW c \in Caller, Reserve(c) PROVE TypeInv'
  <2>1. slot' \in [Api -> Nat]
    BY <1>9, TurnTyped DEF Reserve, TypeInv, TypeOK
  <2>2. step' \in [Caller -> Step] /\ RequestsLeft'
    BY <1>9, MoveTyped DEF Reserve, Move, TypeInv, TypeOK, RequestsLeft, callVars
  <2>3. QED
    BY <1>9, <2>1, <2>2 DEF Reserve, TypeInv, TypeOK, callVars, countVars
<1>10. ASSUME NEW c \in Caller, Book(c) PROVE TypeInv'
  <2> DEFINE t == NextTurn(api[c])
  <2>1. CASE Leave(c) /\ UNCHANGED slot
    <3>1. RequestsLeft'
      BY <2>1, LeaveTyped DEF RequestsLeft, TypeInv, TypeOK
    <3>2. QED
      BY <1>10, <2>1, <3>1, LeaveTyped DEF Book, TypeInv, TypeOK, countVars
  <2>2. CASE /\ slot' = [slot EXCEPT ![api[c]] = t + Gap] /\ turn' = [turn EXCEPT ![c] = t]
             /\ Move(c, "wait") /\ UNCHANGED <<api, left, need, deadline>>
    <3>1. slot' \in [Api -> Nat] /\ turn' \in [Caller -> Nat]
      BY <2>2, TurnTyped DEF TypeInv, TypeOK
    <3>2. step' \in [Caller -> Step] /\ RequestsLeft'
      BY <1>10, <2>2, MoveTyped DEF Book, Move, TypeInv, TypeOK, RequestsLeft
    <3>3. QED
      BY <1>10, <2>2, <3>1, <3>2 DEF Book, TypeInv, TypeOK, countVars
  <2>3. QED
    BY <1>10, <2>1, <2>2 DEF Book
<1>11. ASSUME NEW c \in Caller, Send(c) PROVE TypeInv'
  <2>1. left[c] - 1 \in 0..3
    BY <1>11 DEF Send, TypeInv, TypeOK, RequestsLeft
  <2>2. left' \in [Caller -> 0..3]
    BY <1>11, <2>1 DEF Send, TypeInv, TypeOK
  <2>3. sent' \in [Api -> Nat]
    BY <1>11 DEF Send, TypeInv, TypeOK
  <2>4. step' \in [Caller -> Step] /\ RequestsLeft'
    BY <1>11, MoveTyped DEF Send, Move, TypeInv, TypeOK, RequestsLeft
  <2>5. QED
    BY <1>11, <2>2, <2>3, <2>4 DEF Send, TypeInv, TypeOK, limiterVars
<1>12. ASSUME NEW c \in Caller, Answer(c) PROVE TypeInv'
  <2>1. CASE left[c] > 0 /\ Move(c, "book") /\ UNCHANGED callVars
    <3>1. step' \in [Caller -> Step]
      BY <2>1, MoveTyped
    <3>2. step' = [step EXCEPT ![c] = "book"] /\ left' = left /\ left[c] >= 1
      BY <2>1 DEF Move, TypeInv, TypeOK, callVars
    <3>3. RequestsLeft'
      BY <3>2 DEF TypeInv, TypeOK, RequestsLeft
    <3>4. QED
      BY <1>12, <2>1, <3>1, <3>3 DEF Answer, TypeInv, TypeOK, limiterVars, callVars, countVars
  <2>2. CASE Leave(c)
    <3>1. RequestsLeft'
      BY <2>2, LeaveTyped DEF RequestsLeft, TypeInv, TypeOK
    <3>2. QED
      BY <1>12, <2>2, <3>1, LeaveTyped DEF Answer, TypeInv, TypeOK, limiterVars, countVars
  <2>3. QED
    BY <1>12, <2>1, <2>2 DEF Answer
<1>13. CASE UNCHANGED vars
  BY <1>13 DEF vars, TypeInv, TypeOK, RequestsLeft, limiterVars, callVars, countVars
<1>14. QED
  BY <1>1, <1>2, <1>3, <1>4, <1>5, <1>6, <1>7, <1>8, <1>9, <1>10, <1>11, <1>12, <1>13
     DEF Next, Advance

\* The limiters keep their state well-typed: remaining never leaves
\* 0..capacity, however the goroutines' locked sections interleave.
THEOREM TypeCorrect == Spec => []TypeOK
<1>1. TypeInv => TypeOK
  BY DEF TypeInv
<1>2. QED
  BY <1>1, TypeInit, TypeStep, PTL DEF Spec

-----------------------------------------------------------------------------
(* The token budget.                                                       *)

LEMMA BudgetInit == Init => IInv
<1> SUFFICES ASSUME Init PROVE IInv
  OBVIOUS
<1>1. now = 0 /\ remaining = Capacity /\ lastRefill = 0 /\ ledger[0] = 0
  BY RateAssumption DEF Init, Clock
<1>2. SinceRefill
  BY <1>1, RateAssumption DEF SinceRefill
<1>3. BeforeRefill
  BY <1>1, RateAssumption DEF BeforeRefill
<1>4. TwicePerPeriod
  BY <1>1, RateAssumption DEF TwicePerPeriod
<1>5. QED
  BY <1>2, <1>3, <1>4, TypeInit DEF IInv

\* The grants of the current instant are within what BeforeRefill allows, for
\* the period before it began after the fill-up before the last.
LEMMA BudgetBound ==
  ASSUME TypeInv, BeforeRefill, NEW s \in 0..now, now - s <= Period
  PROVE  ledger[now] - ledger[s] <= 2 * Capacity
<1>1. /\ s \in Clock /\ now \in Clock /\ now \in Nat /\ s \in Nat
      /\ lastRefill \in 0..now /\ remaining \in 0..Capacity
  BY RateAssumption DEF TypeInv, TypeOK, Clock
<1>2. ledger[s] \in Nat /\ ledger[now] \in Nat
  BY <1>1 DEF TypeInv, TypeOK
<1>3. ledger[s] + 2 * Capacity >= ledger[now] + remaining
  BY <1>1, RateAssumption DEF BeforeRefill
<1>4. QED
  BY <1>1, <1>2, <1>3, RateAssumption

LEMMA BudgetStep == IInv /\ [Next]_vars => IInv'
<1> SUFFICES ASSUME IInv, [Next]_vars PROVE IInv'
  OBVIOUS
<1> USE RateAssumption
<1>0. TypeInv /\ TypeInv'
  BY TypeStep DEF IInv
<1>1. /\ now \in Nat /\ now <= MaxClock /\ remaining \in Nat /\ remaining <= Capacity
      /\ lastRefill \in Nat /\ lastRefill <= now
  BY <1>0 DEF TypeInv, TypeOK, Clock
<1>2. \A u \in 0..now : ledger[u] \in Nat /\ ledger'[u] \in Nat
  BY <1>0, <1>1 DEF TypeInv, TypeOK, Clock
<1>3. CASE Tick
  <2>1. /\ now' = now + 1 /\ now + 1 \in Clock
        /\ ledger' = [ledger EXCEPT ![now + 1] = ledger[now]]
        /\ remaining' = remaining /\ lastRefill' = lastRefill
    BY <1>1, <1>3 DEF Tick, limiterVars, Clock
  <2>2. /\ \A u \in 0..now : ledger'[u] = ledger[u]
        /\ ledger'[now + 1] = ledger[now]
    BY <1>0, <1>1, <2>1 DEF TypeInv, TypeOK, Clock
  <2>3. SinceRefill'
    BY <1>1, <1>2, <2>1, <2>2 DEF IInv, SinceRefill
  <2>4. BeforeRefill'
    <3> SUFFICES ASSUME NEW u \in 0..(now + 1), u + Period >= lastRefill
                 PROVE  ledger'[u] + 2 * Capacity >= ledger[now] + remaining
      BY <2>1, <2>2 DEF BeforeRefill
    <3>1. CASE u \in 0..now
      BY <3>1, <2>2 DEF IInv, BeforeRefill
    <3>2. CASE u = now + 1
      BY <3>2, <1>1, <1>2, <2>2
    <3>3. QED
      BY <3>1, <3>2, <1>1
  <2>5. TwicePerPeriod'
    <3> SUFFICES ASSUME NEW s \in 0..(now + 1), NEW t \in 0..(now + 1), s <= t, t - s <= Period
                 PROVE  ledger'[t] - ledger'[s] <= 2 * Capacity
      BY <2>1 DEF TwicePerPeriod
    <3>1. CASE t \in 0..now
      <4>1. s \in 0..now
        BY <3>1, <1>1
      <4>2. QED
        BY <3>1, <4>1, <2>2 DEF IInv, TwicePerPeriod
    <3>2. CASE t = now + 1 /\ s = now + 1
      BY <3>2, <1>1, <1>2, <2>2
    <3>3. CASE t = now + 1 /\ s \in 0..now
      <4>1. ledger[now] - ledger[s] <= 2 * Capacity
        BY <3>3, <1>0, <1>1, BudgetBound DEF IInv
      <4>2. QED
        BY <3>3, <4>1, <2>2
    <3>4. QED
      BY <3>1, <3>2, <3>3, <1>1
  <2>6. QED
    BY <1>0, <2>3, <2>4, <2>5 DEF IInv
<1>4. ASSUME NEW c \in Caller, Refill(c) PROVE IInv'
  <2>1. /\ now' = now /\ ledger' = ledger
        /\ \/ remaining' = remaining /\ lastRefill' = lastRefill
           \/ now - lastRefill >= Period /\ remaining' = Capacity /\ lastRefill' = now
    BY <1>4 DEF Refill, countVars
  <2>2. SinceRefill'
    BY <1>1, <1>2, <2>1 DEF IInv, SinceRefill
  <2>3. BeforeRefill'
    <3>1. CASE remaining' = remaining /\ lastRefill' = lastRefill
      BY <3>1, <2>1 DEF IInv, BeforeRefill
    <3>2. CASE now - lastRefill >= Period /\ remaining' = Capacity /\ lastRefill' = now
      <4> SUFFICES ASSUME NEW u \in 0..now, u + Period >= now
                   PROVE  ledger[u] + 2 * Capacity >= ledger[now] + Capacity
        BY <2>1, <3>2 DEF BeforeRefill
      <4>1. u \in lastRefill..now
        BY <3>2, <1>1
      <4>2. ledger[u] + Capacity >= ledger[now] + remaining
        BY <4>1 DEF IInv, SinceRefill
      <4>3. ledger[u] \in Nat /\ ledger[now] \in Nat
        BY <1>1, <1>2
      <4>4. QED
        BY <4>2, <4>3, <1>1
    <3>3. QED
      BY <2>1, <3>1, <3>2
  <2>4. TwicePerPeriod'
    BY <2>1 DEF IInv, TwicePerPeriod
  <2>5. QED
    BY <1>0, <2>2, <2>3, <2>4 DEF IInv
<1>5. ASSUME NEW c \in Caller, TakeTokens(c) PROVE IInv'
  <2>1. /\ now' = now /\ lastRefill' = lastRefill
        /\ remaining' = remaining - need[c] /\ ledger' = [ledger EXCEPT ![now] = @ + need[c]]
    BY <1>5 DEF TakeTokens
  <2>2. need[c] \in Nat
    BY <1>0 DEF TypeInv, TypeOK
  <2>3. /\ \A u \in 0..now : u # now => ledger'[u] = ledger[u]
        /\ ledger'[now] = ledger[now] + need[c]
    BY <1>0, <1>1, <2>1 DEF TypeInv, TypeOK, Clock
  <2>4. ledger'[now] + remaining' = ledger[now] + remaining
    BY <1>1, <1>2, <2>1, <2>2, <2>3
  <2>5. \A u \in 0..now : ledger'[u] >= ledger[u]
    BY <1>1, <1>2, <2>2, <2>3
  <2>6. SinceRefill'
    <3> SUFFICES ASSUME NEW u \in lastRefill..now
                 PROVE  ledger'[u] + Capacity >= ledger'[now] + remaining'
      BY <2>1 DEF SinceRefill
    <3>1. ledger[u] + Capacity >= ledger[now] + remaining
      BY DEF IInv, SinceRefill
    <3>2. ledger[u] \in Nat /\ ledger'[u] \in Nat /\ ledger'[u] >= ledger[u]
      BY <1>1, <1>2, <2>5
    <3>3. /\ ledger'[now] + remaining' = ledger[now] + remaining
          /\ ledger'[now] + remaining' \in Int
      BY <1>1, <1>2, <2>4
    <3>4. QED
      BY <3>1, <3>2, <3>3
  <2>7. BeforeRefill'
    <3> SUFFICES ASSUME NEW u \in 0..now, u + Period >= lastRefill
                 PROVE  ledger'[u] + 2 * Capacity >= ledger'[now] + remaining'
      BY <2>1 DEF BeforeRefill
    <3>1. ledger[u] + 2 * Capacity >= ledger[now] + remaining
      BY DEF IInv, BeforeRefill
    <3>2. ledger[u] \in Nat /\ ledger'[u] \in Nat /\ ledger'[u] >= ledger[u]
      BY <1>2, <2>5
    <3>3. /\ ledger'[now] + remaining' = ledger[now] + remaining
          /\ ledger'[now] + remaining' \in Int
      BY <1>1, <1>2, <2>4
    <3>4. QED
      BY <3>1, <3>2, <3>3
  <2>8. TwicePerPeriod'
    <3> SUFFICES ASSUME NEW s \in 0..now, NEW t \in 0..now, s <= t, t - s <= Period
                 PROVE  ledger'[t] - ledger'[s] <= 2 * Capacity
      BY <2>1 DEF TwicePerPeriod
    <3>1. CASE t = now
      <4>1. s + Period >= lastRefill
        BY <3>1, <1>1
      <4>2. ledger'[s] + 2 * Capacity >= ledger'[now] + remaining'
        BY <4>1, <2>1, <2>7 DEF BeforeRefill
      <4>3. remaining' >= 0 /\ remaining' \in Nat
        BY <1>0 DEF TypeInv, TypeOK
      <4>4. ledger'[s] \in Nat /\ ledger'[now] \in Nat
        BY <1>1, <1>2
      <4>5. QED
        BY <3>1, <4>2, <4>3, <4>4
    <3>2. CASE t # now
      <4>1. s # now
        BY <3>2, <1>1
      <4>2. ledger'[t] = ledger[t] /\ ledger'[s] = ledger[s]
        BY <3>2, <4>1, <2>3
      <4>3. QED
        BY <4>2 DEF IInv, TwicePerPeriod
    <3>3. QED
      BY <3>1, <3>2
  <2>9. QED
    BY <1>0, <2>6, <2>7, <2>8 DEF IInv
<1>6. CASE UNCHANGED <<now, ledger, remaining, lastRefill>>
  BY <1>0, <1>6 DEF IInv, SinceRefill, BeforeRefill, TwicePerPeriod
<1>7. ASSUME NEW c \in Caller,
             \/ Start(c) \/ CountTokens(c) \/ CallFails(c) \/ Sleep(c) \/ Poll(c) \/ GiveUp(c)
             \/ Reserve(c) \/ Book(c) \/ Send(c) \/ WaitEnds(c) \/ Answer(c)
      PROVE  UNCHANGED <<now, ledger, remaining, lastRefill>>
  BY <1>7 DEF Start, CountTokens, CallFails, Sleep, Poll, GiveUp, Reserve, Book, Send, WaitEnds,
              Answer, limiterVars, countVars
<1>8. UNCHANGED vars => UNCHANGED <<now, ledger, remaining, lastRefill>>
  BY DEF vars, limiterVars, countVars
<1>9. QED
  BY <1>3, <1>4, <1>5, <1>6, <1>7, <1>8 DEF Next, Advance

\* One period grants at most twice the budget: refill and take are two locked
\* sections, and no order of the goroutines' sections grants more.
THEOREM BudgetHolds == Spec => []TwicePerPeriod
<1>1. IInv => TwicePerPeriod
  BY DEF IInv
<1>2. QED
  BY <1>1, BudgetInit, BudgetStep, PTL DEF Spec

-----------------------------------------------------------------------------
(* No prompt that fits is starved.                                         *)
(* A caller looks at the budget at every instant.  At the last one before  *)
(* its context ends the budget was filled up less than a period ago, that  *)
(* is after the call began; what is missing was taken since.               *)

Grows == \A s, t \in 0..now : s <= t => ledger[s] <= ledger[t]

TakenSince == \A u \in 0..now : u < lastRefill => ledger[u] + Capacity <= ledger[now] + remaining

InTime ==
  \A c \in Caller :
    /\ step[c] # "idle" => now <= deadline[c] /\ Timeout <= deadline[c] /\ deadline[c] <= now + Timeout
    /\ step[c] = "take" => now < lastRefill + Period

Crowded ==
  \A c \in Caller : step[c] = "sleep" =>
    /\ now <= turn[c]
    /\ need[c] <= Capacity /\ deadline[c] + Period < turn[c] + Timeout
         => ledger[deadline[c] - Timeout] < ledger[now]

CrowdInv == Grows /\ TakenSince /\ InTime /\ Crowded

LEMMA CrowdInit == Init => CrowdInv
<1> SUFFICES ASSUME Init PROVE CrowdInv
  OBVIOUS
<1>1. now = 0 /\ lastRefill = 0 /\ ledger[0] = 0 /\ \A c \in Caller : step[c] = "idle"
  BY RateAssumption DEF Init, Clock
<1>2. QED
  BY <1>1 DEF CrowdInv, Grows, TakenSince, InTime, Crowded

LEMMA ClockTyped ==
  ASSUME TypeInv
  PROVE  /\ now \in Nat /\ now <= MaxClock /\ remaining \in Nat /\ lastRefill \in Nat /\ lastRefill <= now
         /\ \A u \in 0..now : ledger[u] \in Nat
         /\ Capacity \in Nat /\ Period \in Nat /\ Timeout \in Nat /\ Period >= 1
         /\ \A c \in Caller : deadline[c] \in Nat /\ turn[c] \in Nat /\ need[c] \in Nat
<1>1. now \in Nat /\ now <= MaxClock /\ remaining \in Nat /\ lastRefill \in Nat /\ lastRefill <= now
  BY RateAssumption DEF TypeInv, TypeOK, Clock
<1>2. \A u \in 0..now : u \in Clock
  BY <1>1, RateAssumption DEF Clock
<1>3. \A u \in 0..now : ledger[u] \in Nat
  BY <1>2 DEF TypeInv, TypeOK
<1>4. \A c \in Caller : deadline[c] \in Nat /\ turn[c] \in Nat /\ need[c] \in Nat
  BY RateAssumption DEF TypeInv, TypeOK
<1>5. QED
  BY <1>1, <1>3, <1>4, RateAssumption

\* A caller that goes on with something else, or leaves.
LEMMA CrowdMoves ==
  ASSUME CrowdInv, NEW c \in Caller, UNCHANGED <<now, ledger, remaining, lastRefill>>,
         step'[c] \notin {"take", "sleep"},
         step'[c] # "idle" => step[c] # "idle" /\ deadline'[c] = deadline[c],
         \A d \in Caller \ {c} : /\ step'[d] = step[d] /\ deadline'[d] = deadline[d]
                                 /\ turn'[d] = turn[d] /\ need'[d] = need[d]
  PROVE  CrowdInv'
<1>1. Grows' /\ TakenSince'
  BY DEF CrowdInv, Grows, TakenSince
<1>2. InTime'
  BY DEF CrowdInv, InTime
<1>3. Crowded'
  BY DEF CrowdInv, Crowded
<1>4. QED
  BY <1>1, <1>2, <1>3 DEF CrowdInv

LEMMA CrowdStep == TypeInv /\ CrowdInv /\ [Next]_vars => CrowdInv'
<1> SUFFICES ASSUME TypeInv, CrowdInv, [Next]_vars PROVE CrowdInv'
  OBVIOUS
<1>1. /\ now \in Nat /\ now <= MaxClock /\ remaining \in Nat /\ lastRefill \in Nat /\ lastRefill <= now
      /\ \A u \in 0..now : ledger[u] \in Nat
      /\ Capacity \in Nat /\ Period \in Nat /\ Timeout \in Nat /\ Period >= 1
      /\ \A c \in Caller : deadline[c] \in Nat /\ turn[c] \in Nat /\ need[c] \in Nat
  BY ClockTyped
<1>2. CASE Tick
  <2>1. /\ now' = now + 1 /\ now + 1 \in Clock
        /\ ledger' = [ledger EXCEPT ![now + 1] = ledger[now]]
        /\ UNCHANGED <<remaining, lastRefill, step, need, turn, deadline>>
    BY <1>1, <1>2, RateAssumption DEF Tick, limiterVars, callVars, Clock
  <2>2. \A c \in Caller : /\ step[c] # "take"
                          /\ step[c] # "idle" => now < deadline[c]
                          /\ step[c] = "sleep" => now < turn[c]
    BY <1>1, <1>2 DEF Tick, Instant, Expired
  <2>3. /\ \A u \in 0..now : ledger'[u] = ledger[u]
        /\ ledger'[now + 1] = ledger[now]
    BY <1>1, <2>1 DEF TypeInv, TypeOK, Clock
  <2>4. Grows'
    <3> SUFFICES ASSUME NEW s \in 0..(now + 1), NEW t \in 0..(now + 1), s <= t
                 PROVE  ledger'[s] <= ledger'[t]
      BY <2>1 DEF Grows
    <3>1. CASE t \in 0..now
      <4>1. s \in 0..now
        BY <1>1, <3>1
      <4>2. QED
        BY <2>3, <3>1, <4>1 DEF CrowdInv, Grows
    <3>2. CASE t = now + 1 /\ s \in 0..now
      BY <1>1, <2>3, <3>2 DEF CrowdInv, Grows
    <3>3. CASE t = now + 1 /\ s = now + 1
      BY <1>1, <2>3, <3>3
    <3>4. QED
      BY <1>1, <3>1, <3>2, <3>3
  <2>5. TakenSince'
    <3> SUFFICES ASSUME NEW u \in 0..(now + 1), u < lastRefill
                 PROVE  ledger'[u] + Capacity <= ledger[now] + remaining
      BY <2>1, <2>3 DEF TakenSince
    <3>1. u \in 0..now
      BY <1>1
    <3>2. QED
      BY <2>3, <3>1 DEF CrowdInv, TakenSince
  <2>6. InTime'
    <3> SUFFICES ASSUME NEW c \in Caller, step[c] # "idle"
                 PROVE  now + 1 <= deadline[c] /\ Timeout <= deadline[c] /\ deadline[c] <= now + 1 + Timeout
      BY <2>1, <2>2 DEF InTime
    <3>1. now < deadline[c] /\ Timeout <= deadline[c] /\ deadline[c] <= now + Timeout
      BY <2>2 DEF CrowdInv, InTime
    <3>2. QED
      BY <1>1, <3>1
  <2>7. Crowded'
    <3> SUFFICES ASSUME NEW c \in Caller, step[c] = "sleep"
                 PROVE  /\ now + 1 <= turn[c]
                        /\ need[c] <= Capacity /\ deadline[c] + Period < turn[c] + Timeout
                             => ledger'[deadline[c] - Timeout] < ledger[now]
      BY <2>1, <2>3 DEF Crowded
    <3>1. now < turn[c]
      BY <2>2
    <3>2. deadline[c] - Timeout \in 0..now
      BY <1>1 DEF CrowdInv, InTime
    <3>3. QED
      BY <1>1, <2>3, <3>1, <3>2 DEF CrowdInv, Crowded
  <2>8. QED
    BY <2>4, <2>5, <2>6, <2>7 DEF CrowdInv
<1>3. ASSUME NEW c \in Caller, Start(c) PROVE CrowdInv'
  <2>1. PICK a \in Uses[c] : Move(c, FirstStep(a))
    BY <1>3 DEF Start
  <2>2. FirstStep(a) \notin {"take", "sleep"}
    BY DEF FirstStep
  <2>3. /\ UNCHANGED <<now, ledger, remaining, lastRefill, need, turn>>
        /\ deadline' = [deadline EXCEPT ![c] = now + Timeout]
    BY <1>3 DEF Start, limiterVars, countVars
  <2>4. /\ step'[c] \notin {"take", "sleep"} /\ deadline'[c] = now + Timeout
        /\ \A d \in Caller \ {c} : step'[d] = step[d] /\ deadline'[d] = deadline[d]
    BY <2>1, <2>2, <2>3 DEF Move, TypeInv, TypeOK
  <2>5. Grows' /\ TakenSince'
    BY <2>3 DEF CrowdInv, Grows, TakenSince
  <2>6. InTime'
    <3>1. /\ now <= deadline'[c] /\ Timeout <= deadline'[c] /\ deadline'[c] <= now + Timeout
          /\ step'[c] # "take"
      BY <1>1, <2>4
    <3>2. \A d \in Caller \ {c} :
            /\ step'[d] # "idle" => now <= deadline'[d] /\ Timeout <= deadline'[d]
                                     /\ deadline'[d] <= now + Timeout
            /\ step'[d] = "take" => now < lastRefill + Period
      BY <2>4 DEF CrowdInv, InTime
    <3>3. UNCHANGED <<now, lastRefill>>
      BY <2>3
    <3>4. ASSUME NEW d \in Caller
          PROVE  /\ step'[d] # "idle" => now' <= deadline'[d] /\ Timeout <= deadline'[d]
                                           /\ deadline'[d] <= now' + Timeout
                 /\ step'[d] = "take" => now' < lastRefill' + Period
      <4>1. CASE d = c
        BY <3>1, <3>3, <4>1
      <4>2. CASE d # c
        BY <3>2, <3>3, <4>2
      <4>3. QED
        BY <4>1, <4>2
    <3>5. QED
      BY <3>4 DEF InTime
  <2>7. Crowded'
    BY <2>3, <2>4 DEF CrowdInv, Crowded
  <2>8. QED
    BY <2>5, <2>6, <2>7 DEF CrowdInv
<1>4. ASSUME NEW c \in Caller, Refill(c) PROVE CrowdInv'
  <2>1. /\ UNCHANGED <<now, ledger, need, turn, deadline>> /\ step[c] = "refill"
        /\ \/ remaining' = remaining /\ lastRefill' = lastRefill /\ now - lastRefill < Period
           \/ remaining' = Capacity /\ lastRefill' = now
    BY <1>1, <1>4 DEF Refill, callVars, countVars
  <2>2. step'[c] = "take" /\ \A d \in Caller \ {c} : step'[d] = step[d]
    BY <1>4 DEF Refill, Move, TypeInv, TypeOK
  <2>3. Grows'
    BY <2>1 DEF CrowdInv, Grows
  <2>4. TakenSince'
    <3>1. CASE remaining' = remaining /\ lastRefill' = lastRefill
      BY <2>1, <3>1 DEF CrowdInv, TakenSince
    <3>2. CASE remaining' = Capacity /\ lastRefill' = now
      <4> SUFFICES ASSUME NEW u \in 0..now, u < now PROVE ledger[u] + Capacity <= ledger[now] + Capacity
        BY <2>1, <3>2 DEF TakenSince
      <4>1. ledger[u] <= ledger[now] /\ ledger[u] \in Nat /\ ledger[now] \in Nat
        BY <1>1 DEF CrowdInv, Grows
      <4>2. QED
        BY <1>1, <4>1
    <3>3. QED
      BY <2>1, <3>1, <3>2
  <2>5. InTime'
    <3>1. now < lastRefill' + Period
      BY <1>1, <2>1
    <3>2. QED
      BY <2>1, <2>2, <3>1 DEF CrowdInv, InTime
  <2>6. Crowded'
    BY <2>1, <2>2 DEF CrowdInv, Crowded
  <2>7. QED
    BY <2>3, <2>4, <2>5, <2>6 DEF CrowdInv
<1>5. ASSUME NEW c \in Caller, TakeTokens(c) PROVE CrowdInv'
  <2>1. /\ UNCHANGED <<now, lastRefill, need, turn, deadline>> /\ step[c] = "take"
        /\ remaining' = remaining - need[c] /\ ledger' = [ledger EXCEPT ![now] = @ + need[c]]
    BY <1>5 DEF TakeTokens, callVars
  <2>2. step'[c] = "book" /\ \A d \in Caller \ {c} : step'[d] = step[d]
    BY <1>5 DEF TakeTokens, Move, TypeInv, TypeOK
  <2>3. /\ \A u \in 0..now : u # now => ledger'[u] = ledger[u]
        /\ ledger'[now] = ledger[now] + need[c] /\ need[c] \in Nat
    BY <1>1, <2>1 DEF TypeInv, TypeOK, Clock
  <2>4. ledger'[now] + remaining' = ledger[now] + remaining /\ ledger[now] <= ledger'[now]
    BY <1>1, <2>1, <2>3
  <2>5. Grows'
    <3> SUFFICES ASSUME NEW s \in 0..now, NEW t \in 0..now, s <= t PROVE ledger'[s] <= ledger'[t]
      BY <2>1 DEF Grows
    <3>1. ledger[s] <= ledger[t] /\ ledger[s] \in Nat /\ ledger[t] \in Nat
      BY <1>1 DEF CrowdInv, Grows
    <3>2. CASE t = now /\ s # now
      BY <1>1, <2>3, <2>4, <3>1, <3>2
    <3>3. CASE t = now /\ s = now
      BY <1>1, <2>3, <3>3
    <3>4. CASE t # now
      <4>1. s # now
        BY <1>1, <3>4
      <4>2. QED
        BY <2>3, <3>1, <3>4, <4>1
    <3>5. QED
      BY <3>2, <3>3, <3>4
  <2>6. TakenSince'
    <3> SUFFICES ASSUME NEW u \in 0..now, u < lastRefill
                 PROVE  ledger'[u] + Capacity <= ledger'[now] + remaining'
      BY <2>1 DEF TakenSince
    <3>1. ledger'[u] = ledger[u]
      BY <1>1, <2>3
    <3>2. QED
      BY <2>4, <3>1 DEF CrowdInv, TakenSince
  <2>7. InTime'
    BY <2>1, <2>2 DEF CrowdInv, InTime
  <2>8. Crowded'
    <3> SUFFICES ASSUME NEW d \in Caller, step'[d] = "sleep"
                 PROVE  /\ now <= turn[d]
                        /\ need[d] <= Capacity /\ deadline[d] + Period < turn[d] + Timeout
                             => ledger'[deadline[d] - Timeout] < ledger'[now]
      BY <2>1 DEF Crowded
    <3>1. step[d] = "sleep"
      BY <2>2
    <3>2. deadline[d] - Timeout \in 0..now
      BY <1>1, <3>1 DEF CrowdInv, InTime
    <3>3. ASSUME need[d] <= Capacity, deadline[d] + Period < turn[d] + Timeout
          PROVE  ledger'[deadline[d] - Timeout] < ledger'[now]
      <4>1. ledger[deadline[d] - Timeout] < ledger[now]
        BY <3>1, <3>3 DEF CrowdInv, Crowded
      <4>2. deadline[d] - Timeout # now
        BY <1>1, <4>1
      <4>3. ledger'[deadline[d] - Timeout] = ledger[deadline[d] - Timeout]
        BY <2>3, <3>2, <4>2
      <4>4. /\ ledger[deadline[d] - Timeout] \in Nat /\ ledger[now] \in Nat /\ ledger'[now] \in Nat
        BY <1>1, <2>3, <3>2
      <4>5. QED
        BY <2>4, <4>1, <4>3, <4>4
    <3>4. QED
      BY <3>1, <3>3 DEF CrowdInv, Crowded
  <2>9. QED
    BY <2>5, <2>6, <2>7, <2>8 DEF CrowdInv
<1>6. ASSUME NEW c \in Caller, Sleep(c) PROVE CrowdInv'
  <2>1. /\ UNCHANGED <<now, lastRefill, remaining, ledger, need, deadline>> /\ step[c] = "take"
        /\ need[c] > remaining /\ turn' = [turn EXCEPT ![c] = now + 1]
    BY <1>6 DEF Sleep, limiterVars, countVars
  <2>2. /\ step'[c] = "sleep" /\ turn'[c] = now + 1
        /\ \A d \in Caller \ {c} : step'[d] = step[d] /\ turn'[d] = turn[d]
    BY <1>6, <2>1 DEF Sleep, Move, TypeInv, TypeOK
  <2>3. Grows' /\ TakenSince'
    BY <2>1 DEF CrowdInv, Grows, TakenSince
  <2>4. InTime'
    BY <2>1, <2>2 DEF CrowdInv, InTime
  <2>5. ASSUME need[c] <= Capacity, deadline[c] + Period < now + 1 + Timeout
        PROVE  ledger[deadline[c] - Timeout] < ledger[now]
    <3>1. now < lastRefill + Period /\ deadline[c] - Timeout \in 0..now
      BY <1>1, <2>1 DEF CrowdInv, InTime
    <3>2. deadline[c] - Timeout < lastRefill
      BY <1>1, <2>5, <3>1
    <3>3. ledger[deadline[c] - Timeout] + Capacity <= ledger[now] + remaining
      BY <3>1, <3>2 DEF CrowdInv, TakenSince
    <3>4. ledger[deadline[c] - Timeout] \in Nat /\ ledger[now] \in Nat /\ need[c] \in Nat
      BY <1>1, <3>1
    <3>5. QED
      BY <1>1, <2>1, <2>5, <3>3, <3>4
  <2>6. now <= now + 1
    BY <1>1
  <2>7. Crowded'
    BY <2>1, <2>2, <2>5, <2>6 DEF CrowdInv, Crowded
  <2>8. QED
    BY <2>3, <2>4, <2>7 DEF CrowdInv
<1>7. ASSUME NEW c \in Caller,
             \/ CountTokens(c) \/ CallFails(c) \/ Poll(c) \/ GiveUp(c)
             \/ Reserve(c) \/ Book(c) \/ Send(c) \/ WaitEnds(c) \/ Answer(c)
      PROVE  CrowdInv'
  <2>1. UNCHANGED <<now, ledger, remaining, lastRefill>> /\ step[c] # "idle"
    BY <1>7 DEF CountTokens, CallFails, Poll, GiveUp, Reserve, Book, Send, WaitEnds, Answer, limiterVars, countVars
  <2>2. ASSUME Leave(c) PROVE CrowdInv'
    <3>1. /\ step'[c] = "idle"
          /\ \A d \in Caller \ {c} : /\ step'[d] = step[d] /\ deadline'[d] = deadline[d]
                                     /\ turn'[d] = turn[d] /\ need'[d] = need[d]
      BY <2>2 DEF Leave, Move, TypeInv, TypeOK
    <3>2. QED
      BY <2>1, <3>1, CrowdMoves
  <2>3. ASSUME NEW s \in {"refill", "book", "wait", "send"}, Move(c, s), deadline' = deadline,
               \A d \in Caller \ {c} : turn'[d] = turn[d] /\ need'[d] = need[d]
        PROVE  CrowdInv'
    <3>1. step'[c] = s /\ \A d \in Caller \ {c} : step'[d] = step[d]
      BY <2>3 DEF Move, TypeInv, TypeOK
    <3>2. QED
      BY <2>1, <2>3, <3>1, CrowdMoves
  <2>4. CASE CallFails(c) \/ GiveUp(c) \/ WaitEnds(c)
    BY <2>2, <2>4 DEF CallFails, GiveUp, WaitEnds
  <2>5. CASE CountTokens(c)
    BY <2>3, <2>5 DEF CountTokens, TypeInv, TypeOK
  <2>6. CASE Poll(c) \/ Reserve(c)
    BY <2>3, <2>6 DEF Poll, Reserve, callVars
  <2>7. CASE Book(c)
    <3>1. CASE Leave(c)
      BY <2>2, <3>1
    <3>2. CASE ~Leave(c)
      <4>1. /\ Move(c, "wait") /\ UNCHANGED <<need, deadline>>
            /\ turn' = [turn EXCEPT ![c] = NextTurn(api[c])]
        BY <2>7, <3>2 DEF Book
      <4>2. QED
        BY <2>3, <4>1 DEF TypeInv, TypeOK
    <3>3. QED
      BY <3>1, <3>2
  <2>8. CASE Send(c)
    BY <2>3, <2>8 DEF Send
  <2>9. CASE Answer(c)
    BY <2>2, <2>3, <2>9 DEF Answer, callVars
  <2>10. QED
    BY <1>7, <2>4, <2>5, <2>6, <2>7, <2>8, <2>9
<1>8. CASE UNCHANGED vars
  BY <1>8 DEF vars, limiterVars, callVars, countVars, CrowdInv, Grows, TakenSince, InTime, Crowded
<1>9. QED
  BY <1>2, <1>3, <1>4, <1>5, <1>6, <1>7, <1>8 DEF Next, Advance

\* A prompt within the budget that is refused at its deadline, a period and
\* more after it began, was overtaken by others: no order of the sections and
\* no refill leaves it waiting for tokens nobody took.
THEOREM RefusedAreCrowdedOut == Spec => OnlyCrowdedOut
<1>1. ASSUME TypeInv, CrowdInv, NEW c \in Caller, GiveUp(c), need[c] <= Capacity, Timeout > Period
      PROVE  ledger[now] > ledger[now - Timeout]
  <2>1. step[c] = "sleep" /\ now >= deadline[c]
    BY <1>1 DEF GiveUp, Expired
  <2>2. /\ now \in Nat /\ deadline[c] \in Nat /\ turn[c] \in Nat /\ Period \in Nat /\ Timeout \in Nat
        /\ \A u \in 0..now : ledger[u] \in Nat
    BY <1>1, ClockTyped
  <2>3. now = deadline[c] /\ now <= turn[c] /\ Timeout <= now
    BY <1>1, <2>1, <2>2 DEF CrowdInv, InTime, Crowded
  <2>4. deadline[c] + Period < turn[c] + Timeout
    BY <1>1, <2>2, <2>3
  <2>5. ledger[deadline[c] - Timeout] < ledger[now]
    BY <1>1, <2>1, <2>4 DEF CrowdInv, Crowded
  <2>6. ledger[now - Timeout] \in Nat /\ ledger[now] \in Nat
    BY <2>2, <2>3
  <2>7. QED
    BY <2>3, <2>5, <2>6
<1>2. TypeInv /\ CrowdInv =>
        [\A c \in Caller :
           /\ GiveUp(c) /\ need[c] <= Capacity /\ Timeout > Period
           => ledger[now] > ledger[now - Timeout]]_vars
  BY <1>1
<1>3. Spec => []TypeInv /\ []CrowdInv
  BY TypeInit, TypeStep, CrowdInit, CrowdStep, PTL DEF Spec
<1>4. QED
  BY <1>2, <1>3, PTL DEF OnlyCrowdedOut

-----------------------------------------------------------------------------
(* The rate of requests.                                                   *)
(* Every request sent or waiting has moved the limiter's next slot by a    *)
(* gap, and by another one for TradingView, whose reserved slot is pledged *)
(* to the request that follows.  A waiting request counts from its turn    *)
(* on: that makes the bound one on the requests sent.                      *)

Waits == [a \in Api |-> {c \in Caller : step[c] = "wait" /\ api[c] = a}]

DueBy == [a \in Api |-> [t \in Nat |-> {c \in Caller : step[c] = "wait" /\ api[c] = a /\ turn[c] <= t}]]

Pledged == {c \in Caller : step[c] = "book" /\ api[c] = "tradingview"}

Pledges == [a \in Api |-> IF a = "tradingview" THEN Cardinality(Pledged) ELSE 0]

Load(a, n) == n * Slots(a) * Gap

SlotsCover ==
  \A a \in Api : Load(a, sent[a] + Cardinality(Waits[a])) + Pledges[a] * Gap <= slot[a]

TurnsSpaced ==
  \A a \in Api : \A t \in Nat : now <= t => Load(a, sent[a] + Cardinality(DueBy[a][t])) <= t + Gap

\* Gemini's calls alone take tokens; TradingView's make one request.
CallInv ==
  \A c \in Caller :
    /\ step[c] \in {"count", "refill", "take", "sleep"} => api[c] = "gemini"
    /\ step[c] # "idle" /\ api[c] = "tradingview" => left[c] <= IF step[c] = "send" THEN 0 ELSE 1

RateInv == SlotsCover /\ TurnsSpaced

LEMMA LoadGrows ==
  ASSUME NEW a \in Api, NEW n \in Nat
  PROVE  /\ Load(a, n) \in Nat /\ Load(a, n + 1) = Load(a, n) + Slots(a) * Gap
         /\ \A m \in Nat : m <= n => Load(a, m) <= Load(a, n)
<1> USE RateAssumption
<1>1. Slots(a) \in {1, 2}
  BY DEF Slots
<1>2. PICK g \in Nat : g = Slots(a) * Gap
  BY <1>1
<1>3. \A k \in Nat : Load(a, k) = k * g
  <2>1. CASE Slots(a) = 1
    BY <1>2, <2>1 DEF Load
  <2>2. CASE Slots(a) = 2
    BY <1>2, <2>2 DEF Load
  <2>3. QED
    BY <1>1, <2>1, <2>2
<1>4. ASSUME NEW m \in Nat, m <= n PROVE m * g <= n * g
  <2>1. PICK d \in Nat : n = m + d
    <3>1. n - m \in Nat /\ n = m + (n - m)
      BY <1>4
    <3>2. QED
      BY <3>1
  <2>2. n * g = m * g + d * g /\ m * g \in Nat /\ d * g \in Nat
    BY <2>1
  <2>3. QED
    BY <2>2
<1>5. (n + 1) * g = n * g + g /\ n * g \in Nat
  OBVIOUS
<1>6. QED
  BY <1>2, <1>3, <1>4, <1>5

LEMMA CallerSets ==
  ASSUME NEW S \in SUBSET Caller
  PROVE  IsFiniteSet(S) /\ Cardinality(S) \in Nat
BY RateAssumption, FS_Subset, FS_CardinalityType

LEMMA PledgedTyped == /\ Pledged \subseteq Caller /\ Cardinality(Pledged) \in Nat
                      /\ \A a \in Api : Pledges[a] \in Nat
<1>1. Pledged \subseteq Caller
  BY DEF Pledged
<1>2. Cardinality(Pledged) \in Nat
  BY <1>1, CallerSets
<1>3. QED
  BY <1>1, <1>2 DEF Pledges

LEMMA WaitsTyped ==
  ASSUME NEW a \in Api
  PROVE  /\ Waits[a] \subseteq Caller /\ Cardinality(Waits[a]) \in Nat
         /\ \A t \in Nat : /\ DueBy[a][t] \subseteq Waits[a] /\ Cardinality(DueBy[a][t]) \in Nat
                           /\ Cardinality(DueBy[a][t]) <= Cardinality(Waits[a])
<1>1. Waits[a] \subseteq Caller /\ IsFiniteSet(Waits[a]) /\ Cardinality(Waits[a]) \in Nat
  <2>1. Waits[a] \subseteq Caller
    BY DEF Waits
  <2>2. QED
    BY <2>1, CallerSets
<1>2. \A t \in Nat : DueBy[a][t] \subseteq Waits[a]
  BY DEF DueBy, Waits
<1>3. QED
  BY <1>1, <1>2, CallerSets, FS_Subset

\* Steps that take no slot and send nothing.
LEMMA RateKept ==
  ASSUME TypeInv, TypeInv', RateInv, now <= now', sent' = sent, \A a \in Api : slot[a] <= slot'[a],
         \A a \in Api : Waits'[a] \subseteq Waits[a],
         \A a \in Api : \A t \in Nat : DueBy'[a][t] \subseteq DueBy[a][t],
         Pledged' \subseteq Pledged
  PROVE  RateInv'
<1>1. /\ now \in Nat /\ now' \in Nat
      /\ \A a \in Api : sent[a] \in Nat /\ slot[a] \in Nat /\ slot'[a] \in Nat
  BY RateAssumption DEF TypeInv, TypeOK, Clock
<1>2. SlotsCover'
  <2> SUFFICES ASSUME NEW a \in Api
               PROVE  Load(a, sent[a] + Cardinality(Waits'[a])) + Pledges'[a] * Gap <= slot'[a]
    BY DEF SlotsCover, Load, Slots
  <2>1. Load(a, sent[a] + Cardinality(Waits[a])) + Pledges[a] * Gap <= slot[a]
    BY DEF RateInv, SlotsCover
  <2>2. /\ Cardinality(Waits'[a]) \in Nat /\ Cardinality(Waits[a]) \in Nat
        /\ Cardinality(Waits'[a]) <= Cardinality(Waits[a])
    BY WaitsTyped, CallerSets, FS_Subset
  <2>3. /\ Load(a, sent[a] + Cardinality(Waits'[a])) <= Load(a, sent[a] + Cardinality(Waits[a]))
        /\ Load(a, sent[a] + Cardinality(Waits'[a])) \in Nat
        /\ Load(a, sent[a] + Cardinality(Waits[a])) \in Nat
    <3>1. /\ sent[a] + Cardinality(Waits'[a]) \in Nat /\ sent[a] + Cardinality(Waits[a]) \in Nat
          /\ sent[a] + Cardinality(Waits'[a]) <= sent[a] + Cardinality(Waits[a])
      BY <1>1, <2>2
    <3>2. QED
      BY <3>1, LoadGrows
  <2>4. Pledges[a] \in Nat /\ Pledges'[a] \in Nat /\ Pledges'[a] <= Pledges[a]
    <3>1. /\ Cardinality(Pledged') \in Nat /\ Cardinality(Pledged) \in Nat
          /\ Cardinality(Pledged') <= Cardinality(Pledged)
      BY PledgedTyped, CallerSets, FS_Subset
    <3>2. QED
      BY <3>1 DEF Pledges
  <2>5. Pledges'[a] * Gap <= Pledges[a] * Gap /\ Pledges'[a] * Gap \in Nat /\ Pledges[a] * Gap \in Nat
    <3>1. \A m, n \in Nat : m <= n => m * Gap <= n * Gap
      BY LoadGrows, RateAssumption DEF Load, Slots, Api
    <3>2. QED
      BY <2>4, <3>1, RateAssumption
  <2>6. QED
    BY <1>1, <2>1, <2>3, <2>5
<1>3. TurnsSpaced'
  <2> SUFFICES ASSUME NEW a \in Api, NEW t \in Nat, now' <= t
               PROVE  Load(a, sent[a] + Cardinality(DueBy'[a][t])) <= t + Gap
    BY DEF TurnsSpaced, Load, Slots
  <2>1. Load(a, sent[a] + Cardinality(DueBy[a][t])) <= t + Gap
    BY <1>1 DEF RateInv, TurnsSpaced
  <2>2. /\ Cardinality(DueBy'[a][t]) \in Nat /\ Cardinality(DueBy[a][t]) \in Nat
        /\ Cardinality(DueBy'[a][t]) <= Cardinality(DueBy[a][t])
    <3>1. DueBy[a][t] \subseteq Caller /\ DueBy'[a][t] \subseteq Caller
      BY WaitsTyped
    <3>2. QED
      BY <3>1, CallerSets, FS_Subset
  <2>3. /\ sent[a] + Cardinality(DueBy'[a][t]) \in Nat /\ sent[a] + Cardinality(DueBy[a][t]) \in Nat
        /\ sent[a] + Cardinality(DueBy'[a][t]) <= sent[a] + Cardinality(DueBy[a][t])
    BY <1>1, <2>2
  <2>4. /\ Load(a, sent[a] + Cardinality(DueBy'[a][t])) <= Load(a, sent[a] + Cardinality(DueBy[a][t]))
        /\ Load(a, sent[a] + Cardinality(DueBy'[a][t])) \in Nat
        /\ Load(a, sent[a] + Cardinality(DueBy[a][t])) \in Nat
    BY <2>3, LoadGrows
  <2>5. QED
    BY <2>1, <2>4, RateAssumption
<1>4. QED
  BY <1>2, <1>3 DEF RateInv

LEMMA CallStep == TypeInv /\ CallInv /\ [Next]_vars => CallInv'
<1> SUFFICES ASSUME TypeInv, CallInv, [Next]_vars PROVE CallInv'
  OBVIOUS
<1>1. CASE Tick \/ UNCHANGED vars
  BY <1>1 DEF Tick, vars, callVars, CallInv
<1>2. ASSUME NEW c \in Caller, Leave(c) PROVE CallInv'
  BY <1>2 DEF Leave, Move, CallInv, TypeInv, TypeOK
<1>3. ASSUME NEW c \in Caller, NEW s \in Step, Move(c, s), step[c] \notin {"idle", "send"}, s \notin {"idle", "send"},
             s \in {"count", "refill", "take", "sleep"} => step[c] \in {"count", "refill", "take", "sleep"},
             UNCHANGED <<api, left>>
      PROVE  CallInv'
  BY <1>3 DEF Move, CallInv, TypeInv, TypeOK
<1>4. ASSUME NEW c \in Caller, Start(c) PROVE CallInv'
  <2>1. PICK a \in Uses[c] : \E n \in Requests(a) :
          /\ api' = [api EXCEPT ![c] = a] /\ left' = [left EXCEPT ![c] = n]
          /\ Move(c, FirstStep(a))
    BY <1>4 DEF Start
  <2>2. PICK n \in Requests(a) :
          /\ api' = [api EXCEPT ![c] = a] /\ left' = [left EXCEPT ![c] = n]
          /\ Move(c, FirstStep(a))
    BY <2>1
  <2>3. /\ a = "tradingview" => n = 1
        /\ FirstStep(a) # "send" /\ FirstStep(a) \in {"count", "refill", "take", "sleep"} => a = "gemini"
        /\ FirstStep(a) # "send"
    BY DEF Requests, FirstStep
  <2>4. /\ step'[c] = FirstStep(a) /\ api'[c] = a /\ left'[c] = n
        /\ \A d \in Caller \ {c} : step'[d] = step[d] /\ api'[d] = api[d] /\ left'[d] = left[d]
    BY <2>2 DEF Move, TypeInv, TypeOK
  <2>5. QED
    BY <2>3, <2>4 DEF CallInv
<1>5. ASSUME NEW c \in Caller, Send(c) PROVE CallInv'
  <2>1. /\ step[c] = "wait" /\ step'[c] = "send" /\ api' = api /\ left'[c] = left[c] - 1 /\ left[c] \in 0..3
        /\ \A d \in Caller \ {c} : step'[d] = step[d] /\ left'[d] = left[d]
    BY <1>5 DEF Send, Move, TypeInv, TypeOK
  <2>2. api[c] = "tradingview" => left[c] - 1 <= 0
    BY <2>1 DEF CallInv
  <2>3. QED
    BY <2>1, <2>2 DEF CallInv
<1>6. ASSUME NEW c \in Caller, Answer(c) PROVE CallInv'
  <2>1. CASE left[c] > 0
    <3>1. step[c] = "send" /\ Move(c, "book") /\ UNCHANGED <<api, left>>
      BY <1>6, <2>1 DEF Answer, callVars
    <3>2. api[c] # "tradingview"
      BY <2>1, <3>1 DEF CallInv, TypeInv, TypeOK
    <3>3. QED
      BY <3>1, <3>2 DEF Move, CallInv, TypeInv, TypeOK
  <2>2. CASE ~(left[c] > 0)
    BY <1>2, <1>6, <2>2 DEF Answer
  <2>3. QED
    BY <2>1, <2>2
<1>7. ASSUME NEW c \in Caller,
             CallFails(c) \/ GiveUp(c) \/ WaitEnds(c) \/ (Book(c) /\ Leave(c))
      PROVE  CallInv'
  BY <1>2, <1>7 DEF CallFails, GiveUp, WaitEnds
<1>8. ASSUME NEW c \in Caller,
             CountTokens(c) \/ Refill(c) \/ TakeTokens(c) \/ Sleep(c) \/ Poll(c) \/ Reserve(c) \/ (Book(c) /\ ~Leave(c))
      PROVE  CallInv'
  <2>1. UNCHANGED <<api, left>> /\ step[c] \notin {"idle", "send"}
    BY <1>8 DEF CountTokens, Refill, TakeTokens, Sleep, Poll, Reserve, Book, callVars
  <2>2. CASE CountTokens(c) \/ Refill(c) \/ Sleep(c) \/ Poll(c)
    BY <1>3, <2>1, <2>2, Steps DEF CountTokens, Refill, Sleep, Poll
  <2>3. CASE TakeTokens(c) \/ Reserve(c) \/ (Book(c) /\ ~Leave(c))
    BY <1>3, <2>1, <2>3, Steps DEF TakeTokens, Reserve, Book
  <2>4. QED
    BY <1>8, <2>2, <2>3
<1>9. QED
  BY <1>1, <1>4, <1>5, <1>6, <1>7, <1>8 DEF Next, Advance

LEMMA RateInit == Init => RateInv
<1> SUFFICES ASSUME Init PROVE RateInv
  OBVIOUS
<1>1. \A a \in Api : Waits[a] = {} /\ \A t \in Nat : DueBy[a][t] = {}
  BY DEF Init, Waits, DueBy
<1>2. Pledged = {}
  BY DEF Init, Pledged
<1>3. \A a \in Api : Load(a, 0) = 0 /\ sent[a] = 0 /\ slot[a] = 0
  BY RateAssumption DEF Init, Load, Slots
<1>4. Cardinality({}) = 0
  BY FS_EmptySet
<1>5. \A a \in Api : Pledges[a] = 0
  BY <1>2, <1>4 DEF Pledges
<1>6. SlotsCover
  <2> SUFFICES ASSUME NEW a \in Api PROVE Load(a, sent[a] + Cardinality(Waits[a])) + Pledges[a] * Gap <= slot[a]
    BY DEF SlotsCover
  <2>1. sent[a] + Cardinality(Waits[a]) = 0 /\ Pledges[a] * Gap = 0
    BY <1>1, <1>3, <1>4, <1>5, RateAssumption
  <2>2. QED
    BY <1>3, <2>1
<1>7. TurnsSpaced
  <2> SUFFICES ASSUME NEW a \in Api, NEW t \in Nat PROVE Load(a, sent[a] + Cardinality(DueBy[a][t])) <= t + Gap
    BY DEF TurnsSpaced
  <2>1. DueBy[a][t] = {} /\ sent[a] + 0 = 0
    BY <1>1, <1>3
  <2>2. QED
    BY <1>3, <1>4, <2>1, RateAssumption
<1>8. QED
  BY <1>6, <1>7 DEF RateInv

\* A turn is taken: the slot moves by a gap, and a pledge is redeemed.
LEMMA RateBooked ==
  ASSUME TypeInv, TypeInv', RateInv, NEW c \in Caller, Book(c), ~(Leave(c) /\ UNCHANGED slot)
  PROVE  RateInv'
<1> DEFINE b == api[c]
           u == NextTurn(api[c])
<1>1. /\ step[c] = "book" /\ UNCHANGED <<now, sent, api>>
      /\ slot' = [slot EXCEPT ![b] = u + Gap] /\ turn' = [turn EXCEPT ![c] = u] /\ Move(c, "wait")
  BY DEF Book, countVars
<1>2. /\ step'[c] = "wait" /\ turn'[c] = u
      /\ \A d \in Caller \ {c} : step'[d] = step[d] /\ turn'[d] = turn[d]
  BY <1>1 DEF Move, TypeInv, TypeOK
<1>3. /\ now \in Nat /\ Gap \in Nat /\ Gap >= 1 /\ b \in Api /\ Slots(b) \in {1, 2}
      /\ \A a \in Api : sent[a] \in Nat /\ slot[a] \in Nat
  BY RateAssumption DEF TypeInv, TypeOK, Clock, Slots
<1>4. u \in Nat /\ slot[b] <= u /\ slot'[b] = u + Gap /\ \A a \in Api \ {b} : slot'[a] = slot[a]
  BY <1>1, <1>3 DEF NextTurn, TypeInv, TypeOK
<1>5. /\ Waits'[b] = Waits[b] \cup {c} /\ c \notin Waits[b]
      /\ \A a \in Api \ {b} : Waits'[a] = Waits[a]
  BY <1>1, <1>2, <1>3 DEF Waits
<1>6. ASSUME NEW t \in Nat
      PROVE  /\ u <= t => DueBy'[b][t] = DueBy[b][t] \cup {c} /\ c \notin DueBy[b][t]
             /\ ~(u <= t) => DueBy'[b][t] = DueBy[b][t]
             /\ \A a \in Api \ {b} : DueBy'[a][t] = DueBy[a][t]
  <2>1. /\ \A a \in Api : DueBy[a][t] = {d \in Caller : step[d] = "wait" /\ api[d] = a /\ turn[d] <= t}
        /\ \A a \in Api : DueBy'[a][t] = {d \in Caller : step'[d] = "wait" /\ api[d] = a /\ turn'[d] <= t}
    BY <1>1 DEF DueBy
  <2>2. c \notin DueBy[b][t]
    BY <1>1, <1>3, <2>1
  <2>3. ASSUME NEW a \in Api \ {b} PROVE DueBy'[a][t] = DueBy[a][t]
    <3>1. \A d \in Caller : d \in DueBy'[a][t] <=> d \in DueBy[a][t]
      <4>1. \A d \in Caller \ {c} : d \in DueBy'[a][t] <=> d \in DueBy[a][t]
        BY <1>2, <2>1
      <4>2. c \notin DueBy'[a][t] /\ c \notin DueBy[a][t]
        BY <2>1
      <4>3. QED
        BY <4>1, <4>2
    <3>2. QED
      BY <2>1, <3>1
  <2>4. ASSUME u <= t PROVE DueBy'[b][t] = DueBy[b][t] \cup {c}
    <3>1. turn'[c] <= t
      BY <1>2, <2>4
    <3>2. \A d \in Caller : d \in DueBy'[b][t] <=> d \in DueBy[b][t] \cup {c}
      BY <1>1, <1>2, <1>3, <2>1, <3>1
    <3>3. QED
      BY <1>3, <2>1, <3>2
  <2>5. ASSUME ~(u <= t) PROVE DueBy'[b][t] = DueBy[b][t]
    <3>1. ~(turn'[c] <= t)
      BY <1>2, <2>5
    <3>2. \A d \in Caller : d \in DueBy'[b][t] <=> d \in DueBy[b][t]
      BY <1>1, <1>2, <1>3, <2>1, <3>1
    <3>3. QED
      BY <1>3, <2>1, <3>2
  <2>6. QED
    BY <2>2, <2>3, <2>4, <2>5
<1>7. Cardinality(Waits'[b]) = Cardinality(Waits[b]) + 1 /\ Cardinality(Waits[b]) \in Nat
  BY <1>3, <1>5, WaitsTyped, CallerSets, FS_AddElement
<1>8. /\ \A a \in Api \ {b} : Pledges'[a] = Pledges[a]
      /\ Pledges'[b] + Slots(b) = Pledges[b] + 1 /\ Pledges[b] \in Nat /\ Pledges'[b] \in Nat
  <2>1. CASE b = "tradingview"
    <3>1. Pledged' = Pledged \ {c} /\ c \in Pledged
      BY <1>1, <1>2, <2>1 DEF Pledged
    <3>2. Cardinality(Pledged') = Cardinality(Pledged) - 1
      BY <3>1, PledgedTyped, CallerSets, FS_RemoveElement
    <3>3. Cardinality(Pledged') \in Nat
      BY CallerSets DEF Pledged
    <3>4. Pledges[b] = Cardinality(Pledged) /\ Pledges'[b] = Cardinality(Pledged')
      BY <1>3, <2>1 DEF Pledges
    <3>5. Slots(b) = 2 /\ \A a \in Api \ {b} : Pledges'[a] = Pledges[a]
      BY <2>1 DEF Pledges, Slots
    <3>6. QED
      BY <3>2, <3>3, <3>4, <3>5, PledgedTyped
  <2>2. CASE b # "tradingview"
    <3>1. Pledged' = Pledged
      BY <1>1, <1>2, <2>2 DEF Pledged
    <3>2. Pledges' = Pledges
      BY <3>1 DEF Pledges
    <3>3. QED
      BY <1>3, <2>2, <3>2, PledgedTyped DEF Slots
  <2>3. QED
    BY <2>1, <2>2
<1>9. PICK n \in Nat : n = sent[b] + Cardinality(Waits[b])
  BY <1>3, <1>7
<1>10. Load(b, n) + Pledges[b] * Gap <= slot[b]
  BY <1>3, <1>9 DEF RateInv, SlotsCover
<1>11. Load(b, n + 1) = Load(b, n) + Slots(b) * Gap /\ Load(b, n) \in Nat /\ n + 1 \in Nat
  BY <1>3, LoadGrows
<1>12. /\ Pledges'[b] * Gap + Slots(b) * Gap = Pledges[b] * Gap + Gap
       /\ Pledges'[b] * Gap \in Nat /\ Pledges[b] * Gap \in Nat /\ Slots(b) * Gap \in Nat
  <2>1. \A p, q \in Nat : \A k \in {1, 2} : q + k = p + 1 => q * Gap + k * Gap = p * Gap + Gap
    <3> SUFFICES ASSUME NEW p \in Nat, NEW q \in Nat, NEW k \in {1, 2}, q + k = p + 1
                 PROVE  q * Gap + k * Gap = p * Gap + Gap
      OBVIOUS
    <3>1. (q + k) * Gap = q * Gap + k * Gap /\ (p + 1) * Gap = p * Gap + Gap
      BY <1>3
    <3>2. QED
      BY <3>1
  <2>2. QED
    BY <1>3, <1>8, <2>1
<1>13. SlotsCover'
  <2> SUFFICES ASSUME NEW a \in Api
               PROVE  Load(a, sent[a] + Cardinality(Waits'[a])) + Pledges'[a] * Gap <= slot'[a]
    BY <1>1 DEF SlotsCover, Load, Slots
  <2>1. CASE a = b
    <3>1. sent[a] + Cardinality(Waits'[a]) = n + 1
      BY <1>3, <1>7, <1>9, <2>1
    <3>2. QED
      BY <1>3, <1>4, <1>10, <1>11, <1>12, <2>1, <3>1
  <2>2. CASE a # b
    BY <1>4, <1>5, <1>8, <2>2 DEF RateInv, SlotsCover
  <2>3. QED
    BY <2>1, <2>2
<1>14. TurnsSpaced'
  <2> SUFFICES ASSUME NEW a \in Api, NEW t \in Nat, now <= t
               PROVE  Load(a, sent[a] + Cardinality(DueBy'[a][t])) <= t + Gap
    BY <1>1 DEF TurnsSpaced, Load, Slots
  <2>1. CASE a = b /\ u <= t
    <3>1. PICK m \in Nat : m = sent[b] + Cardinality(DueBy[b][t])
      <4>1. sent[b] \in Nat /\ Cardinality(DueBy[b][t]) \in Nat
        BY <1>3, WaitsTyped
      <4>2. QED
        BY <4>1
    <3>2. m <= n
      BY <1>3, <1>7, <1>9, <3>1, WaitsTyped
    <3>3. sent[a] + Cardinality(DueBy'[a][t]) = m + 1
      <4>1. Cardinality(DueBy'[b][t]) = Cardinality(DueBy[b][t]) + 1
        <5>1. IsFiniteSet(DueBy[b][t])
          BY <1>3, WaitsTyped, CallerSets
        <5>2. QED
          BY <1>6, <2>1, <5>1, FS_AddElement
      <4>2. Cardinality(DueBy[b][t]) \in Nat
        BY <1>3, WaitsTyped
      <4>3. QED
        BY <1>3, <2>1, <3>1, <4>1, <4>2
    <3>4. Load(b, m + 1) <= Load(b, n + 1) /\ Load(b, m + 1) \in Nat
      <4>1. m + 1 \in Nat /\ n + 1 \in Nat /\ m + 1 <= n + 1
        BY <3>2
      <4>2. QED
        BY <1>3, <4>1, LoadGrows
    <3>5. Load(b, n) + Pledges[b] * Gap <= t
      BY <1>3, <1>4, <1>10, <1>11, <1>12, <2>1
    <3>6. Load(b, n + 1) <= t + Gap
      BY <1>3, <1>11, <1>12, <3>5
    <3>7. QED
      BY <1>3, <1>11, <1>12, <2>1, <3>3, <3>4, <3>6
  <2>2. CASE ~(a = b /\ u <= t)
    <3>1. DueBy'[a][t] = DueBy[a][t]
      BY <1>6, <2>2
    <3>2. QED
      BY <3>1 DEF RateInv, TurnsSpaced
  <2>3. QED
    BY <2>1, <2>2
<1>15. QED
  BY <1>13, <1>14 DEF RateInv

\* A request is sent in its turn: it counted from then on.
LEMMA RateSent ==
  ASSUME TypeInv, TypeInv', RateInv, NEW c \in Caller, Send(c)
  PROVE  RateInv'
<1> DEFINE b == api[c]
<1>1. /\ step[c] = "wait" /\ turn[c] <= now /\ UNCHANGED <<now, slot, api, turn>>
      /\ sent' = [sent EXCEPT ![b] = @ + 1] /\ Move(c, "send")
  BY RateAssumption DEF Send, limiterVars, TypeInv, TypeOK, Clock
<1>2. step'[c] = "send" /\ \A d \in Caller \ {c} : step'[d] = step[d]
  BY <1>1 DEF Move, TypeInv, TypeOK
<1>3. /\ now \in Nat /\ b \in Api /\ turn[c] \in Nat /\ \A a \in Api : sent[a] \in Nat
      /\ sent'[b] = sent[b] + 1 /\ \A a \in Api \ {b} : sent'[a] = sent[a]
  BY <1>1, RateAssumption DEF TypeInv, TypeOK, Clock
<1>4. /\ Waits'[b] = Waits[b] \ {c} /\ c \in Waits[b]
      /\ \A a \in Api \ {b} : Waits'[a] = Waits[a]
  BY <1>1, <1>2, <1>3 DEF Waits
<1>5. ASSUME NEW t \in Nat, now <= t
      PROVE  /\ DueBy'[b][t] = DueBy[b][t] \ {c} /\ c \in DueBy[b][t]
             /\ \A a \in Api \ {b} : DueBy'[a][t] = DueBy[a][t]
  <2>1. turn[c] <= t
    BY <1>1, <1>3, <1>5
  <2>2. QED
    BY <1>1, <1>2, <1>3, <2>1 DEF DueBy
<1>6. sent'[b] + Cardinality(Waits'[b]) = sent[b] + Cardinality(Waits[b])
  <2>1. IsFiniteSet(Waits[b]) /\ Cardinality(Waits[b]) \in Nat
    BY <1>3, WaitsTyped, CallerSets
  <2>2. Cardinality(Waits'[b]) = Cardinality(Waits[b]) - 1
    BY <1>4, <2>1, FS_RemoveElement
  <2>3. QED
    BY <1>3, <2>1, <2>2
<1>7. ASSUME NEW t \in Nat, now <= t
      PROVE  sent'[b] + Cardinality(DueBy'[b][t]) = sent[b] + Cardinality(DueBy[b][t])
  <2>1. IsFiniteSet(DueBy[b][t]) /\ Cardinality(DueBy[b][t]) \in Nat
    BY <1>3, WaitsTyped, CallerSets
  <2>2. Cardinality(DueBy'[b][t]) = Cardinality(DueBy[b][t]) - 1
    BY <1>5, <1>7, <2>1, FS_RemoveElement
  <2>3. QED
    BY <1>3, <2>1, <2>2
<1>8. Pledges' = Pledges
  <2>1. Pledged' = Pledged
    BY <1>1, <1>2 DEF Pledged
  <2>2. QED
    BY <2>1 DEF Pledges
<1>9. SlotsCover'
  <2> SUFFICES ASSUME NEW a \in Api
               PROVE  Load(a, sent'[a] + Cardinality(Waits'[a])) + Pledges[a] * Gap <= slot[a]
    BY <1>1, <1>8 DEF SlotsCover, Load, Slots
  <2>1. sent'[a] + Cardinality(Waits'[a]) = sent[a] + Cardinality(Waits[a])
    BY <1>3, <1>4, <1>6
  <2>2. QED
    BY <2>1 DEF RateInv, SlotsCover
<1>10. TurnsSpaced'
  <2> SUFFICES ASSUME NEW a \in Api, NEW t \in Nat, now <= t
               PROVE  Load(a, sent'[a] + Cardinality(DueBy'[a][t])) <= t + Gap
    BY <1>1 DEF TurnsSpaced, Load, Slots
  <2>1. sent'[a] + Cardinality(DueBy'[a][t]) = sent[a] + Cardinality(DueBy[a][t])
    BY <1>3, <1>5, <1>7
  <2>2. QED
    BY <2>1 DEF RateInv, TurnsSpaced
<1>11. QED
  BY <1>9, <1>10 DEF RateInv

LEMMA RateStep == TypeInv /\ TypeInv' /\ CallInv /\ RateInv /\ [Next]_vars => RateInv'
<1> SUFFICES ASSUME TypeInv, TypeInv', CallInv, RateInv, [Next]_vars PROVE RateInv'
  OBVIOUS
<1>1. /\ now \in Nat /\ Gap \in Nat /\ Gap >= 1 /\ \A a \in Api : sent[a] \in Nat /\ slot[a] \in Nat
      /\ \A c \in Caller : api[c] \in Api /\ turn[c] \in Nat
      /\ \A a \in Api : Slots(a) \in {1, 2}
  BY RateAssumption DEF TypeInv, TypeOK, Clock, Slots
<1>2. CASE Tick \/ UNCHANGED vars
  <2>1. UNCHANGED <<sent, slot, step, api, turn>> /\ now <= now'
    BY <1>1, <1>2 DEF Tick, vars, limiterVars, callVars, countVars
  <2>2. Waits' = Waits /\ DueBy' = DueBy /\ Pledged' = Pledged
    BY <2>1 DEF Waits, DueBy, Pledged
  <2>3. QED
    BY <1>1, <2>1, <2>2, RateKept
\* The caller takes no turn.
<1>3. ASSUME NEW c \in Caller, UNCHANGED <<now, sent>>, \A a \in Api : slot[a] <= slot'[a],
             step'[c] # "wait", step'[c] = "book" => api'[c] # "tradingview",
             \A d \in Caller \ {c} : step'[d] = step[d] /\ api'[d] = api[d] /\ turn'[d] = turn[d]
      PROVE  RateInv'
  <2>1. \A a \in Api : Waits'[a] \subseteq Waits[a]
    BY <1>3 DEF Waits
  <2>2. \A a \in Api : \A t \in Nat : DueBy'[a][t] \subseteq DueBy[a][t]
    BY <1>3 DEF DueBy
  <2>3. Pledged' \subseteq Pledged
    BY <1>3 DEF Pledged
  <2>4. QED
    BY <1>1, <1>3, <2>1, <2>2, <2>3, RateKept
<1>4. ASSUME NEW c \in Caller, Start(c) PROVE RateInv'
  <2>1. PICK a \in Uses[c] : api' = [api EXCEPT ![c] = a] /\ Move(c, FirstStep(a))
    BY <1>4 DEF Start
  <2>2. FirstStep(a) # "wait" /\ (FirstStep(a) = "book" => a # "tradingview")
    BY DEF FirstStep
  <2>3. /\ step'[c] # "wait" /\ (step'[c] = "book" => api'[c] # "tradingview")
        /\ \A d \in Caller \ {c} : step'[d] = step[d] /\ api'[d] = api[d]
    BY <2>1, <2>2 DEF Move, TypeInv, TypeOK
  <2>4. UNCHANGED <<now, sent, slot, turn>>
    BY <1>4 DEF Start, limiterVars, countVars
  <2>5. QED
    BY <1>1, <1>3, <2>3, <2>4
<1>5. ASSUME NEW c \in Caller, Leave(c), UNCHANGED <<now, sent, slot>> PROVE RateInv'
  <2>1. /\ step'[c] = "idle" /\ api' = api
        /\ \A d \in Caller \ {c} : step'[d] = step[d] /\ turn'[d] = turn[d]
    BY <1>5 DEF Leave, Move, TypeInv, TypeOK
  <2>2. QED
    BY <1>1, <1>3, <1>5, <2>1
<1>6. ASSUME NEW c \in Caller, NEW s \in {"refill", "take", "book", "sleep"}, Move(c, s),
             s = "book" => api[c] # "tradingview",
             UNCHANGED <<now, sent, slot, api>>, \A d \in Caller \ {c} : turn'[d] = turn[d]
      PROVE  RateInv'
  <2>1. step'[c] = s /\ \A d \in Caller \ {c} : step'[d] = step[d]
    BY <1>6 DEF Move, TypeInv, TypeOK
  <2>2. QED
    BY <1>1, <1>3, <1>6, <2>1
<1>7. ASSUME NEW c \in Caller, CallFails(c) \/ GiveUp(c) \/ WaitEnds(c) PROVE RateInv'
  BY <1>5, <1>7 DEF CallFails, GiveUp, WaitEnds, limiterVars, countVars
<1>8. ASSUME NEW c \in Caller, CountTokens(c) \/ Refill(c) \/ TakeTokens(c) \/ Sleep(c) \/ Poll(c) PROVE RateInv'
  <2>1. UNCHANGED <<now, sent, slot, api>>
    BY <1>8 DEF CountTokens, Refill, TakeTokens, Sleep, Poll, limiterVars, callVars, countVars
  <2>2. \A d \in Caller \ {c} : turn'[d] = turn[d]
    BY <1>8 DEF CountTokens, Refill, TakeTokens, Sleep, Poll, callVars, TypeInv, TypeOK
  <2>3. CASE TakeTokens(c)
    <3>1. Move(c, "book") /\ api[c] # "tradingview"
      BY <2>3 DEF TakeTokens, CallInv
    <3>2. QED
      BY <1>6, <2>1, <2>2, <3>1
  <2>4. CASE CountTokens(c) \/ Refill(c) \/ Sleep(c) \/ Poll(c)
    BY <1>6, <2>1, <2>2, <2>4 DEF CountTokens, Refill, Sleep, Poll
  <2>5. QED
    BY <1>8, <2>3, <2>4
<1>9. ASSUME NEW c \in Caller, Answer(c) PROVE RateInv'
  <2>1. CASE left[c] > 0
    <3>1. step[c] = "send" /\ Move(c, "book") /\ UNCHANGED <<now, sent, slot, api, turn>>
      BY <1>9, <2>1 DEF Answer, limiterVars, callVars, countVars
    <3>2. api[c] # "tradingview"
      BY <2>1, <3>1 DEF CallInv, TypeInv, TypeOK
    <3>3. QED
      BY <1>6, <3>1, <3>2
  <2>2. CASE ~(left[c] > 0)
    BY <1>5, <1>9, <2>2 DEF Answer, limiterVars, countVars
  <2>3. QED
    BY <2>1, <2>2
<1>10. ASSUME NEW c \in Caller, Reserve(c) PROVE RateInv'
  <2>1. /\ step[c] = "reserve" /\ step'[c] = "book" /\ UNCHANGED <<now, sent, api, turn>>
        /\ slot' = [slot EXCEPT ![api[c]] = NextTurn(api[c]) + Gap]
        /\ \A d \in Caller \ {c} : step'[d] = step[d]
    BY <1>10 DEF Reserve, Move, callVars, countVars, TypeInv, TypeOK
  <2>2. Waits' = Waits /\ DueBy' = DueBy
    <3>1. \A d \in Caller : step'[d] = "wait" <=> step[d] = "wait"
      BY <2>1
    <3>2. QED
      BY <2>1, <3>1 DEF Waits, DueBy
  <2>3. TurnsSpaced'
    BY <2>1, <2>2 DEF RateInv, TurnsSpaced, Load, Slots
  <2>4. /\ slot'[api[c]] = NextTurn(api[c]) + Gap /\ slot[api[c]] <= NextTurn(api[c]) /\ NextTurn(api[c]) \in Nat
        /\ \A a \in Api \ {api[c]} : slot'[a] = slot[a]
    BY <1>1, <2>1 DEF NextTurn, TypeInv, TypeOK
  <2>5. Pledges'[api[c]] <= Pledges[api[c]] + 1 /\ \A a \in Api \ {api[c]} : Pledges'[a] = Pledges[a]
    <3>1. CASE api[c] = "tradingview"
      <4>1. Pledged' = Pledged \cup {c} /\ c \notin Pledged
        BY <2>1, <3>1 DEF Pledged
      <4>2. Cardinality(Pledged') = Cardinality(Pledged) + 1
        BY <4>1, PledgedTyped, CallerSets, FS_AddElement
      <4>3. Pledges[api[c]] = Cardinality(Pledged) /\ Pledges'[api[c]] = Cardinality(Pledged')
        BY <1>1, <3>1 DEF Pledges
      <4>4. \A a \in Api \ {api[c]} : Pledges'[a] = Pledges[a]
        BY <3>1 DEF Pledges
      <4>5. QED
        BY <4>2, <4>3, <4>4, PledgedTyped
    <3>2. CASE api[c] # "tradingview"
      <4>1. Pledged' = Pledged
        BY <2>1, <3>2 DEF Pledged
      <4>2. Pledges' = Pledges
        BY <4>1 DEF Pledges
      <4>3. QED
        BY <1>1, <4>2, PledgedTyped
    <3>3. QED
      BY <3>1, <3>2
  <2>6. SlotsCover'
    <3> SUFFICES ASSUME NEW a \in Api
                 PROVE  Load(a, sent[a] + Cardinality(Waits[a])) + Pledges'[a] * Gap <= slot'[a]
      BY <2>1, <2>2 DEF SlotsCover, Load, Slots
    <3>1. Load(a, sent[a] + Cardinality(Waits[a])) + Pledges[a] * Gap <= slot[a]
      BY DEF RateInv, SlotsCover
    <3>2. Load(a, sent[a] + Cardinality(Waits[a])) \in Nat
      <4>1. sent[a] + Cardinality(Waits[a]) \in Nat
        BY <1>1, WaitsTyped
      <4>2. QED
        BY <4>1, LoadGrows
    <3>3. Pledges[a] \in Nat /\ Pledges'[a] \in Nat
      <4>1. Cardinality(Pledged') \in Nat
        BY CallerSets DEF Pledged
      <4>2. QED
        BY <4>1, PledgedTyped DEF Pledges
    <3>4. CASE a = api[c]
      <4>1. Pledges'[a] * Gap <= Pledges[a] * Gap + Gap /\ Pledges'[a] * Gap \in Nat /\ Pledges[a] * Gap \in Nat
        <5>1. \A m, n \in Nat : m <= n + 1 => m * Gap <= n * Gap + Gap
          BY <1>1
        <5>2. QED
          BY <1>1, <2>5, <3>3, <3>4, <5>1
      <4>2. QED
        BY <1>1, <2>4, <3>1, <3>2, <3>4, <4>1
    <3>5. CASE a # api[c]
      BY <2>4, <2>5, <3>1, <3>5
    <3>6. QED
      BY <3>4, <3>5
  <2>7. QED
    BY <2>3, <2>6 DEF RateInv
<1>11. ASSUME NEW c \in Caller, Book(c) PROVE RateInv'
  <2>1. CASE Leave(c) /\ UNCHANGED slot
    BY <1>5, <1>11, <2>1 DEF Book, countVars
  <2>2. CASE ~(Leave(c) /\ UNCHANGED slot)
    BY <1>11, <2>2, RateBooked
  <2>3. QED
    BY <2>1, <2>2
<1>12. ASSUME NEW c \in Caller, Send(c) PROVE RateInv'
  BY <1>12, RateSent
<1>13. QED
  BY <1>2, <1>4, <1>7, <1>8, <1>9, <1>10, <1>11, <1>12 DEF Next, Advance

\* The requests sent to an API never exceed one per gap, and half of that for
\* TradingView, however many goroutines wait for their turns, give up or run
\* into their deadlines.
THEOREM RequestsArePaced == Spec => []WithinRate
<1>1. TypeInv /\ RateInv => WithinRate
  <2> SUFFICES ASSUME TypeInv, RateInv, NEW a \in Api PROVE sent[a] * Slots(a) * Gap <= now + Gap
    BY DEF WithinRate
  <2>1. now \in Nat /\ sent[a] \in Nat
    BY RateAssumption DEF TypeInv, TypeOK, Clock
  <2>2. Load(a, sent[a] + Cardinality(DueBy[a][now])) <= now + Gap
    BY <2>1 DEF RateInv, TurnsSpaced
  <2>3. sent[a] + Cardinality(DueBy[a][now]) \in Nat /\ sent[a] <= sent[a] + Cardinality(DueBy[a][now])
    BY <2>1, WaitsTyped
  <2>4. Load(a, sent[a]) <= Load(a, sent[a] + Cardinality(DueBy[a][now]))
        /\ Load(a, sent[a]) \in Nat /\ Load(a, sent[a] + Cardinality(DueBy[a][now])) \in Nat
    BY <2>1, <2>3, LoadGrows
  <2>5. Load(a, sent[a]) <= now + Gap
    BY <2>1, <2>2, <2>4, RateAssumption
  <2>6. QED
    BY <2>5 DEF Load
<1>2. Init => CallInv
  BY DEF Init, CallInv
<1>3. Spec => []TypeInv /\ []CallInv /\ []RateInv
  BY <1>2, TypeInit, TypeStep, CallStep, RateInit, RateStep, PTL DEF Spec
<1>4. QED
  BY <1>1, <1>3, PTL
=============================================================================
