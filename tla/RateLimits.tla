------------------------------ MODULE RateLimits ------------------------------
(***************************************************************************)
(* How the execution service paces its calls to Gemini, Yahoo Finance and  *)
(* TradingView: the token budget of ratelimit.TokenLimiter (token.go),     *)
(* shared by all goroutines, and one request limiter per API, from         *)
(* golang.org/x/time/rate with a burst of one                              *)
(* (gemini_ai_repository.go, yahoo_finance_repository.go,                  *)
(* tradingview_repository.go).                                             *)
(*                                                                         *)
(* Time is discrete; the unit is the 100 ms TokenLimiter.Wait sleeps.  The *)
(* goroutines' own computation takes no time, their calls and sleeps do.   *)
(* Every section under the limiter's lock is one step.                     *)
(***************************************************************************)
EXTENDS Integers, FiniteSets

CONSTANTS Caller,      \* goroutines that use the repositories
          Uses,        \* Uses[c]: the APIs caller c calls
          Capacity,    \* cfg.Gemini.MaxTokenPerMinute
          MaxNeed,     \* bound: tokens of a prompt
          Period,      \* refillPeriod, one minute
          Gap,         \* time.Minute / MaxRequestPerMinute
          Timeout,     \* time a caller's context leaves for a call
          MaxClock     \* bound: the clock stops here

Api == {"gemini", "yahoo", "tradingview"}

ASSUME RateAssumption ==
  /\ IsFiniteSet(Caller) /\ Uses \in [Caller -> SUBSET Api]
  /\ Capacity \in Nat \ {0} /\ MaxNeed \in Nat \ {0}
  /\ Period \in Nat \ {0} /\ Gap \in Nat \ {0} /\ Timeout \in Nat
  /\ MaxClock \in Nat

VARIABLES now,         \* the clock
          remaining,   \* TokenLimiter.remaining
          lastRefill,  \* TokenLimiter.lastRefill
          slot,        \* each request limiter: when its next request may go
          step,        \* each caller's place in its call
          api,         \* the API it calls
          left,        \* requests its call still makes
          need,        \* tokens of its prompt
          turn,        \* until when it sleeps
          deadline,    \* of its context
          ledger,      \* history variable: tokens granted up to and including each instant
          sent         \* history variable: requests sent to each API

limiterVars == <<remaining, lastRefill, slot>>
callVars == <<api, left, need, turn, deadline>>
countVars == <<ledger, sent>>
vars == <<now, limiterVars, step, callVars, countVars>>

Clock == 0..MaxClock
Step == {"idle", "count", "refill", "take", "sleep", "reserve", "book", "wait", "send"}

\* Steps that take no time: the clock waits for them.
Instant == {"refill", "take", "reserve", "book"}

TypeOK ==
  /\ now \in Clock
  /\ remaining \in 0..Capacity /\ lastRefill \in 0..now
  /\ slot \in [Api -> Nat]
  /\ step \in [Caller -> Step] /\ api \in [Caller -> Api]
  /\ left \in [Caller -> 0..3] /\ need \in [Caller -> 0..MaxNeed]
  /\ turn \in [Caller -> Nat] /\ deadline \in [Caller -> Nat]
  /\ ledger \in [Clock -> Nat] /\ sent \in [Api -> Nat]

Init ==
  /\ now = 0
  /\ remaining = Capacity /\ lastRefill = 0
  /\ slot = [a \in Api |-> 0]
  /\ step = [c \in Caller |-> "idle"] /\ api = [c \in Caller |-> "gemini"]
  /\ left = [c \in Caller |-> 0] /\ need = [c \in Caller |-> 0]
  /\ turn = [c \in Caller |-> 0] /\ deadline = [c \in Caller |-> 0]
  /\ ledger = [t \in Clock |-> 0] /\ sent = [a \in Api |-> 0]

Expired(c) == now >= deadline[c]

Move(c, s) == step' = [step EXCEPT ![c] = s]

\* The call returns, with or without an error; its locals are gone.
Leave(c) ==
  /\ Move(c, "idle")
  /\ left' = [left EXCEPT ![c] = 0] /\ need' = [need EXCEPT ![c] = 0]
  /\ turn' = [turn EXCEPT ![c] = 0] /\ deadline' = [deadline EXCEPT ![c] = 0]
  /\ UNCHANGED api

-----------------------------------------------------------------------------
(* The calls.                                                              *)

\* The limiter a call begins with.  TradingView's sendRequest first reserves a
\* slot only to log its delay.
FirstStep(a) == CASE a = "gemini" -> "count" [] a = "yahoo" -> "book" [] OTHER -> "reserve"

\* GetMultiTimeframe asks Yahoo for three ranges, one after the other; every
\* other call makes one request.
Requests(a) == IF a = "yahoo" THEN {1, 3} ELSE {1}

Start(c) ==
  /\ step[c] = "idle"
  /\ now + Timeout <= MaxClock
  /\ \E a \in Uses[c] : \E n \in Requests(a) :
       /\ api' = [api EXCEPT ![c] = a]
       /\ left' = [left EXCEPT ![c] = n]
       /\ Move(c, FirstStep(a))
  /\ deadline' = [deadline EXCEPT ![c] = now + Timeout]
  /\ UNCHANGED <<now, limiterVars, need, turn, countVars>>

\* executeGeminiAIRequest: CountTokens
CountTokens(c) ==
  /\ step[c] = "count"
  /\ \E n \in 1..MaxNeed : need' = [need EXCEPT ![c] = n]
  /\ Move(c, "refill")
  /\ UNCHANGED <<now, limiterVars, api, left, turn, deadline, countVars>>

\* A call fails: the API's answer is an error or cannot be parsed, or the
\* context ends first.
CallFails(c) ==
  /\ step[c] \in {"count", "send"}
  /\ Leave(c)
  /\ UNCHANGED <<now, limiterVars, countVars>>

\* Mutant of Refill: a full minute is not waited for
RefillEarly(c) ==
  /\ step[c] = "refill"
  /\ remaining' = Capacity /\ lastRefill' = now
  /\ Move(c, "take")
  /\ UNCHANGED <<now, slot, callVars, countVars>>

\* Mutant of Refill: every look moves lastRefill
RefillPostponed(c) ==
  /\ step[c] = "refill"
  /\ remaining' = IF now - lastRefill >= Period THEN Capacity ELSE remaining
  /\ lastRefill' = now
  /\ Move(c, "take")
  /\ UNCHANGED <<now, slot, callVars, countVars>>

\* TokenLimiter.refill
Refill(c) ==
  /\ step[c] = "refill"
  /\ IF now - lastRefill >= Period
       THEN remaining' = Capacity /\ lastRefill' = now
       ELSE UNCHANGED <<remaining, lastRefill>>
  /\ Move(c, "take")
  /\ UNCHANGED <<now, slot, callVars, countVars>>

\* Mutant of TakeTokens: remaining is read under the lock of refill and
\* lowered under the next one, without a second look
TakeUnchecked(c) ==
  /\ step[c] = "take"
  /\ remaining' = remaining - need[c]
  /\ ledger' = [ledger EXCEPT ![now] = @ + need[c]]
  /\ Move(c, "book")
  /\ UNCHANGED <<now, lastRefill, slot, callVars, sent>>

\* TokenLimiter.Wait has enough tokens left.
TakeTokens(c) ==
  /\ step[c] = "take"
  /\ need[c] <= remaining
  /\ remaining' = remaining - need[c]
  /\ ledger' = [ledger EXCEPT ![now] = @ + need[c]]
  /\ Move(c, "book")
  /\ UNCHANGED <<now, lastRefill, slot, callVars, sent>>

\* It has not, and sleeps for 100 ms.
Sleep(c) ==
  /\ step[c] = "take"
  /\ need[c] > remaining
  /\ turn' = [turn EXCEPT ![c] = now + 1]
  /\ Move(c, "sleep")
  /\ UNCHANGED <<now, limiterVars, api, left, need, deadline, countVars>>

\* It looks again.
Poll(c) ==
  /\ step[c] = "sleep"
  /\ now >= turn[c]
  /\ Move(c, "refill")
  /\ UNCHANGED <<now, limiterVars, callVars, countVars>>

\* Mutant of GiveUp: the context is not looked at
GiveUpNever(c) == FALSE

\* Its context ended; when the sleep is over at the same instant, either of the
\* two is taken.
GiveUp(c) ==
  /\ step[c] = "sleep"
  /\ Expired(c)
  /\ Leave(c)
  /\ UNCHANGED <<now, limiterVars, countVars>>

\* The instant the limiter gives to the next request.
NextTurn(a) == IF slot[a] > now THEN slot[a] ELSE now

\* Reserve: a slot is taken without regard to any context.
Reserve(c) ==
  /\ step[c] = "reserve"
  /\ slot' = [slot EXCEPT ![api[c]] = NextTurn(api[c]) + Gap]
  /\ Move(c, "book")
  /\ UNCHANGED <<now, remaining, lastRefill, callVars, countVars>>

\* rate.Limiter.Wait, which takes no slot and fails at once when the context
\* has ended or would end before the turn.  Tokens already taken are lost.
Book(c) ==
  /\ step[c] = "book"
  /\ LET t == NextTurn(api[c])
     IN  IF Expired(c) \/ t > deadline[c]
           THEN Leave(c) /\ UNCHANGED slot
           ELSE /\ slot' = [slot EXCEPT ![api[c]] = t + Gap]
                /\ turn' = [turn EXCEPT ![c] = t]
                /\ Move(c, "wait")
                /\ UNCHANGED <<api, left, need, deadline>>
  /\ UNCHANGED <<now, remaining, lastRefill, countVars>>

\* The turn has come and the request goes out.
Send(c) ==
  /\ step[c] = "wait"
  /\ now >= turn[c]
  /\ sent' = [sent EXCEPT ![api[c]] = @ + 1]
  /\ left' = [left EXCEPT ![c] = @ - 1]
  /\ Move(c, "send")
  /\ UNCHANGED <<now, limiterVars, api, need, turn, deadline, ledger>>

\* The context ends first; the slot is not given back.
WaitEnds(c) ==
  /\ step[c] = "wait"
  /\ Expired(c)
  /\ Leave(c)
  /\ UNCHANGED <<now, limiterVars, countVars>>

\* Mutant of Answer: the requests of one call share one turn
AnswerUnpaced(c) ==
  /\ step[c] = "send"
  /\ IF left[c] > 0
       THEN Move(c, "wait") /\ UNCHANGED callVars
       ELSE Leave(c)
  /\ UNCHANGED <<now, limiterVars, countVars>>

\* The API answers.
Answer(c) ==
  /\ step[c] = "send"
  /\ IF left[c] > 0
       THEN Move(c, "book") /\ UNCHANGED callVars
       ELSE Leave(c)
  /\ UNCHANGED <<now, limiterVars, countVars>>

\* Time passes: no sleep, wait or call is longer than it may be.
Tick ==
  /\ now < MaxClock
  /\ \A c \in Caller :
       /\ step[c] \notin Instant
       /\ step[c] # "idle" => ~Expired(c)
       /\ step[c] = "sleep" => now < turn[c]
  /\ now' = now + 1
  /\ ledger' = [ledger EXCEPT ![now + 1] = ledger[now]]
  /\ UNCHANGED <<limiterVars, step, callVars, sent>>

-----------------------------------------------------------------------------

Advance(c) ==
  \/ CountTokens(c) \/ CallFails(c)
  \/ Refill(c) \/ TakeTokens(c) \/ Sleep(c) \/ Poll(c) \/ GiveUp(c)
  \/ Reserve(c) \/ Book(c) \/ Send(c) \/ WaitEnds(c) \/ Answer(c)

Next == Tick \/ \E c \in Caller : Start(c) \/ Advance(c)

Spec == Init /\ [][Next]_vars

\* Goroutines run, calls return by their deadline, and time passes.
FairSpec == Spec /\ WF_vars(Tick) /\ \A c \in Caller : WF_vars(Advance(c))

-----------------------------------------------------------------------------
(* Properties.                                                             *)

\* TokenLimiter refills by the clock, not over a sliding minute: however the
\* goroutines' two locked sections interleave, one period grants at most twice
\* the capacity.
TwicePerPeriod ==
  \A s, t \in 0..now : s <= t /\ t - s <= Period => ledger[t] - ledger[s] <= 2 * Capacity

\* The slots one request takes.
Slots(a) == IF a = "tradingview" THEN 2 ELSE 1

\* Every request has a turn of its own, so that no API gets more requests than
\* one per Gap, whatever the callers, and TradingView half of that, for the
\* slot its log line takes.
WithinRate == \A a \in Api : sent[a] * Slots(a) * Gap <= now + Gap

\* A prompt that fits the budget, with a whole period to wait in, is refused
\* only if other prompts took tokens meanwhile: no lost refill starves it.
OnlyCrowdedOut ==
  [][\A c \in Caller :
       /\ GiveUp(c) /\ need[c] <= Capacity /\ Timeout > Period
       => ledger[now] > ledger[now - Timeout]]_vars

\* Every call ends, an oversized prompt's with its context.
CallEnds == \A c \in Caller : step[c] # "idle" ~> step[c] = "idle"
=============================================================================
