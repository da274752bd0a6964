---------------------------- MODULE NewsSummary ----------------------------
(***************************************************************************)
(* The job STOCK_NEWS_SUMMARY (strategy/stock_news_summary_strategy.go):   *)
(* one goroutine per stock ranks its news, and has the model summarise     *)
(* them unless there is a summary of the same list.  Tasks may overlap.    *)
(***************************************************************************)
EXTENDS NewsStore

CONSTANTS Task,          \* tasks of the job that may overlap
          MaxSummaries   \* bound: tasks started in a behaviour

ASSUME SummaryAssumption == IsFiniteSet(Task) /\ IsFiniteSet(Stock) /\ MaxSummaries \in Nat

VARIABLES step,    \* place of a task's goroutine for a stock
          list,    \* the news it ranked
          calls,   \* history variable: calls to the model for a list
          excused, \* history variable: times a task decided to call it for a list
                   \* another task was at, and calls whose summary was not stored
          started  \* number of tasks started

summaryVars == <<step, list, calls, excused, started>>

\* A goroutine ranks the news; looks for a summary; calls the model; stores the
\* summary; is not running.
SumStep == {"rank", "get", "call", "create", "none"}

SummaryTypeOK ==
  /\ step \in [Task -> [Stock -> SumStep]]
  /\ list \in [Task -> [Stock -> List]]
  /\ calls \in [Digest -> Nat] /\ excused \in [Digest -> Nat]
  /\ started \in 0..MaxSummaries

NoList == <<>>

SummaryInit ==
  /\ step = [t \in Task |-> [s \in Stock |-> "none"]]
  /\ list = [t \in Task |-> [s \in Stock |-> NoList]]
  /\ calls = [h \in Digest |-> 0] /\ excused = [h \in Digest |-> 0]
  /\ started = 0

Summarising(t) == \E s \in Stock : step[t][s] # "none"

\* What the hash of its news is made of
Hashed(t, s) == <<s, list[t][s]>>

GotoSum(t, s, next) == step' = [step EXCEPT ![t][s] = next]

\* The goroutine ends with a result, good or bad.
LeaveSum(t, s) ==
  /\ GotoSum(t, s, "none")
  /\ list' = [list EXCEPT ![t][s] = NoList]

-----------------------------------------------------------------------------

\* A goroutine for each stock with enough news
Summarise(t) ==
  /\ ~Summarising(t) /\ started < MaxSummaries
  /\ started' = started + 1
  /\ \E selected \in SUBSET StocksToSummarize :
       step' = [step EXCEPT ![t] = [s \in Stock |-> IF s \in selected THEN "rank" ELSE "none"]]
  /\ UNCHANGED <<storeVars, list, calls, excused>>

\* FindRankedNews, whose failure ends the process (NewsJobs!Fatal)
RankNews(t, s) ==
  /\ step[t][s] = "rank"
  /\ \E l \in RankedNews(s) :
       /\ list' = [list EXCEPT ![t][s] = l]
       /\ GotoSum(t, s, IF l = NoList THEN "none" ELSE "get")
  /\ UNCHANGED <<storeVars, calls, excused, started>>

\* Mutant of GetSummary: whether there is one is not looked at
GetNoSummary(t, s) ==
  /\ step[t][s] = "get"
  /\ GotoSum(t, s, "call")
  /\ UNCHANGED <<storeVars, list, calls, excused, started>>

\* Another task has found no summary of the same list and not stored one yet.
Doubled(t, s) == \E u \in Task \ {t} : step[u][s] \in {"call", "create"} /\ Hashed(u, s) = Hashed(t, s)

GetSummary(t, s) ==
  /\ step[t][s] = "get"
  /\ IF summaries[Hashed(t, s)] > 0
       THEN LeaveSum(t, s) /\ UNCHANGED excused
       ELSE /\ GotoSum(t, s, "call") /\ UNCHANGED list
            /\ excused' = [excused EXCEPT ![Hashed(t, s)] = @ + IF Doubled(t, s) THEN 1 ELSE 0]
  /\ UNCHANGED <<storeVars, calls, started>>

\* GenerateNewsSummary; every call of the API counts.
CallModel(t, s) ==
  /\ step[t][s] = "call"
  /\ calls' = [calls EXCEPT ![Hashed(t, s)] = @ + 1]
  /\ GotoSum(t, s, "create")
  /\ UNCHANGED <<storeVars, list, excused, started>>

\* The summary is stored, or there is one with its hash by now.
StoreSummary(t, s) ==
  /\ step[t][s] = "create"
  /\ \/ CreateSummary(Hashed(t, s))
     \/ summaries[Hashed(t, s)] > 0 /\ UNCHANGED summaries
  /\ LeaveSum(t, s)
  /\ UNCHANGED <<news, mentions, calls, excused, started>>

\* A call fails: no summary, although the model may have made one.
SummaryFails(t, s) ==
  /\ step[t][s] \in {"get", "call", "create"}
  /\ excused' = [excused EXCEPT ![Hashed(t, s)] = @ + IF step[t][s] = "create" THEN 1 ELSE 0]
  /\ LeaveSum(t, s)
  /\ UNCHANGED <<storeVars, calls, started>>

Summary(t, s) ==
  RankNews(t, s) \/ GetSummary(t, s) \/ CallModel(t, s) \/ StoreSummary(t, s)

-----------------------------------------------------------------------------
(* Properties.                                                             *)

\* A list of news is summarised once: no second row, and the model is called
\* again for the same list only when two tasks were at it at the same time or
\* the summary could not be stored.
SummarisedOnce ==
  \A h \in Digest : summaries[h] <= 1 /\ calls[h] <= 1 + excused[h]
=============================================================================
