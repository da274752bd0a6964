------------------------------ MODULE NewsJobs ------------------------------
(***************************************************************************)
(* The two news jobs of the execution service on the same tables: items    *)
(* are stored while summaries are made of them, and a failed query of a    *)
(* summary ends the process with everything that runs in it.               *)
(***************************************************************************)
EXTENDS NewsScraper, NewsSummary

vars == <<storeVars, scrapeVars, mishaps, summaryVars>>

TypeOK == StoreTypeOK /\ ScraperTypeOK /\ SummaryTypeOK

Init == StoreInit /\ ScraperInit /\ SummaryInit

\* The process ends and is started again: the tasks are gone, what they were
\* about to store with them.
Restart ==
  /\ todo' = {} /\ slots' = 0
  /\ place' = [q \in Query |-> "none"]
  /\ items' = NothingFor /\ item' = NothingFor
  /\ success' = [q \in Query |-> 0]
  /\ late' = FALSE /\ results' = [q \in Query |-> 0] /\ unfiltered' = {}
  /\ step' = [t \in Task |-> [s \in Stock |-> "none"]]
  /\ list' = [t \in Task |-> [s \in Stock |-> NoList]]
  /\ excused' = [h \in Digest |-> excused[h] +
       Cardinality({g \in Task \X Stock : step[g[1]][g[2]] = "create" /\ Hashed(g[1], g[2]) = h})]
  /\ UNCHANGED <<storeVars, scrapes, calls, started>>

\* log.Fatal in FindRankedNews
Fatal(t, s) == step[t][s] = "rank" /\ Mishap /\ Restart

Fails(t, s) == SummaryFails(t, s) /\ Mishap /\ UNCHANGED scrapeVars

Next ==
  \/ ScraperNext /\ UNCHANGED summaryVars
  \/ \E t \in Task :
       \/ Summarise(t) /\ UNCHANGED <<scrapeVars, mishaps>>
       \/ \E s \in Stock :
            \/ Summary(t, s) /\ UNCHANGED <<scrapeVars, mishaps>>
            \/ Fails(t, s) \/ Fatal(t, s)

Spec == Init /\ [][Next]_vars

\* The goroutines of a scrape run and their calls return.
FairSpec ==
  /\ Spec
  /\ WF_vars(Start /\ UNCHANGED summaryVars)
  /\ \A q \in Query : WF_vars(Work(q) /\ UNCHANGED summaryVars)
=============================================================================
