---------------------------- MODULE MCScheduler ----------------------------
(***************************************************************************)
(* Values of the constants of Scheduler for TLC.                           *)
(***************************************************************************)
EXTENDS Scheduler, TLC, FiniteSets

CONSTANTS even,   \* fires at the even instants, like "0 */2 * * *"
          twice,  \* a date that comes at the instants 2 and 4, and then never again
          six     \* "5 * * * * *": six fields, which the parser refuses

ASSUME Cron \subseteq {even, twice, six}

MCParsable == Cron \ {six}

MCNextFire ==
  [c \in MCParsable |-> [t \in 1..MaxClock |->
     CASE c = even -> 2 * (t \div 2) + 2
       [] c = twice -> IF t < 4 THEN 2 * (t \div 2) + 2 ELSE 0]]

Symmetry == Permutations(Schedule) \cup Permutations(Job) \cup Permutations(Client)

\* "scheduled to run at the beginning of every hour": with an hour from every
\* even instant to the next, the tasks of a schedule start in different hours.
OncePerHour ==
  \A g, h \in History :
    /\ g # h /\ payload[g] # Null /\ payload[h] # Null
    /\ payload[g].sched = payload[h].sched
    => payload[g].started \div 2 # payload[h].started \div 2
=============================================================================
