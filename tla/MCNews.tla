------------------------------- MODULE MCNews -------------------------------
(***************************************************************************)
(* Values of the constants of NewsJobs for TLC.                            *)
(***************************************************************************)
EXTENDS NewsJobs

CONSTANTS a, b, c, d, e, \* items
          q1, q2, q3,  \* queries
          u,           \* a stock
          t1, t2       \* tasks

\* Item a is in two feeds, e comes after it in the first one.  In the second one b, the last in order, comes from a
\* blacklisted domain, and c lacks its source; the third feed has an undated item.
MCFeed == [q \in Query |-> CASE q = q1 -> {a, e} [] q = q2 -> {a, b, c} [] OTHER -> {d}]
MCNature ==
  [i \in Item |->
     CASE i = b -> "barred" [] i = c -> "sourceless" [] i = d -> "undated" [] OTHER -> "fine"]
MCRank == [i \in Item |-> IF i \in {b, e} THEN 2 ELSE 1]
MCMentioned == [i \in Item |-> {u}]
=============================================================================
