------------------------------ MODULE TaskPool ------------------------------
(***************************************************************************)
(* What the execution service promises of scheduled tasks, without its     *)
(* stream, consumer group, goroutines and semaphore: a task is executed at *)
(* most once, at most Limit of them at a time, and one that started only   *)
(* ever ends, alone or with all the others of its process.                 *)
(***************************************************************************)
EXTENDS Integers, FiniteSets

CONSTANTS Task, Limit

VARIABLE state

Running == {t \in Task : state[t] = "running"}

Init == state = [t \in Task |-> "absent"]

Publish(t) == state[t] = "absent" /\ state' = [state EXCEPT ![t] = "queued"]

Start(t) ==
  /\ state[t] = "queued"
  /\ Cardinality(Running) < Limit
  /\ state' = [state EXCEPT ![t] = "running"]

End(T) == state' = [t \in Task |-> IF t \in T THEN "ended" ELSE state[t]]

Next ==
  \/ \E t \in Task : Publish(t) \/ Start(t) \/ (t \in Running /\ End({t}))
  \/ End(Running)

Spec == Init /\ [][Next]_state
=============================================================================
