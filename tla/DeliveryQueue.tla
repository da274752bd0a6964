---------------------------- MODULE DeliveryQueue ----------------------------
(***************************************************************************)
(* What a stream with a retry goroutine promises of its entries, without   *)
(* consumer group, idle times, delivery counts and workers: they are       *)
(* delivered in the order they were published, and one is settled only     *)
(* once it was handled, however often it had to be.                        *)
(***************************************************************************)
EXTENDS Integers

CONSTANT Entry

VARIABLE state

Init == state = [e \in Entry |-> "absent"]

Change(e, from, to) == state[e] = from /\ state' = [state EXCEPT ![e] = to]

Publish(e) == Change(e, "absent", "queued")

Deliver(e) ==
  /\ \A d \in Entry : d < e => state[d] # "queued"
  /\ Change(e, "queued", "pending")

Handle(e) == Change(e, "pending", "handled")

Settle(e) == Change(e, "handled", "settled")

Next == \E e \in Entry : Publish(e) \/ Deliver(e) \/ Handle(e) \/ Settle(e)

Spec == Init /\ [][Next]_state
=============================================================================
