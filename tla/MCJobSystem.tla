---------------------------- MODULE MCJobSystem ----------------------------
(***************************************************************************)
(* Values of the constants of JobSystem for TLC.                           *)
(***************************************************************************)
EXTENDS JobSystem

CONSTANTS even   \* fires at the even instants, like "0 */2 * * *"

MCNextFire == [c \in {even} |-> [t \in 1..MaxClock |-> 2 * (t \div 2) + 2]]
=============================================================================
