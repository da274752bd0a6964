----------------------------- MODULE MCPositions -----------------------------
(***************************************************************************)
(* Values of the constants of PositionMonitor for TLC.                     *)
(***************************************************************************)
EXTENDS PositionMonitor

CONSTANTS p1, u1

\* One monitored position
MCPortfolio ==
  [p \in Position |->
     [open |-> TRUE, monitored |-> TRUE, alerted |-> TRUE, buy |-> 2, take |-> 3, stop |-> 1]]

MCOwnerOf == [p \in Position |-> u1]
=============================================================================
