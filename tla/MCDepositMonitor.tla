-------------------------- MODULE MCDepositMonitor --------------------------
(* Instances of DepositMonitor for TLC. *)
EXTENDS DepositMonitor

CONSTANTS d1, d2, d3, fedA, fedB

\* One deposit in a federation of its own where there are two.
FedOfDeposit == [o \in Op |-> IF o = d2 /\ fedB \in Federation THEN fedB ELSE fedA]

=============================================================================
