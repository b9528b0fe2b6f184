-------------------------- MODULE MCAwaitedDeposits -------------------------
(* The instance of AwaitedDeposits for TLC. *)
EXTENDS AwaitedDeposits

CONSTANTS d1, fedA, caller

FedOfDeposit == [o \in Op |-> fedA]
=============================================================================
