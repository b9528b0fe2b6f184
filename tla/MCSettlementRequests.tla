------------------------ MODULE MCSettlementRequests ------------------------
(* Instances of SettlementRequests for TLC. *)
EXTENDS SettlementRequests

CONSTANTS invoice, withdrawal
=============================================================================
