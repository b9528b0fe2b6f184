------------------------- MODULE MCPaymentLifecycle -------------------------
(* Instances of PaymentLifecycle for TLC. *)
EXTENDS PaymentLifecycle, TLC

CONSTANTS recv, recv2, recv3, depo, wdrw, pay, fedA, fedB

\* The outgoing operations belong to a federation of their own.
FedOfOp  == [o \in Op |-> IF o \in {wdrw, pay} /\ fedB \in Federation THEN fedB ELSE fedA]

TypeOfOp == [o \in Op |-> CASE o \in {recv, recv2, recv3} -> "LightningReceive"
                            [] o = depo -> "OnchainDeposit"
                            [] o = wdrw -> "OnchainWithdraw"
                            [] o = pay  -> "LightningPay"]

\* Metadata that recovery classifies correctly, with the amount of receives.
MetaFull == [o \in Op |-> CASE o \in {recv, recv2, recv3} -> {"invoice", "amount_msat"}
                            [] o = depo -> {"address"}
                            [] o = wdrw -> {"recipient", "amount_msat"}
                            [] o = pay  -> {"variant_pay", "amount_msat"}]

\* Metadata as thin as it may be: no amounts, and a payment that carries an
\* invoice and so passes for a receive.
MetaThin == [o \in Op |-> CASE o = recv  -> {"invoice"}
                            [] o = recv2 -> {"type_ln_receive", "amount_msat"}
                            [] o = depo  -> {"type_deposit"}
                            [] o = wdrw  -> {}
                            [] o = pay   -> {"invoice", "payment_hash"}]

\* Receives of one federation are interchangeable.
Receives == Permutations({recv, recv2, recv3} \cap Op)
=============================================================================
