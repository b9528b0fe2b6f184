-------------------------- MODULE MCPaymentSessions --------------------------
(* Instances of PaymentSessions for TLC. *)
EXTENDS PaymentSessions

CONSTANTS r1, r2, w1, lnurl, garbled, c1, i1, i2

\* Requests for one invoice, and an lnurl, with an amount.
KindOfRequest    == [r \in Request |-> IF r = lnurl THEN "lnurl" ELSE "bolt11"]
InvoiceOfRequest == [r \in Request |-> i1]

\* The payment is followed by a message that is no request, and by the lnurl.
SomeMessages == [c \in Connection |-> <<w1, garbled, lnurl>>]
=============================================================================
