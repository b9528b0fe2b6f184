--------------------------- MODULE InvoicePayments ---------------------------
(***************************************************************************)
(* What a caller and a listener may rely on about the payment of an        *)
(* invoice, however many requests name it and whatever becomes of them:    *)
(* its money moves only after a payment was announced, comes back or is    *)
(* spent once and for all, and only then is a success told; each telling   *)
(* has an announcement before it, and each answer a telling.               *)
(***************************************************************************)
EXTENDS Naturals

CONSTANT Invoice

VARIABLES
  announced,  \* how often a payment of each invoice was announced
  money,      \* "none", "pending", "refunded" or "succeeded"
  told,       \* how often its success was told by an event
  answered    \* how many callers were answered that it succeeded

promiseVars == <<announced, money, told, answered>>

Init ==
  /\ announced = [i \in Invoice |-> 0]
  /\ money = [i \in Invoice |-> "none"]
  /\ told = [i \in Invoice |-> 0]
  /\ answered = [i \in Invoice |-> 0]

Announce(i) ==
  /\ announced' = [announced EXCEPT ![i] = @ + 1]
  /\ UNCHANGED <<money, told, answered>>

Start(i) ==
  /\ announced[i] > 0
  /\ money[i] \in {"none", "refunded"}
  /\ money' = [money EXCEPT ![i] = "pending"]
  /\ UNCHANGED <<announced, told, answered>>

End(i, s) ==
  /\ money[i] = "pending"
  /\ money' = [money EXCEPT ![i] = s]
  /\ UNCHANGED <<announced, told, answered>>

Tell(i) ==
  /\ money[i] = "succeeded"
  /\ told[i] < announced[i]
  /\ told' = [told EXCEPT ![i] = @ + 1]
  /\ UNCHANGED <<announced, money, answered>>

Answer(i) ==
  /\ answered[i] < told[i]
  /\ answered' = [answered EXCEPT ![i] = @ + 1]
  /\ UNCHANGED <<announced, money, told>>

Next ==
  \E i \in Invoice :
    \/ Announce(i)
    \/ Start(i)
    \/ \E s \in {"succeeded", "refunded"} : End(i, s)
    \/ Tell(i)
    \/ Answer(i)

Spec == Init /\ [][Next]_promiseVars
=============================================================================
