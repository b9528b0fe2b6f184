---------------------------- MODULE PaymentFlow ----------------------------
(***************************************************************************)
(* Paying a lightning invoice: the request handler of fmcd                 *)
(* (pay_invoice_with_resolver in src/core/mod.rs), the resolver in front   *)
(* of it (src/api/resolvers/payment.rs) and the PaymentTracker that        *)
(* announces the payment (src/core/operations/payment.rs).                 *)
(*                                                                         *)
(* Requests run concurrently, may name the same invoice, and disappear at  *)
(* any await when their caller or the process does; the payment they have  *)
(* started goes on in the federation client.  The client is external: it   *)
(* makes one attempt at an invoice after the other, a new one only after a *)
(* refund, and returns the attempt that succeeded when asked again.  An    *)
(* event carries the payment id, a hash of the invoice, so events are      *)
(* counted per invoice.  Left out: gateway choice, fees, preimages, and    *)
(* which of the two pay state machines is subscribed.                      *)
(***************************************************************************)
EXTENDS Integers, FiniteSets, Sequences

CONSTANTS
  Request,      \* requests to /ln/pay
  Invoice,      \* bolt11 invoices with an amount
  KindOf,       \* what the payment_info of each request is
  AmountGiven,  \* the requests that carry amount_msat
  InvoiceOf,    \* the invoice in the payment_info of a bolt11 request
  Nil,          \* no invoice
  MaxCrashes    \* bound on the number of crashes

\* "lnurl" stands for a lightning address too, "other" for anything unparsable.
Kind == {"bolt11", "bolt11_no_amount", "lnurl", "other"}

ASSUME PaymentFlowAssumption ==
  /\ KindOf \in [Request -> Kind]
  /\ AmountGiven \subseteq Request
  /\ InvoiceOf \in [Request -> Invoice]
  /\ IsFiniteSet(Request)
  /\ Nil \notin Invoice
  /\ MaxCrashes \in Nat

\* Where a request is.  "rejected" and "failed" are error answers, before and after
\* the payment was announced; "dropped" requests are never answered.
Stage == {"new", "resolved", "initiated", "ready", "awaiting", "succeeded",
          "answered", "rejected", "failed", "dropped"}

Underway == {"new", "resolved", "initiated", "ready", "awaiting", "succeeded"}

VARIABLES
  stage,
  invoice,    \* the invoice a request was resolved to, or Nil
  tracker,    \* PaymentState of its tracker, "none" before it is made
  attempts,   \* the client's attempts at each invoice, oldest first
  operation,  \* the attempt a request waits for, 0 before it pays
  initiated,  \* PaymentInitiated events per payment id
  succeeded,  \* PaymentSucceeded events per payment id; PaymentFailed is never published
  crashes

events == <<initiated, succeeded>>
vars == <<stage, invoice, tracker, attempts, operation, events, crashes>>

Attempt == {"pending", "succeeded", "refunded"}

\* How the attempt that a request waits for stands.
PaymentOf(r) == attempts[invoice[r]][operation[r]]

\* An invoice is being paid or paid: by its last attempt, if at all.
Paying(i, s) == attempts[i] # <<>> /\ attempts[i][Len(attempts[i])] = s

Enter(r, s) == stage' = [stage EXCEPT ![r] = s]

-----------------------------------------------------------------------------
(* The handler *)

\* resolve_payment_info has found or fetched an invoice.  A bolt11 request must not
\* carry an amount; an lnurl request must, and its server answers with any invoice
\* of that amount.
Resolve(r, i) ==
  /\ stage[r] = "new"
  /\ \/ KindOf[r] = "bolt11" /\ r \notin AmountGiven /\ i = InvoiceOf[r]
     \/ KindOf[r] = "lnurl" /\ r \in AmountGiven
  /\ invoice' = [invoice EXCEPT ![r] = i]
  /\ Enter(r, "resolved")
  /\ UNCHANGED <<tracker, attempts, operation, events, crashes>>

\* No client, an amount missing or given twice, no bolt11 invoice in the end, or an
\* lnurl server that does not answer as it should.
ResolveFails(r) ==
  /\ stage[r] = "new"
  /\ Enter(r, "rejected")
  /\ UNCHANGED <<invoice, tracker, attempts, operation, events, crashes>>

\* Slip: the tracker is made but its first event is not published.
InitiateSilently(r) ==
  /\ stage[r] = "resolved"
  /\ r \notin AmountGiven
  /\ tracker' = [tracker EXCEPT ![r] = "Initiated"]
  /\ Enter(r, "initiated")
  /\ UNCHANGED <<invoice, attempts, operation, events, crashes>>

\* The invoice has an amount and the request has none: initiate publishes.
Initiate(r) ==
  /\ stage[r] = "resolved"
  /\ r \notin AmountGiven
  /\ tracker' = [tracker EXCEPT ![r] = "Initiated"]
  /\ initiated' = [initiated EXCEPT ![invoice[r]] = @ + 1]
  /\ Enter(r, "initiated")
  /\ UNCHANGED <<invoice, attempts, operation, succeeded, crashes>>

\* "Amount specified in both invoice and request", of the resolved invoice as well.
RejectAmount(r) ==
  /\ stage[r] = "resolved"
  /\ r \in AmountGiven
  /\ Enter(r, "rejected")
  /\ UNCHANGED <<invoice, tracker, attempts, operation, events, crashes>>

\* There is a lightning module, and the gateway is known.
SelectGateway(r) ==
  /\ stage[r] = "initiated"
  /\ Enter(r, "ready")
  /\ UNCHANGED <<invoice, tracker, attempts, operation, events, crashes>>

\* Slip: the operation is taken down before the client has made it.
PayTooEarly(r) ==
  /\ stage[r] = "ready"
  /\ ~Paying(invoice[r], "pending")
  /\ attempts' = IF Paying(invoice[r], "succeeded") THEN attempts
                 ELSE [attempts EXCEPT ![invoice[r]] = Append(@, "pending")]
  /\ operation' = [operation EXCEPT ![r] = Len(attempts[invoice[r]])]
  /\ Enter(r, "awaiting")
  /\ UNCHANGED <<invoice, tracker, events, crashes>>

\* pay_bolt11_invoice starts the payment, again if it was refunded, or returns the
\* one that was made.
Pay(r) ==
  /\ stage[r] = "ready"
  /\ ~Paying(invoice[r], "pending")
  /\ attempts' = IF Paying(invoice[r], "succeeded") THEN attempts
                 ELSE [attempts EXCEPT ![invoice[r]] = Append(@, "pending")]
  /\ operation' = [operation EXCEPT ![r] = Len(attempts'[invoice[r]])]
  /\ Enter(r, "awaiting")
  /\ UNCHANGED <<invoice, tracker, events, crashes>>

\* Slip: any end of the payment is taken for its success.
SucceedOnAnyEnd(r) ==
  /\ stage[r] = "awaiting"
  /\ PaymentOf(r) \in {"succeeded", "refunded"}
  /\ tracker' = [tracker EXCEPT ![r] = "Succeeded"]
  /\ succeeded' = [succeeded EXCEPT ![invoice[r]] = @ + 1]
  /\ Enter(r, "succeeded")
  /\ UNCHANGED <<invoice, attempts, operation, initiated, crashes>>

\* Slip: the success is kept for the answer alone.
SucceedSilently(r) ==
  /\ stage[r] = "awaiting"
  /\ PaymentOf(r) = "succeeded"
  /\ Enter(r, "succeeded")
  /\ UNCHANGED <<invoice, tracker, attempts, operation, events, crashes>>

\* Slip: a success that another request has announced is passed over.
SucceedOnce(r) ==
  /\ stage[r] = "awaiting"
  /\ PaymentOf(r) = "succeeded"
  /\ succeeded[invoice[r]] = 0
  /\ tracker' = [tracker EXCEPT ![r] = "Succeeded"]
  /\ succeeded' = [succeeded EXCEPT ![invoice[r]] = @ + 1]
  /\ Enter(r, "succeeded")
  /\ UNCHANGED <<invoice, attempts, operation, initiated, crashes>>

\* The update stream shows the preimage: succeed publishes.
Succeed(r) ==
  /\ stage[r] = "awaiting"
  /\ PaymentOf(r) = "succeeded"
  /\ tracker' = [tracker EXCEPT ![r] = "Succeeded"]
  /\ succeeded' = [succeeded EXCEPT ![invoice[r]] = @ + 1]
  /\ Enter(r, "succeeded")
  /\ UNCHANGED <<invoice, attempts, operation, initiated, crashes>>

\* Each of these answers with an error and leaves the tracker as it is: no module or
\* gateway, a payment that does not start (one of the invoice may be pending) ...
StartFails(r) ==
  /\ stage[r] \in {"initiated", "ready"}
  /\ Enter(r, "failed")
  /\ UNCHANGED <<invoice, tracker, attempts, operation, events, crashes>>

\* ... a payment that is refunded ...
Refunded(r) ==
  /\ stage[r] = "awaiting"
  /\ PaymentOf(r) = "refunded"
  /\ Enter(r, "failed")
  /\ UNCHANGED <<invoice, tracker, attempts, operation, events, crashes>>

\* ... a stream that cannot be opened, or ends before the payment does ...
StreamFails(r) ==
  /\ stage[r] = "awaiting"
  /\ Enter(r, "failed")
  /\ UNCHANGED <<invoice, tracker, attempts, operation, events, crashes>>

Answer(r) ==
  /\ stage[r] = "succeeded"
  /\ Enter(r, "answered")
  /\ UNCHANGED <<invoice, tracker, attempts, operation, events, crashes>>

\* ... or a caller that goes away: the server drops the handler and its tracker.
DropHandler(r) ==
  /\ stage[r] \in Underway
  /\ Enter(r, "dropped")
  /\ UNCHANGED <<invoice, tracker, attempts, operation, events, crashes>>

-----------------------------------------------------------------------------
\* The federation client ends a payment.
Settle(i, s) ==
  /\ Paying(i, "pending")
  /\ attempts' = [attempts EXCEPT ![i][Len(attempts[i])] = s]
  /\ UNCHANGED <<stage, invoice, tracker, operation, events, crashes>>

\* The process dies with its requests; the client resumes its payments afterwards.
Crash ==
  /\ crashes < MaxCrashes
  /\ crashes' = crashes + 1
  /\ stage' = [r \in Request |->
                 IF stage[r] \in Underway \ {"new"} THEN "dropped" ELSE stage[r]]
  /\ UNCHANGED <<invoice, tracker, attempts, operation, events>>

Init ==
  /\ stage = [r \in Request |-> "new"]
  /\ invoice = [r \in Request |-> Nil]
  /\ tracker = [r \in Request |-> "none"]
  /\ attempts = [i \in Invoice |-> <<>>]
  /\ operation = [r \in Request |-> 0]
  /\ initiated = [i \in Invoice |-> 0]
  /\ succeeded = [i \in Invoice |-> 0]
  /\ crashes = 0

\* What a handler does in the end when the network answers it.
HandlerAdvances(r) ==
  \/ \E i \in Invoice : Resolve(r, i)
  \/ ResolveFails(r)
  \/ Initiate(r)
  \/ RejectAmount(r)
  \/ SelectGateway(r)
  \/ StartFails(r)
  \/ Pay(r)
  \/ Succeed(r)
  \/ Refunded(r)
  \/ Answer(r)

HandlerStep(r) == HandlerAdvances(r) \/ StreamFails(r) \/ DropHandler(r)

Next ==
  \/ \E r \in Request : HandlerStep(r)
  \/ \E i \in Invoice, s \in {"succeeded", "refunded"} : Settle(i, s)
  \/ Crash

Spec == Init /\ [][Next]_vars

\* A handler whose payment has ended reads that off the stream, and answers.
Fairness ==
  \A r \in Request : WF_vars(Succeed(r)) /\ WF_vars(Refunded(r)) /\ WF_vars(Answer(r))

FairSpec == Spec /\ Fairness

-----------------------------------------------------------------------------
(* What the flow must keep true *)

\* Every variable holds a value of its kind.
TypeOK ==
  /\ stage \in [Request -> Stage]
  /\ invoice \in [Request -> Invoice \cup {Nil}]
  /\ tracker \in [Request -> {"none", "Initiated", "Succeeded"}]
  /\ attempts \in [Invoice -> Seq(Attempt)]
  /\ operation \in [Request -> Nat]
  /\ \A r \in Request : stage[r] = "awaiting" => operation[r] \in DOMAIN attempts[invoice[r]]
  /\ initiated \in [Invoice -> Nat]
  /\ succeeded \in [Invoice -> Nat]
  /\ crashes \in Nat

\* Every request that names invoice i, or was resolved to it, and got so far.
Reached(i, S) == {r \in Request : invoice[r] = i /\ stage[r] \in S}

\* A payment is told to have succeeded, by an answer or by an event, only if it has,
\* whatever other requests of the invoice and refunds before it came to.
OnlyTrueSuccess ==
  \A i \in Invoice :
    succeeded[i] > 0 \/ Reached(i, {"succeeded", "answered"}) # {} => Paying(i, "succeeded")

\* The events of a payment id account for its requests and its money: nobody is told of
\* a success that was not announced, no success is announced that was not initiated,
\* and no money moves before a payment was announced.
EventsAccount ==
  \A i \in Invoice :
    /\ Cardinality(Reached(i, {"succeeded", "answered"})) <= succeeded[i]
    /\ succeeded[i] <= initiated[i]
    /\ attempts[i] # <<>> => initiated[i] > 0

\* What became of the money of an invoice, and how many were answered that it was paid.
MoneyOf(i)    == IF attempts[i] = <<>> THEN "none" ELSE attempts[i][Len(attempts[i])]
AnsweredOf(i) == Cardinality(Reached(i, {"answered"}))

Payments == INSTANCE InvoicePayments WITH
  announced <- initiated,
  told      <- succeeded,
  money     <- [i \in Invoice |-> MoneyOf(i)],
  answered  <- [i \in Invoice |-> AnsweredOf(i)]

\* Requests that share an invoice, its attempts and its payment id, and disappear anywhere,
\* keep what InvoicePayments promises of it.
ImplementsPayments == Payments!Spec

\* A request that waits for a payment that has succeeded, even one that another
\* request started, is answered, unless its stream fails or it is dropped.
AwaitedIsAnswered ==
  \A r \in Request :
    stage[r] = "awaiting" /\ PaymentOf(r) = "succeeded"
      ~> stage[r] \in {"answered", "failed", "dropped"}
=============================================================================
