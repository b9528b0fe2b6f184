------------------------- MODULE PaymentFlowProofs -------------------------
(***************************************************************************)
(* Theorems about paying invoices, for any requests, invoices, sessions    *)
(* and crashes: what is told of a success is true, the events account for  *)
(* requests and payments, the flow implements InvoicePayments, and the     *)
(* messages of a session are handled in turn.                              *)
(***************************************************************************)
EXTENDS PaymentSessions, FiniteSetTheorems, SequenceTheorems, TLAPS

-----------------------------------------------------------------------------
(* The flow *)

\* Requests that were announced and have not come to an end, and those whose success was
\* announced.
Announced(i) == Reached(i, {"initiated", "ready", "awaiting"})
Successful(i) == Reached(i, {"succeeded", "answered"})

\* A request that is paid for has an invoice.
InvoiceInv ==
  \A r \in Request :
    stage[r] \in {"resolved", "initiated", "ready", "awaiting", "succeeded", "answered"} =>
      invoice[r] \in Invoice

\* Only the last attempt at an invoice may be anything but refunded.
AttemptInv ==
  \A i \in Invoice : \A k \in 1 .. Len(attempts[i]) - 1 : attempts[i][k] = "refunded"

\* Every initiated event belongs to a success, a request that is on its way, or one that
\* has failed.
CountInv ==
  \A i \in Invoice :
    /\ Cardinality(Successful(i)) <= succeeded[i]
    /\ succeeded[i] + Cardinality(Announced(i)) <= initiated[i]

PaidInv == \A i \in Invoice : attempts[i] # <<>> => initiated[i] > 0

FlowInv == TypeOK /\ InvoiceInv /\ AttemptInv /\ CountInv /\ PaidInv /\ OnlyTrueSuccess

\* The requests that got somewhere are finitely many.
LEMMA ReachedFinite ==
  ASSUME NEW i, NEW S
  PROVE  IsFiniteSet(Reached(i, S)) /\ Cardinality(Reached(i, S)) \in Nat
<1>1. Reached(i, S) \subseteq Request /\ IsFiniteSet(Request)
  BY PaymentFlowAssumption DEF Reached
<1>. QED
  BY <1>1, FS_Subset, FS_CardinalityType

\* Where requests only leave, and no event is published, the count is kept.
LEMMA FewerCount ==
  ASSUME TypeOK, CountInv, UNCHANGED events,
         \A i \in Invoice : /\ Announced(i)' \subseteq Announced(i)
                            /\ Successful(i)' \subseteq Successful(i)
  PROVE  CountInv'
<1>. SUFFICES ASSUME NEW i \in Invoice
              PROVE  /\ Cardinality(Successful(i)') <= succeeded[i]
                     /\ succeeded[i] + Cardinality(Announced(i)') <= initiated[i]
  BY DEF CountInv, events
<1>1. /\ IsFiniteSet(Announced(i)) /\ Cardinality(Announced(i)) \in Nat
      /\ IsFiniteSet(Successful(i)) /\ Cardinality(Successful(i)) \in Nat
  BY ReachedFinite DEF Announced, Successful
<1>2. /\ Cardinality(Announced(i)') <= Cardinality(Announced(i)) /\ Cardinality(Announced(i)') \in Nat
      /\ Cardinality(Successful(i)') <= Cardinality(Successful(i)) /\ Cardinality(Successful(i)') \in Nat
  BY <1>1, FS_Subset, FS_CardinalityType
<1>3. succeeded[i] \in Nat /\ initiated[i] \in Nat
  BY DEF TypeOK
<1>. QED
  BY <1>1, <1>2, <1>3 DEF CountInv

\* A payment that has succeeded is the last attempt, and remains it.
LEMMA SuccessIsLast ==
  ASSUME TypeOK, InvoiceInv, AttemptInv, NEW r \in Request, stage[r] = "awaiting", PaymentOf(r) = "succeeded"
  PROVE  Paying(invoice[r], "succeeded")
<1>. DEFINE a == attempts[invoice[r]]
<1>1. a \in Seq(Attempt) /\ operation[r] \in DOMAIN a /\ a[operation[r]] = "succeeded"
  BY DEF TypeOK, InvoiceInv, PaymentOf
<1>2. Len(a) \in Nat /\ DOMAIN a = 1 .. Len(a)
  BY <1>1
<1>3. \A k \in 1 .. Len(a) - 1 : a[k] = "refunded"
  BY DEF AttemptInv, InvoiceInv
<1>4. operation[r] = Len(a) /\ a # <<>>
  BY <1>1, <1>2, <1>3
<1>. QED
  BY <1>1, <1>4 DEF Paying

\* Sets that differ in one element at most.
LEMMA OneApart ==
  ASSUME NEW A, NEW B, NEW r, A \ {r} = B \ {r}
  PROVE  /\ (r \in A <=> r \in B) => A = B
         /\ r \in A /\ r \notin B => A = B \cup {r}
         /\ r \notin A /\ r \in B => A = B \ {r}
OBVIOUS

\* A request's own step moves that request only.
LEMMA OwnStep ==
  ASSUME TypeOK, NEW r \in Request, NEW s, stage' = [stage EXCEPT ![r] = s],
         \A q \in Request \ {r} : invoice'[q] = invoice[q]
  PROVE  /\ stage'[r] = s
         /\ \A q \in Request \ {r} : stage'[q] = stage[q]
         /\ \A i, S : /\ Reached(i, S)' \ {r} = Reached(i, S) \ {r}
                      /\ r \in Reached(i, S)' <=> invoice'[r] = i /\ s \in S
                      /\ r \in Reached(i, S) <=> invoice[r] = i /\ stage[r] \in S
BY DEF TypeOK, Reached

\* A request that ends without success, and one that goes on without an event.
LEMMA QuietStep ==
  ASSUME FlowInv, NEW r \in Request,
         \/ ResolveFails(r) \/ RejectAmount(r) \/ StartFails(r) \/ Refunded(r) \/ StreamFails(r)
         \/ DropHandler(r) \/ SelectGateway(r) \/ Answer(r)
         \/ \E i \in Invoice : Resolve(r, i)
  PROVE  FlowInv'
<1>1. PICK s \in Stage :
        /\ stage' = [stage EXCEPT ![r] = s]
        /\ s \notin {"new", "awaiting"}
        /\ s \in {"resolved", "initiated", "ready", "succeeded", "answered"} => invoice'[r] \in Invoice
        /\ s \in {"initiated", "ready"} => stage[r] \in {"initiated", "ready"}
        /\ s \in {"succeeded", "answered"} => stage[r] \in {"succeeded", "answered"}
        /\ invoice'[r] = invoice[r] \/ stage[r] = "new"
  BY DEF ResolveFails, RejectAmount, StartFails, Refunded, StreamFails, DropHandler, SelectGateway,
         Answer, Resolve, Enter, Stage, FlowInv, TypeOK, InvoiceInv
<1>2. /\ UNCHANGED <<tracker, attempts, operation, initiated, succeeded, crashes>>
      /\ \A q \in Request \ {r} : invoice'[q] = invoice[q]
      /\ invoice' \in [Request -> Invoice \cup {Nil}]
  BY DEF ResolveFails, RejectAmount, StartFails, Refunded, StreamFails, DropHandler, SelectGateway,
         Answer, Resolve, events, FlowInv, TypeOK
<1>3. /\ stage'[r] = s
      /\ \A q \in Request \ {r} : stage'[q] = stage[q]
      /\ \A i, S : /\ Reached(i, S)' \ {r} = Reached(i, S) \ {r}
                   /\ r \in Reached(i, S)' <=> invoice'[r] = i /\ s \in S
                   /\ r \in Reached(i, S) <=> invoice[r] = i /\ stage[r] \in S
  BY <1>1, <1>2, OwnStep DEF FlowInv
<1>4. \A i \in Invoice : Announced(i)' \subseteq Announced(i) /\ Successful(i)' \subseteq Successful(i)
  BY <1>1, <1>3 DEF Announced, Successful
<1>5. TypeOK'
  BY <1>1, <1>2, <1>3 DEF FlowInv, TypeOK
<1>6. InvoiceInv' /\ AttemptInv' /\ PaidInv'
  BY <1>1, <1>2, <1>3 DEF FlowInv, InvoiceInv, AttemptInv, PaidInv
<1>7. CountInv'
  BY <1>2, <1>4, FewerCount DEF FlowInv, events
<1>8. OnlyTrueSuccess'
  BY <1>2, <1>4 DEF FlowInv, OnlyTrueSuccess, Successful, Paying
<1>. QED
  BY <1>5, <1>6, <1>7, <1>8 DEF FlowInv

\* An announcement pays for one more request on its way.
LEMMA InitiateStep ==
  ASSUME FlowInv, NEW r \in Request, Initiate(r)
  PROVE  FlowInv'
<1>0. PICK j \in Invoice : invoice[r] = j
  BY DEF Initiate, FlowInv, InvoiceInv
<1>1. /\ stage[r] = "resolved" /\ stage' = [stage EXCEPT ![r] = "initiated"]
      /\ initiated' = [initiated EXCEPT ![j] = @ + 1]
      /\ UNCHANGED <<invoice, attempts, operation, succeeded, crashes>>
      /\ tracker' \in [Request -> {"none", "Initiated", "Succeeded"}]
  BY <1>0 DEF Initiate, Enter, FlowInv, TypeOK
<1>2. /\ stage'[r] = "initiated"
      /\ \A q \in Request \ {r} : stage'[q] = stage[q]
      /\ \A i, S : /\ Reached(i, S)' \ {r} = Reached(i, S) \ {r}
                   /\ r \in Reached(i, S)' <=> invoice'[r] = i /\ "initiated" \in S
                   /\ r \in Reached(i, S) <=> invoice[r] = i /\ stage[r] \in S
  BY <1>1, OwnStep DEF FlowInv
<1>3. /\ Announced(j)' = Announced(j) \cup {r} /\ r \notin Announced(j)
      /\ \A i \in Invoice \ {j} : Announced(i)' = Announced(i)
      /\ \A i \in Invoice : Successful(i)' = Successful(i)
  <2>1. \A i, S : \/ (r \in Reached(i, S)' <=> r \in Reached(i, S)) /\ Reached(i, S)' = Reached(i, S)
                  \/ r \notin Reached(i, S) /\ Reached(i, S)' = Reached(i, S) \cup {r}
                  \/ r \notin Reached(i, S)' /\ r \in Reached(i, S)
    BY <1>2, OneApart
  <2>. QED
    BY <1>0, <1>1, <1>2, <2>1 DEF Announced, Successful
<1>4. /\ initiated' \in [Invoice -> Nat] /\ initiated'[j] = initiated[j] + 1
      /\ \A i \in Invoice \ {j} : initiated'[i] = initiated[i]
      /\ \A i \in Invoice : initiated[i] \in Nat
  BY <1>1 DEF FlowInv, TypeOK
<1>5. TypeOK'
  BY <1>1, <1>2, <1>4 DEF FlowInv, TypeOK, Stage
<1>6. InvoiceInv' /\ AttemptInv'
  BY <1>1, <1>2 DEF FlowInv, InvoiceInv, AttemptInv
<1>7. CountInv'
  <2>1. Cardinality(Announced(j)') = Cardinality(Announced(j)) + 1 /\ Cardinality(Announced(j)) \in Nat
    BY <1>3, ReachedFinite, FS_AddElement DEF Announced
  <2>2. succeeded[j] \in Nat /\ succeeded' = succeeded
    BY <1>1 DEF FlowInv, TypeOK
  <2>3. succeeded'[j] + Cardinality(Announced(j)') <= initiated'[j]
    BY <1>1, <1>4, <2>1, <2>2 DEF FlowInv, CountInv
  <2>. QED
    BY <1>3, <1>4, <2>2, <2>3 DEF FlowInv, CountInv
<1>8. PaidInv'
  BY <1>1, <1>4 DEF FlowInv, PaidInv
<1>9. OnlyTrueSuccess'
  BY <1>1, <1>3 DEF FlowInv, OnlyTrueSuccess, Successful, Paying
<1>. QED
  BY <1>5, <1>6, <1>7, <1>8, <1>9 DEF FlowInv

\* A new attempt is made only when there is none or the last was refunded, and only for a
\* request that was announced.
LEMMA PayStep ==
  ASSUME FlowInv, NEW r \in Request, Pay(r)
  PROVE  FlowInv'
<1>0. PICK j \in Invoice : invoice[r] = j
  BY DEF Pay, FlowInv, InvoiceInv
<1>. DEFINE a == attempts[j]
            b == attempts'[j]
<1>1. /\ stage[r] = "ready" /\ stage' = [stage EXCEPT ![r] = "awaiting"]
      /\ operation' = [operation EXCEPT ![r] = Len(b)]
      /\ UNCHANGED <<invoice, tracker, initiated, succeeded, crashes>>
      /\ ~Paying(j, "pending")
      /\ attempts' = IF Paying(j, "succeeded") THEN attempts
                     ELSE [attempts EXCEPT ![j] = Append(@, "pending")]
  BY <1>0 DEF Pay, Enter, FlowInv, events
<1>2. /\ stage'[r] = "awaiting"
      /\ \A q \in Request \ {r} : stage'[q] = stage[q]
      /\ \A i, S : /\ Reached(i, S)' \ {r} = Reached(i, S) \ {r}
                   /\ r \in Reached(i, S)' <=> invoice'[r] = i /\ "awaiting" \in S
                   /\ r \in Reached(i, S) <=> invoice[r] = i /\ stage[r] \in S
  BY <1>1, OwnStep DEF FlowInv
<1>3. \A i \in Invoice : Announced(i)' = Announced(i) /\ Successful(i)' = Successful(i)
  <2>1. \A i, S : (r \in Reached(i, S)' <=> r \in Reached(i, S)) => Reached(i, S)' = Reached(i, S)
    BY <1>2, OneApart
  <2>. QED
    BY <1>1, <1>2, <2>1 DEF Announced, Successful
<1>4. /\ a \in Seq(Attempt) /\ Len(a) \in Nat /\ DOMAIN a = 1 .. Len(a)
      /\ "pending" \in Attempt
      /\ \A k \in 1 .. Len(a) - 1 : a[k] = "refunded"
  BY <1>1 DEF FlowInv, TypeOK, AttemptInv, Attempt
<1>5. /\ b \in Seq(Attempt) /\ b # <<>> /\ Len(b) \in 1 .. Len(b) /\ Len(b) >= Len(a)
      /\ \A k \in 1 .. Len(b) - 1 : b[k] = "refunded"
      /\ Paying(j, "succeeded") => b = a
      /\ \A i \in Invoice \ {j} : attempts'[i] = attempts[i]
      /\ attempts' \in [Invoice -> Seq(Attempt)]
  <2>1. CASE Paying(j, "succeeded")
    BY <1>1, <1>4, <2>1, EmptySeq DEF FlowInv, TypeOK, Paying
  <2>2. CASE ~Paying(j, "succeeded")
    <3>1. /\ b = Append(a, "pending") /\ attempts' = [attempts EXCEPT ![j] = Append(@, "pending")]
          /\ \A i \in Invoice \ {j} : attempts'[i] = attempts[i]
      BY <1>1, <2>2 DEF FlowInv, TypeOK
    <3>2. /\ b \in Seq(Attempt) /\ b # <<>> /\ Len(b) = Len(a) + 1
          /\ \A k \in 1 .. Len(a) : b[k] = a[k]
      BY <1>4, <3>1, AppendProperties
    <3>3. Len(a) > 0 => a[Len(a)] = "refunded"
      <4>1. ASSUME Len(a) > 0 PROVE a # <<>> /\ a[Len(a)] \in Attempt
        BY <1>4, <4>1
      <4>. QED
        BY <1>1, <2>2, <4>1 DEF Paying, Attempt
    <3>4. \A k \in 1 .. Len(b) - 1 : b[k] = "refunded"
      <4>. HIDE DEF a, b
      <4>. QED
        BY <1>4, <3>2, <3>3
    <3>5. attempts' \in [Invoice -> Seq(Attempt)]
      BY <1>1, <3>1, <3>2 DEF FlowInv, TypeOK
    <3>6. Len(b) \in 1 .. Len(b) /\ Len(b) >= Len(a)
      BY <1>4, <3>2
    <3>. QED
      BY <2>2, <3>1, <3>2, <3>4, <3>5, <3>6
  <2>. QED
    BY <2>1, <2>2
<1>6. TypeOK'
  <2>1. operation' \in [Request -> Nat] /\ operation'[r] = Len(b)
        /\ \A q \in Request \ {r} : operation'[q] = operation[q]
    BY <1>1, <1>5 DEF FlowInv, TypeOK
  <2>2. \A i \in Invoice : DOMAIN attempts[i] \subseteq DOMAIN attempts'[i]
    BY <1>4, <1>5
  <2>3. \A q \in Request : stage'[q] = "awaiting" => operation'[q] \in DOMAIN attempts'[invoice'[q]]
    <3>1. operation'[r] \in DOMAIN attempts'[j]
      BY <1>5, <2>1
    <3>2. ASSUME NEW q \in Request \ {r}, stage[q] = "awaiting"
          PROVE  operation[q] \in DOMAIN attempts'[invoice[q]]
      BY <2>2, <3>2 DEF FlowInv, TypeOK, InvoiceInv
    <3>. QED
      BY <1>0, <1>1, <1>2, <2>1, <3>1, <3>2
  <2>. QED
    BY <1>1, <1>2, <1>5, <2>1, <2>3 DEF FlowInv, TypeOK, Stage
<1>7. InvoiceInv' /\ AttemptInv'
  <2>1. InvoiceInv'
    BY <1>0, <1>1, <1>2 DEF FlowInv, InvoiceInv
  <2>2. \A i \in Invoice \ {j} : \A k \in 1 .. Len(attempts'[i]) - 1 : attempts'[i][k] = "refunded"
    <3>. HIDE DEF b
    <3>. QED
      BY <1>5 DEF FlowInv, AttemptInv
  <2>3. \A k \in 1 .. Len(attempts'[j]) - 1 : attempts'[j][k] = "refunded"
    BY <1>5
  <2>. QED
    BY <2>1, <2>2, <2>3, Zenon DEF AttemptInv
<1>8. CountInv'
  BY <1>1, <1>3 DEF FlowInv, CountInv
<1>9. PaidInv'
  <2>1. r \in Announced(j)
    BY <1>0, <1>1 DEF Announced, Reached
  <2>2. IsFiniteSet(Announced(j)) /\ Cardinality(Announced(j)) \in Nat
    BY ReachedFinite DEF Announced
  <2>3. Cardinality(Announced(j)) # 0
    BY <2>1, <2>2, FS_EmptySet
  <2>4. initiated[j] > 0
    BY <1>1, <2>2, <2>3 DEF FlowInv, CountInv, TypeOK
  <2>. QED
    BY <1>1, <1>5, <2>4 DEF FlowInv, PaidInv
<1>10. OnlyTrueSuccess'
  BY <1>1, <1>3, <1>5 DEF FlowInv, OnlyTrueSuccess, Successful, Paying
<1>. QED
  BY <1>6, <1>7, <1>8, <1>9, <1>10 DEF FlowInv

\* A success ends a request that was announced, and is true of the payment.
LEMMA SucceedStep ==
  ASSUME FlowInv, NEW r \in Request, Succeed(r)
  PROVE  FlowInv'
<1>0. PICK j \in Invoice : invoice[r] = j
  BY DEF Succeed, FlowInv, InvoiceInv
<1>1. /\ stage[r] = "awaiting" /\ stage' = [stage EXCEPT ![r] = "succeeded"]
      /\ succeeded' = [succeeded EXCEPT ![j] = @ + 1]
      /\ UNCHANGED <<invoice, attempts, operation, initiated, crashes>>
      /\ tracker' \in [Request -> {"none", "Initiated", "Succeeded"}]
      /\ PaymentOf(r) = "succeeded"
  BY <1>0 DEF Succeed, Enter, FlowInv, TypeOK
<1>2. /\ stage'[r] = "succeeded"
      /\ \A q \in Request \ {r} : stage'[q] = stage[q]
      /\ \A i, S : /\ Reached(i, S)' \ {r} = Reached(i, S) \ {r}
                   /\ r \in Reached(i, S)' <=> invoice'[r] = i /\ "succeeded" \in S
                   /\ r \in Reached(i, S) <=> invoice[r] = i /\ stage[r] \in S
  BY <1>1, OwnStep DEF FlowInv
<1>3. /\ Announced(j)' = Announced(j) \ {r} /\ r \in Announced(j)
      /\ Successful(j)' = Successful(j) \cup {r} /\ r \notin Successful(j)
      /\ \A i \in Invoice \ {j} : Announced(i)' = Announced(i) /\ Successful(i)' = Successful(i)
  <2>1. \A i, S : /\ (r \in Reached(i, S)' <=> r \in Reached(i, S)) => Reached(i, S)' = Reached(i, S)
                  /\ r \in Reached(i, S)' /\ r \notin Reached(i, S) => Reached(i, S)' = Reached(i, S) \cup {r}
                  /\ r \notin Reached(i, S)' /\ r \in Reached(i, S) => Reached(i, S)' = Reached(i, S) \ {r}
    BY <1>2, OneApart
  <2>. QED
    BY <1>0, <1>1, <1>2, <2>1 DEF Announced, Successful
<1>4. /\ succeeded' \in [Invoice -> Nat] /\ succeeded'[j] = succeeded[j] + 1
      /\ \A i \in Invoice \ {j} : succeeded'[i] = succeeded[i]
      /\ \A i \in Invoice : succeeded[i] \in Nat /\ initiated[i] \in Nat
  BY <1>1 DEF FlowInv, TypeOK
<1>5. TypeOK'
  BY <1>1, <1>2, <1>4 DEF FlowInv, TypeOK, Stage
<1>6. InvoiceInv' /\ AttemptInv' /\ PaidInv'
  BY <1>1, <1>2 DEF FlowInv, InvoiceInv, AttemptInv, PaidInv
<1>7. CountInv'
  <2>1. /\ IsFiniteSet(Announced(j)) /\ Cardinality(Announced(j)) \in Nat
        /\ IsFiniteSet(Successful(j)) /\ Cardinality(Successful(j)) \in Nat
    BY ReachedFinite DEF Announced, Successful
  <2>2. Cardinality(Announced(j)') = Cardinality(Announced(j)) - 1
    BY <1>3, <2>1, FS_RemoveElement
  <2>3. Cardinality(Successful(j)') = Cardinality(Successful(j)) + 1
    BY <1>3, <2>1, FS_AddElement
  <2>4. /\ Cardinality(Successful(j)') <= succeeded'[j]
        /\ succeeded'[j] + Cardinality(Announced(j)') <= initiated'[j]
    BY <1>1, <1>4, <2>1, <2>2, <2>3 DEF FlowInv, CountInv
  <2>. QED
    BY <1>1, <1>3, <1>4, <2>4 DEF FlowInv, CountInv
<1>8. OnlyTrueSuccess'
  <2>1. Paying(j, "succeeded")
    BY <1>0, <1>1, SuccessIsLast DEF FlowInv
  <2>. QED
    BY <1>1, <1>3, <1>4, <2>1 DEF FlowInv, OnlyTrueSuccess, Successful, Paying
<1>. QED
  BY <1>5, <1>6, <1>7, <1>8 DEF FlowInv

\* The client ends a pending attempt, which is no attempt anybody was told about.
LEMMA SettleStep ==
  ASSUME FlowInv, NEW j \in Invoice, NEW s \in {"succeeded", "refunded"}, Settle(j, s)
  PROVE  FlowInv'
<1>. DEFINE a == attempts[j]
            b == attempts'[j]
<1>1. /\ a \in Seq(Attempt) /\ a # <<>> /\ a[Len(a)] = "pending"
      /\ b = [a EXCEPT ![Len(a)] = s]
      /\ \A i \in Invoice \ {j} : attempts'[i] = attempts[i]
      /\ attempts' = [attempts EXCEPT ![j] = b]
      /\ UNCHANGED <<stage, invoice, tracker, operation, initiated, succeeded, crashes>>
  BY DEF Settle, Paying, FlowInv, TypeOK, events
<1>2. Len(a) \in 1 .. Len(a)
  BY <1>1
<1>3. /\ b \in Seq(Attempt) /\ Len(b) = Len(a) /\ b # <<>> /\ DOMAIN b = DOMAIN a
      /\ \A k \in 1 .. Len(a) - 1 : b[k] = a[k]
  BY <1>1, <1>2, ExceptSeq DEF Attempt
<1>4. TypeOK'
  <2>1. attempts' \in [Invoice -> Seq(Attempt)]
    BY <1>1, <1>3 DEF FlowInv, TypeOK
  <2>2. \A i \in Invoice : DOMAIN attempts'[i] = DOMAIN attempts[i]
    BY <1>1, <1>3
  <2>3. \A q \in Request : stage'[q] = "awaiting" => operation'[q] \in DOMAIN attempts'[invoice'[q]]
    BY <1>1, <2>2 DEF FlowInv, TypeOK, InvoiceInv
  <2>. QED
    BY <1>1, <2>1, <2>3 DEF FlowInv, TypeOK
<1>5. InvoiceInv' /\ PaidInv'
  BY <1>1, <1>3 DEF FlowInv, InvoiceInv, PaidInv
<1>6. AttemptInv'
  BY <1>1, <1>3 DEF FlowInv, AttemptInv
<1>7. CountInv'
  BY <1>1 DEF FlowInv, CountInv, Announced, Successful, Reached
<1>8. OnlyTrueSuccess'
  <2>1. ~Paying(j, "succeeded")
    BY <1>1 DEF Paying
  <2>. QED
    BY <1>1, <2>1 DEF FlowInv, OnlyTrueSuccess, Paying, Reached
<1>. QED
  BY <1>4, <1>5, <1>6, <1>7, <1>8 DEF FlowInv

\* A crash drops requests and leaves the payments.
LEMMA CrashStep ==
  ASSUME FlowInv, Crash
  PROVE  FlowInv'
<1>1. /\ UNCHANGED <<invoice, tracker, attempts, operation, initiated, succeeded>>
      /\ crashes' = crashes + 1
      /\ stage' \in [Request -> Stage]
      /\ \A r \in Request : stage'[r] = stage[r] \/ stage'[r] = "dropped"
  BY DEF Crash, events, FlowInv, TypeOK, Stage
<1>2. TypeOK' /\ InvoiceInv' /\ AttemptInv' /\ PaidInv'
  BY <1>1 DEF FlowInv, TypeOK, InvoiceInv, AttemptInv, PaidInv
<1>3. \A i \in Invoice : Announced(i)' \subseteq Announced(i) /\ Successful(i)' \subseteq Successful(i)
  BY <1>1 DEF Announced, Successful, Reached
<1>4. CountInv'
  BY <1>1, <1>3, FewerCount DEF FlowInv, events
<1>5. OnlyTrueSuccess'
  BY <1>1, <1>3 DEF FlowInv, OnlyTrueSuccess, Successful, Paying
<1>. QED
  BY <1>2, <1>4, <1>5 DEF FlowInv

\* The flow keeps its invariant, whoever takes its steps.
LEMMA FlowStep ==
  ASSUME FlowInv, [Next]_vars
  PROVE  FlowInv'
<1>1. ASSUME NEW r \in Request, HandlerStep(r)
      PROVE  FlowInv'
  BY <1>1, QuietStep, InitiateStep, PayStep, SucceedStep DEF HandlerStep, HandlerAdvances
<1>2. ASSUME NEW i \in Invoice, NEW s \in {"succeeded", "refunded"}, Settle(i, s)
      PROVE  FlowInv'
  BY <1>2, SettleStep
<1>3. CASE Crash
  BY <1>3, CrashStep
<1>4. CASE UNCHANGED vars
  <2>1. UNCHANGED <<stage, invoice, tracker, attempts, operation, initiated, succeeded, crashes>>
    BY <1>4 DEF vars, events
  <2>2. TypeOK' /\ InvoiceInv' /\ AttemptInv' /\ PaidInv'
    BY <2>1 DEF FlowInv, TypeOK, InvoiceInv, AttemptInv, PaidInv
  <2>3. \A i \in Invoice : Announced(i)' = Announced(i) /\ Successful(i)' = Successful(i)
    BY <2>1 DEF Announced, Successful, Reached
  <2>4. CountInv' /\ OnlyTrueSuccess'
    BY <2>1, <2>3 DEF FlowInv, CountInv, OnlyTrueSuccess, Successful, Paying
  <2>. QED
    BY <2>2, <2>4 DEF FlowInv
<1>. QED
  BY <1>1, <1>2, <1>3, <1>4 DEF Next

\* No request has been announced or paid for at the start.
LEMMA FlowInit == Init => FlowInv
<1>. SUFFICES ASSUME Init PROVE FlowInv
  OBVIOUS
<1>1. TypeOK /\ InvoiceInv /\ PaidInv
  BY PaymentFlowAssumption DEF Init, TypeOK, Stage, InvoiceInv, PaidInv
<1>2. AttemptInv
  BY DEF Init, AttemptInv
<1>3. \A i \in Invoice : Announced(i) = {} /\ Successful(i) = {}
  BY DEF Init, Announced, Successful, Reached
<1>4. CountInv
  <2>1. Cardinality({}) = 0
    BY FS_EmptySet
  <2>2. \A i \in Invoice : succeeded[i] = 0 /\ initiated[i] = 0
    BY DEF Init
  <2>. QED
    BY <1>3, <2>1, <2>2 DEF CountInv
<1>5. OnlyTrueSuccess
  BY <1>3 DEF Init, OnlyTrueSuccess, Successful
<1>. QED
  BY <1>1, <1>2, <1>4, <1>5 DEF FlowInv

\* What FlowInv gives is what the events promise.
LEMMA FlowAccounts == FlowInv => EventsAccount
<1>. SUFFICES ASSUME FlowInv, NEW i \in Invoice
              PROVE  /\ Cardinality(Successful(i)) <= succeeded[i]
                     /\ succeeded[i] <= initiated[i]
                     /\ attempts[i] # <<>> => initiated[i] > 0
  BY DEF EventsAccount, Successful
<1>1. Cardinality(Announced(i)) \in Nat
  BY ReachedFinite DEF Announced
<1>2. succeeded[i] \in Nat /\ initiated[i] \in Nat
  BY DEF FlowInv, TypeOK
<1>. QED
  BY <1>1, <1>2 DEF FlowInv, CountInv, PaidInv

\* Whoever sends the requests, what an answer or an event says of a success is true, and
\* the events of a payment id account for its requests and its money.
THEOREM FlowIsTrue == Spec => [](TypeOK /\ OnlyTrueSuccess /\ EventsAccount)
<1>1. FlowInv => TypeOK /\ OnlyTrueSuccess /\ EventsAccount
  BY FlowAccounts DEF FlowInv
<1>. QED
  BY <1>1, FlowInit, FlowStep, PTL DEF Spec

\* A request is answered with a success, and a success is published, only for an invoice
\* that was paid.
THEOREM NoFalseSuccess == Spec => []OnlyTrueSuccess
BY FlowIsTrue, PTL

\* No money moves unannounced, and no more is announced than was asked for or paid.
THEOREM EventsAddUp == Spec => []EventsAccount
BY FlowIsTrue, PTL

-----------------------------------------------------------------------------
(* The flow keeps what InvoicePayments promises. *)

\* A request that does not come to be answered leaves the answers as they are.
LEMMA SameAnswers ==
  ASSUME TypeOK, NEW r \in Request, NEW s, stage' = [stage EXCEPT ![r] = s],
         \A q \in Request \ {r} : invoice'[q] = invoice[q],
         s # "answered", stage[r] # "answered"
  PROVE  [i \in Invoice |-> AnsweredOf(i)]' = [i \in Invoice |-> AnsweredOf(i)]
<1>1. \A i \in Invoice : Reached(i, {"answered"})' = Reached(i, {"answered"})
  <2>1. \A i, S : /\ Reached(i, S)' \ {r} = Reached(i, S) \ {r}
                  /\ r \in Reached(i, S)' <=> invoice'[r] = i /\ s \in S
                  /\ r \in Reached(i, S) <=> invoice[r] = i /\ stage[r] \in S
    BY OwnStep
  <2>2. \A i : r \notin Reached(i, {"answered"})' /\ r \notin Reached(i, {"answered"})
    BY <2>1
  <2>. QED
    BY <2>1, <2>2, OneApart
<1>. QED
  BY <1>1 DEF AnsweredOf

\* Money that stays where it is.
LEMMA SameMoney ==
  ASSUME UNCHANGED attempts
  PROVE  [i \in Invoice |-> MoneyOf(i)]' = [i \in Invoice |-> MoneyOf(i)]
BY DEF MoneyOf

\* Most steps of a request are its own affair.
LEMMA QuietKeepsPromise ==
  ASSUME FlowInv, NEW r \in Request,
         \/ ResolveFails(r) \/ RejectAmount(r) \/ StartFails(r) \/ Refunded(r) \/ StreamFails(r)
         \/ DropHandler(r) \/ SelectGateway(r)
         \/ \E i \in Invoice : Resolve(r, i)
  PROVE  UNCHANGED Payments!promiseVars
<1>1. /\ UNCHANGED <<attempts, initiated, succeeded>>
      /\ \A q \in Request \ {r} : invoice'[q] = invoice[q]
      /\ stage[r] # "answered"
      /\ \E s \in Stage \ {"answered"} : stage' = [stage EXCEPT ![r] = s]
  BY DEF ResolveFails, RejectAmount, StartFails, Refunded, StreamFails, DropHandler, SelectGateway,
         Resolve, Enter, Stage, Underway, events, FlowInv, TypeOK
<1>2. [i \in Invoice |-> AnsweredOf(i)]' = [i \in Invoice |-> AnsweredOf(i)]
  BY <1>1, SameAnswers DEF FlowInv
<1>3. [i \in Invoice |-> MoneyOf(i)]' = [i \in Invoice |-> MoneyOf(i)]
  BY <1>1, SameMoney
<1>. QED
  BY <1>1, <1>2, <1>3 DEF Payments!promiseVars

LEMMA InitiateAnnounces ==
  ASSUME FlowInv, NEW r \in Request, Initiate(r)
  PROVE  invoice[r] \in Invoice /\ Payments!Announce(invoice[r])
<1>1. /\ stage[r] = "resolved" /\ stage' = [stage EXCEPT ![r] = "initiated"]
      /\ initiated' = [initiated EXCEPT ![invoice[r]] = @ + 1]
      /\ UNCHANGED <<invoice, attempts, succeeded>>
  BY DEF Initiate, Enter
<1>2. [i \in Invoice |-> AnsweredOf(i)]' = [i \in Invoice |-> AnsweredOf(i)]
  BY <1>1, SameAnswers DEF FlowInv
<1>3. [i \in Invoice |-> MoneyOf(i)]' = [i \in Invoice |-> MoneyOf(i)]
  BY <1>1, SameMoney
<1>4. invoice[r] \in Invoice
  BY <1>1 DEF FlowInv, InvoiceInv
<1>. QED
  BY <1>1, <1>2, <1>3, <1>4 DEF Payments!Announce

\* Only a request that was announced starts a payment, and only of an invoice that is
\* neither paid nor being paid.
LEMMA PayStarts ==
  ASSUME FlowInv, NEW r \in Request, Pay(r)
  PROVE  invoice[r] \in Invoice /\ (Payments!Start(invoice[r]) \/ UNCHANGED Payments!promiseVars)
<1>. DEFINE j == invoice[r]
            a == attempts[j]
            Money == [i \in Invoice |-> MoneyOf(i)]
<1>1. /\ stage[r] = "ready" /\ stage' = [stage EXCEPT ![r] = "awaiting"]
      /\ UNCHANGED <<invoice, initiated, succeeded>>
      /\ ~Paying(j, "pending")
      /\ attempts' = IF Paying(j, "succeeded") THEN attempts
                     ELSE [attempts EXCEPT ![j] = Append(@, "pending")]
  BY DEF Pay, Enter, events
<1>2. j \in Invoice
  BY <1>1 DEF FlowInv, InvoiceInv
<1>3. [i \in Invoice |-> AnsweredOf(i)]' = [i \in Invoice |-> AnsweredOf(i)]
  BY <1>1, SameAnswers DEF FlowInv
<1>4. CASE Paying(j, "succeeded")
  <2>1. Money' = Money
    BY <1>1, <1>4, SameMoney
  <2>. QED
    BY <1>1, <1>2, <1>3, <2>1 DEF Payments!promiseVars
<1>5. CASE ~Paying(j, "succeeded")
  <2>1. /\ a \in Seq(Attempt) /\ attempts' = [attempts EXCEPT ![j] = Append(@, "pending")]
        /\ attempts \in [Invoice -> Seq(Attempt)] /\ Len(a) \in Nat
    BY <1>1, <1>2, <1>5 DEF FlowInv, TypeOK
  <2>2. MoneyOf(j) \in {"none", "refunded"}
    <3>1. a # <<>> => a[Len(a)] \in Attempt
      BY <2>1
    <3>. QED
      BY <1>1, <1>5, <3>1 DEF MoneyOf, Paying, Attempt
  <2>3. /\ attempts'[j] # <<>> /\ attempts'[j][Len(attempts'[j])] = "pending"
        /\ \A i \in Invoice \ {j} : attempts'[i] = attempts[i]
    <3>1. attempts'[j] = Append(a, "pending") /\ \A i \in Invoice \ {j} : attempts'[i] = attempts[i]
      BY <1>2, <2>1
    <3>2. "pending" \in Attempt
      BY DEF Attempt
    <3>3. /\ Append(a, "pending") # <<>> /\ Len(Append(a, "pending")) = Len(a) + 1
          /\ Append(a, "pending")[Len(a) + 1] = "pending"
      BY <2>1, <3>2, AppendProperties
    <3>. QED
      BY <3>1, <3>3
  <2>4. Money' = [Money EXCEPT ![j] = "pending"]
    BY <1>2, <2>3 DEF MoneyOf
  <2>5. initiated[j] > 0
    <3>1. r \in Announced(j)
      BY <1>1 DEF Announced, Reached
    <3>2. IsFiniteSet(Announced(j)) /\ Cardinality(Announced(j)) \in Nat
      BY ReachedFinite DEF Announced
    <3>3. Cardinality(Announced(j)) # 0
      BY <3>1, <3>2, FS_EmptySet
    <3>. QED
      BY <1>2, <3>2, <3>3 DEF FlowInv, CountInv, TypeOK
  <2>6. Payments!Start(j)
    BY <1>1, <1>2, <1>3, <2>2, <2>4, <2>5 DEF Payments!Start
  <2>. QED
    BY <1>2, <2>6
<1>. QED
  BY <1>4, <1>5

\* The attempt that has succeeded is the last one, and the request that tells of it was
\* announced and has not told yet.
LEMMA SucceedTells ==
  ASSUME FlowInv, NEW r \in Request, Succeed(r)
  PROVE  invoice[r] \in Invoice /\ Payments!Tell(invoice[r])
<1>. DEFINE j == invoice[r]
<1>1. /\ stage[r] = "awaiting" /\ stage' = [stage EXCEPT ![r] = "succeeded"]
      /\ succeeded' = [succeeded EXCEPT ![j] = @ + 1]
      /\ UNCHANGED <<invoice, attempts, initiated>>
      /\ PaymentOf(r) = "succeeded"
  BY DEF Succeed, Enter
<1>2. j \in Invoice
  BY <1>1 DEF FlowInv, InvoiceInv
<1>3. [i \in Invoice |-> AnsweredOf(i)]' = [i \in Invoice |-> AnsweredOf(i)]
  BY <1>1, SameAnswers DEF FlowInv
<1>4. [i \in Invoice |-> MoneyOf(i)]' = [i \in Invoice |-> MoneyOf(i)]
  BY <1>1, SameMoney
<1>5. MoneyOf(j) = "succeeded"
  BY <1>1, SuccessIsLast DEF FlowInv, Paying, MoneyOf
<1>6. succeeded[j] < initiated[j]
  <2>1. r \in Announced(j)
    BY <1>1 DEF Announced, Reached
  <2>2. IsFiniteSet(Announced(j)) /\ Cardinality(Announced(j)) \in Nat
    BY ReachedFinite DEF Announced
  <2>3. Cardinality(Announced(j)) # 0
    BY <2>1, <2>2, FS_EmptySet
  <2>4. succeeded[j] \in Nat /\ initiated[j] \in Nat /\ succeeded[j] + Cardinality(Announced(j)) <= initiated[j]
    BY <1>2 DEF FlowInv, CountInv, TypeOK
  <2>. QED
    BY <2>2, <2>3, <2>4
<1>. QED
  BY <1>1, <1>2, <1>3, <1>4, <1>5, <1>6 DEF Payments!Tell

\* Every request that was answered has told, and so has the one that is answered now.
LEMMA AnswerAnswers ==
  ASSUME FlowInv, NEW r \in Request, Answer(r)
  PROVE  invoice[r] \in Invoice /\ Payments!Answer(invoice[r])
<1>. DEFINE Answered(i) == Reached(i, {"answered"})
<1>0. PICK j \in Invoice : invoice[r] = j
  BY DEF Answer, FlowInv, InvoiceInv
<1>1. /\ stage[r] = "succeeded" /\ stage' = [stage EXCEPT ![r] = "answered"]
      /\ UNCHANGED <<invoice, attempts, initiated, succeeded>>
  BY DEF Answer, Enter, events
<1>2. /\ Answered(j)' = Answered(j) \cup {r} /\ r \notin Answered(j)
      /\ \A i \in Invoice \ {j} : Answered(i)' = Answered(i)
  <2>1. \A i, S : /\ Reached(i, S)' \ {r} = Reached(i, S) \ {r}
                  /\ r \in Reached(i, S)' <=> invoice'[r] = i /\ "answered" \in S
                  /\ r \in Reached(i, S) <=> invoice[r] = i /\ stage[r] \in S
    BY <1>1, OwnStep DEF FlowInv
  <2>2. \A i, S : /\ (r \in Reached(i, S)' <=> r \in Reached(i, S)) => Reached(i, S)' = Reached(i, S)
                  /\ r \in Reached(i, S)' /\ r \notin Reached(i, S)
                       => Reached(i, S)' = Reached(i, S) \cup {r}
    BY <2>1, OneApart
  <2>3. \A i : (r \in Answered(i)' <=> i = j) /\ r \notin Answered(i)
    BY <1>0, <1>1, <2>1
  <2>. QED
    BY <2>2, <2>3
<1>3. /\ IsFiniteSet(Answered(j)) /\ Cardinality(Answered(j)) \in Nat
      /\ Cardinality(Answered(j)') = Cardinality(Answered(j)) + 1
  BY <1>2, ReachedFinite, FS_AddElement
<1>4. Cardinality(Answered(j)) < succeeded[j]
  <2>1. Answered(j)' \subseteq Successful(j)
    BY <1>0, <1>1, <1>2 DEF Successful, Reached
  <2>2. Cardinality(Answered(j)') <= Cardinality(Successful(j)) /\ Cardinality(Successful(j)) \in Nat
    BY <2>1, ReachedFinite, FS_Subset DEF Successful
  <2>. QED
    BY <1>3, <2>2 DEF FlowInv, CountInv, TypeOK
<1>5. [i \in Invoice |-> AnsweredOf(i)]' = [[i \in Invoice |-> AnsweredOf(i)] EXCEPT ![j] = @ + 1]
  <2>1. \A i \in Invoice : AnsweredOf(i)' = IF i = j THEN AnsweredOf(j) + 1 ELSE AnsweredOf(i)
    BY <1>2, <1>3 DEF AnsweredOf
  <2>. QED
    BY <2>1
<1>6. [i \in Invoice |-> MoneyOf(i)]' = [i \in Invoice |-> MoneyOf(i)]
  BY <1>1, SameMoney
<1>7. AnsweredOf(j) < succeeded[j]
  BY <1>4 DEF AnsweredOf
<1>. QED
  BY <1>0, <1>1, <1>5, <1>6, <1>7 DEF Payments!Answer

\* The client ends a payment, and a crash ends what requests are under way.
LEMMA OthersKeepPromise ==
  ASSUME FlowInv
  PROVE  /\ \A i \in Invoice, s \in {"succeeded", "refunded"} : Settle(i, s) => Payments!End(i, s)
         /\ Crash => UNCHANGED Payments!promiseVars
<1>1. ASSUME NEW i \in Invoice, NEW s \in {"succeeded", "refunded"}, Settle(i, s)
      PROVE  Payments!End(i, s)
  <2>1. /\ attempts[i] # <<>> /\ attempts[i][Len(attempts[i])] = "pending"
        /\ attempts' = [attempts EXCEPT ![i] = [attempts[i] EXCEPT ![Len(attempts[i])] = s]]
        /\ UNCHANGED <<stage, invoice, initiated, succeeded>>
        /\ attempts \in [Invoice -> Seq(Attempt)]
    BY <1>1 DEF Settle, Paying, events, FlowInv, TypeOK
  <2>2. /\ attempts[i] \in Seq(Attempt) /\ Len(attempts[i]) \in Nat /\ s \in Attempt
        /\ Len(attempts[i]) \in DOMAIN attempts[i]
    BY <2>1 DEF Attempt
  <2>3. /\ attempts'[i] # <<>> /\ attempts'[i][Len(attempts'[i])] = s
        /\ \A k \in Invoice \ {i} : attempts'[k] = attempts[k]
    <3>1. attempts'[i] = [attempts[i] EXCEPT ![Len(attempts[i])] = s]
      BY <2>1
    <3>2. Len(attempts'[i]) = Len(attempts[i]) /\ attempts'[i][Len(attempts[i])] = s
      BY <2>2, <3>1, ExceptSeq
    <3>. QED
      BY <2>1, <2>2, <3>2
  <2>4. [k \in Invoice |-> MoneyOf(k)]' = [[k \in Invoice |-> MoneyOf(k)] EXCEPT ![i] = s]
    BY <2>3 DEF MoneyOf
  <2>5. MoneyOf(i) = "pending"
    BY <2>1 DEF MoneyOf
  <2>6. [k \in Invoice |-> AnsweredOf(k)]' = [k \in Invoice |-> AnsweredOf(k)]
    BY <2>1 DEF AnsweredOf, Reached
  <2>. QED
    BY <2>1, <2>4, <2>5, <2>6 DEF Payments!End
<1>2. ASSUME Crash
      PROVE  UNCHANGED Payments!promiseVars
  <2>1. /\ UNCHANGED <<invoice, attempts, initiated, succeeded>>
        /\ \A r \in Request : stage'[r] = "answered" <=> stage[r] = "answered"
    BY <1>2 DEF Crash, Underway, events
  <2>2. [i \in Invoice |-> AnsweredOf(i)]' = [i \in Invoice |-> AnsweredOf(i)]
    BY <2>1 DEF AnsweredOf, Reached
  <2>3. [i \in Invoice |-> MoneyOf(i)]' = [i \in Invoice |-> MoneyOf(i)]
    BY <2>1, SameMoney
  <2>. QED
    BY <2>1, <2>2, <2>3 DEF Payments!promiseVars
<1>. QED
  BY <1>1, <1>2

\* Every step of the flow is one of the promise or invisible to it.
LEMMA StepKeepsPromise ==
  ASSUME FlowInv, [Next]_vars
  PROVE  [Payments!Next]_(Payments!promiseVars)
<1>1. CASE UNCHANGED vars
  BY <1>1 DEF vars, events, Payments!promiseVars, MoneyOf, AnsweredOf, Reached
<1>2. ASSUME NEW r \in Request, HandlerStep(r)
      PROVE  [Payments!Next]_(Payments!promiseVars)
  BY <1>2, QuietKeepsPromise, InitiateAnnounces, PayStarts, SucceedTells, AnswerAnswers
     DEF HandlerStep, HandlerAdvances, Payments!Next
<1>3. ASSUME NEW i \in Invoice, NEW s \in {"succeeded", "refunded"}, Settle(i, s)
      PROVE  Payments!Next
  BY <1>3, OthersKeepPromise DEF Payments!Next
<1>4. CASE Crash
  BY <1>4, OthersKeepPromise
<1>. QED
  BY <1>1, <1>2, <1>3, <1>4 DEF Next

\* However many requests name an invoice and whatever becomes of them, its money moves only
\* after an announcement, comes back or is spent once and for all, and only then is a success
\* told, at most once for every announcement, and answered, at most once for every telling.
THEOREM FlowKeepsPromise == Spec => ImplementsPayments
<1>1. Init => Payments!Init
  <2>. SUFFICES ASSUME Init PROVE Payments!Init
    OBVIOUS
  <2>1. /\ initiated = [i \in Invoice |-> 0] /\ succeeded = [i \in Invoice |-> 0]
        /\ \A i \in Invoice : attempts[i] = <<>>
        /\ \A r \in Request : stage[r] = "new"
    BY DEF Init
  <2>2. \A i \in Invoice : MoneyOf(i) = "none"
    BY <2>1 DEF MoneyOf
  <2>3. \A i \in Invoice : AnsweredOf(i) = 0
    <3>1. \A i \in Invoice : Reached(i, {"answered"}) = {}
      BY <2>1 DEF Reached
    <3>. QED
      BY <3>1, FS_EmptySet DEF AnsweredOf
  <2>. QED
    BY <2>1, <2>2, <2>3 DEF Payments!Init
<1>2. FlowInv /\ [Next]_vars => [Payments!Next]_(Payments!promiseVars)
  BY StepKeepsPromise
<1>. QED
  BY <1>1, <1>2, FlowInit, FlowStep, PTL DEF Spec, ImplementsPayments, Payments!Spec

-----------------------------------------------------------------------------
(* The sessions *)

\* A message that has begun was read.
BegunInv ==
  \A c \in Connection : \A k \in DOMAIN Messages[c] :
    Messages[c][k] \in Request /\ stage[Messages[c][k]] # "new" => k <= read[c]

\* The loop is one message ahead of its replies at most.
LoopInv ==
  \A c \in Connection : /\ Len(replies[c]) <= read[c]
                        /\ read[c] <= Len(replies[c]) + 1
                        /\ read[c] <= Len(Messages[c])

\* A reply is one to the message at its place, which has ended.
ReplyInv ==
  \A c \in Connection : \A k \in DOMAIN Messages[c] :
    k \in DOMAIN replies[c] =>
      replies[c][k] \in ReplyId(Messages[c][k]) /\ Handled(Messages[c][k])

ReplyOf == Request \cup Garbled \cup {Nil}

SocketTypeOK ==
  /\ mode \in {"rest", "ws"}
  /\ session \in [Connection -> {"none", "open", "left", "closed", "lost"}]
  /\ read \in [Connection -> Nat]
  /\ replies \in [Connection -> Seq(ReplyOf)]

SessionsInv == FlowInv /\ SocketTypeOK /\ LoopInv /\ BegunInv /\ ReplyInv

\* A step of the sessions is one of the flow, or moves no request.
LEMMA SessionsStep ==
  ASSUME [SessionsNext]_allVars
  PROVE  [Next]_vars
<1>1. ASSUME NEW r \in Request, RestStep(r) \/ Advance(r) \/ LoseStream(r)
      PROVE  Next
  BY <1>1 DEF RestStep, Advance, LoseStream, HandlerStep, Next
<1>2. ASSUME NEW c \in Connection,
             Open(c) \/ Read(c) \/ Reply(c) \/ ReplyFails(c) \/ Close(c) \/ Leave(c)
      PROVE  UNCHANGED vars
  BY <1>2 DEF Open, Read, Reply, ReplyFails, Close, Leave
<1>3. ClientStep \/ Restart => Next
  BY DEF ClientStep, Restart, Next
<1>. QED
  BY <1>1, <1>2, <1>3 DEF SessionsNext, allVars

\* Whatever the sessions do is a behaviour of the flow.
THEOREM SessionsRunTheFlow == SessionsSpec => Spec
<1>1. SessionsInit => Init
  BY DEF SessionsInit
<1>. QED
  BY <1>1, SessionsStep, PTL DEF SessionsSpec, Spec

\* So is the promise of InvoicePayments, for requests over http and in sessions alike.
THEOREM SessionsKeepPromise == SessionsSpec => ImplementsPayments
BY SessionsRunTheFlow, FlowKeepsPromise, PTL

\* The sessions' messages are sequences.
LEMMA MessageSeq ==
  ASSUME NEW c \in Connection
  PROVE  /\ Messages[c] \in Seq(Request \cup Garbled)
         /\ Len(Messages[c]) \in Nat
         /\ DOMAIN Messages[c] = 1 .. Len(Messages[c])
<1>1. Messages[c] \in Seq(Request \cup Garbled)
  BY SessionsAssumption
<1>. QED
  BY <1>1

\* A request is at one position of one session.
LEMMA OnePosition ==
  ASSUME NEW c \in Connection, NEW d \in Connection,
         NEW k \in DOMAIN Messages[c], NEW l \in DOMAIN Messages[d],
         Messages[c][k] \in Request, Messages[c][k] = Messages[d][l]
  PROVE  c = d /\ k = l
<1>1. <<c, k>> \in Position /\ <<d, l>> \in Position
  <2>1. <<c, k>> \in {c} \X DOMAIN Messages[c] /\ <<d, l>> \in {d} \X DOMAIN Messages[d]
    OBVIOUS
  <2>. QED
    BY <2>1, Zenon DEF Position
<1>2. Message(<<c, k>>) = Messages[c][k] /\ Message(<<d, l>>) = Messages[d][l]
  BY DEF Message
<1>3. <<c, k>> = <<d, l>>
  BY <1>1, <1>2, SessionsAssumption
<1>. QED
  BY <1>3

\* A message of a session that is a request is one of its requests.
LEMMA MessageInSession ==
  ASSUME NEW c \in Connection, NEW k \in DOMAIN Messages[c], Messages[c][k] \in Request
  PROVE  Messages[c][k] \in InSession
<1>1. <<c, k>> \in Position
  <2>1. <<c, k>> \in {c} \X DOMAIN Messages[c]
    OBVIOUS
  <2>. QED
    BY <2>1, Zenon DEF Position
<1>2. Message(<<c, k>>) = Messages[c][k]
  BY DEF Message
<1>. QED
  BY <1>1, <1>2, Zenon DEF InSession

\* A handler moves its own request, and one that has ended no more.
LEMMA HandlerMoves ==
  ASSUME TypeOK, NEW r \in Request, HandlerStep(r)
  PROVE  \A q \in Request \ {r} : stage'[q] = stage[q]
<1>1. \E s : stage' = [stage EXCEPT ![r] = s]
  BY DEF HandlerStep, HandlerAdvances, Resolve, ResolveFails, Initiate, RejectAmount, SelectGateway,
         StartFails, Pay, Succeed, Refunded, Answer, StreamFails, DropHandler, Enter
<1>. QED
  BY <1>1 DEF TypeOK

\* What a session did stays true while no request of it moves but the one in hand.
LEMMA StageStep ==
  ASSUME SessionsInv, UNCHANGED <<read, replies>>,
         \A c \in Connection : \A k \in DOMAIN Messages[c] :
           LET m == Messages[c][k]
           IN m \in Request =>
                \/ stage'[m] = stage[m]
                \/ Len(replies[c]) < k /\ k <= read[c]
                \/ stage[m] \notin {"new", "answered", "rejected", "failed"}
  PROVE  LoopInv' /\ BegunInv' /\ ReplyInv'
<1>1. LoopInv'
  BY DEF SessionsInv, LoopInv
<1>2. BegunInv'
  BY DEF SessionsInv, BegunInv
<1>3. ReplyInv'
  <2>. SUFFICES ASSUME NEW c \in Connection, NEW k \in DOMAIN Messages[c], k \in DOMAIN replies[c]
                PROVE  replies[c][k] \in ReplyId(Messages[c][k]) /\ Handled(Messages[c][k])'
    BY DEF ReplyInv
  <2>1. replies[c][k] \in ReplyId(Messages[c][k]) /\ Handled(Messages[c][k])
    BY DEF SessionsInv, ReplyInv
  <2>2. k <= Len(replies[c]) /\ k \in Nat /\ Len(replies[c]) \in Nat
    BY DEF SessionsInv, SocketTypeOK
  <2>. QED
    BY <2>1, <2>2 DEF Handled
<1>. QED
  BY <1>1, <1>2, <1>3

\* The steps of requests, in a session or not, and of the process.
LEMMA RequestStep ==
  ASSUME SessionsInv, FlowInv',
         \/ \E r \in Request : RestStep(r) \/ Advance(r) \/ LoseStream(r)
         \/ ClientStep
         \/ Restart
  PROVE  SessionsInv'
<1>0. TypeOK
  BY DEF SessionsInv, FlowInv
<1>1. UNCHANGED <<read, replies>> /\ SocketTypeOK'
  BY DEF SessionsInv, SocketTypeOK, RestStep, Advance, LoseStream, ClientStep, Restart, sessionVars
<1>2. ASSUME NEW c \in Connection, NEW k \in DOMAIN Messages[c], Messages[c][k] \in Request
      PROVE  \/ stage'[Messages[c][k]] = stage[Messages[c][k]]
             \/ Len(replies[c]) < k /\ k <= read[c]
             \/ stage[Messages[c][k]] \notin {"new", "answered", "rejected", "failed"}
  <2>1. ASSUME NEW r \in Request, RestStep(r)
        PROVE  stage'[Messages[c][k]] = stage[Messages[c][k]]
    BY <1>0, <1>2, <2>1, HandlerMoves, MessageInSession DEF RestStep
  <2>2. ASSUME NEW r \in Request, Advance(r) \/ LoseStream(r)
        PROVE  \/ stage'[Messages[c][k]] = stage[Messages[c][k]]
               \/ Len(replies[c]) < k /\ k <= read[c]
    <3>1. HandlerStep(r) /\ InLoop(r)
      BY <2>2 DEF Advance, LoseStream, HandlerStep
    <3>2. PICK d \in Connection : \E l \in (Len(replies[d]) + 1) .. read[d] : r = Messages[d][l]
      BY <3>1 DEF InLoop, InHand
    <3>3. PICK l \in (Len(replies[d]) + 1) .. read[d] : r = Messages[d][l]
      BY <3>2
    <3>4. l \in DOMAIN Messages[d] /\ Len(replies[d]) < l /\ l <= read[d]
      BY <3>3, MessageSeq DEF SessionsInv, SocketTypeOK, LoopInv
    <3>5. CASE Messages[c][k] = r
      BY <1>2, <3>3, <3>4, <3>5, OnePosition
    <3>6. CASE Messages[c][k] # r
      BY <1>0, <1>2, <3>1, <3>6, HandlerMoves
    <3>. QED
      BY <3>5, <3>6
  <2>3. ClientStep => stage'[Messages[c][k]] = stage[Messages[c][k]]
    BY DEF ClientStep, Settle
  <2>4. Restart => \/ stage'[Messages[c][k]] = stage[Messages[c][k]]
                   \/ stage[Messages[c][k]] \notin {"new", "answered", "rejected", "failed"}
    BY <1>2 DEF Restart, Crash, Underway
  <2>. QED
    BY <2>1, <2>2, <2>3, <2>4
<1>3. LoopInv' /\ BegunInv' /\ ReplyInv'
  BY <1>1, <1>2, StageStep
<1>. QED
  BY <1>1, <1>3 DEF SessionsInv

\* The steps of a loop that reads and replies.
LEMMA LoopStep ==
  ASSUME SessionsInv, FlowInv', NEW c \in Connection, Read(c) \/ Reply(c)
  PROVE  SessionsInv'
<1>1. /\ replies[c] \in Seq(ReplyOf) /\ Len(replies[c]) \in Nat /\ DOMAIN replies[c] = 1 .. Len(replies[c])
      /\ read[c] \in Nat
      /\ Len(Messages[c]) \in Nat /\ DOMAIN Messages[c] = 1 .. Len(Messages[c])
      /\ Len(replies[c]) <= read[c] /\ read[c] <= Len(replies[c]) + 1 /\ read[c] <= Len(Messages[c])
  BY MessageSeq DEF SessionsInv, SocketTypeOK, LoopInv
<1>2. UNCHANGED stage
  BY DEF Read, Reply, vars
<1>3. CASE Read(c)
  <2>1. /\ UNCHANGED <<mode, session, replies>>
        /\ read' = [read EXCEPT ![c] = @ + 1] /\ read[c] < Len(Messages[c]) /\ ~Busy(c)
    BY <1>3 DEF Read
  <2>2. read'[c] = read[c] + 1 /\ \A d \in Connection \ {c} : read'[d] = read[d]
    BY <2>1 DEF SessionsInv, SocketTypeOK
  <2>3. SocketTypeOK'
    BY <1>1, <2>1 DEF SessionsInv, SocketTypeOK
  <2>4. LoopInv'
    BY <1>1, <2>1, <2>2 DEF SessionsInv, LoopInv, Busy
  <2>5. BegunInv'
    <3>. SUFFICES ASSUME NEW d \in Connection, NEW k \in DOMAIN Messages[d],
                         Messages[d][k] \in Request, stage[Messages[d][k]] # "new"
                  PROVE  k <= read'[d]
      BY <1>2 DEF BegunInv
    <3>1. k <= read[d] /\ k \in Nat
      BY MessageSeq DEF SessionsInv, BegunInv
    <3>. QED
      BY <1>1, <2>2, <3>1
  <2>6. ReplyInv'
    BY <1>2, <2>1 DEF SessionsInv, ReplyInv, Handled
  <2>. QED
    BY <2>3, <2>4, <2>5, <2>6 DEF SessionsInv
<1>4. CASE Reply(c)
  <2>. DEFINE n == Len(replies[c]) + 1
  <2>1. /\ UNCHANGED <<mode, session, read>> /\ Busy(c) /\ Handled(Messages[c][n])
        /\ \E id \in ReplyId(Messages[c][n]) : replies' = [replies EXCEPT ![c] = Append(@, id)]
    BY <1>4 DEF Reply
  <2>2. PICK id \in ReplyId(Messages[c][n]) : replies' = [replies EXCEPT ![c] = Append(@, id)]
    BY <2>1
  <2>3. n \in DOMAIN Messages[c] /\ read[c] = n
    BY <1>1, <2>1 DEF Busy
  <2>4. id \in ReplyOf
    BY <2>2, <2>3, MessageSeq, ElementOfSeq DEF ReplyId, ReplyOf
  <2>5. /\ replies'[c] = Append(replies[c], id)
        /\ \A d \in Connection \ {c} : replies'[d] = replies[d]
    BY <2>2 DEF SessionsInv, SocketTypeOK
  <2>6. /\ replies'[c] \in Seq(ReplyOf) /\ Len(replies'[c]) = n /\ replies'[c][n] = id
        /\ DOMAIN replies'[c] = 1 .. n
        /\ \A k \in 1 .. Len(replies[c]) : replies'[c][k] = replies[c][k]
    BY <1>1, <2>4, <2>5, AppendProperties
  <2>7. SocketTypeOK'
    BY <2>1, <2>2, <2>5, <2>6 DEF SessionsInv, SocketTypeOK
  <2>8. LoopInv'
    BY <1>1, <2>1, <2>3, <2>5, <2>6 DEF SessionsInv, LoopInv
  <2>9. BegunInv'
    BY <1>2, <2>1 DEF SessionsInv, BegunInv
  <2>10. ReplyInv'
    <3>. SUFFICES ASSUME NEW d \in Connection, NEW k \in DOMAIN Messages[d], k \in DOMAIN replies'[d]
                  PROVE  replies'[d][k] \in ReplyId(Messages[d][k]) /\ Handled(Messages[d][k])
      BY <1>2 DEF ReplyInv, Handled
    <3>1. CASE d = c /\ k = n
      BY <2>1, <2>2, <2>6, <3>1
    <3>2. CASE d = c /\ k # n
      <4>1. k \in 1 .. Len(replies[c])
        BY <1>1, <2>6, <3>2
      <4>. QED
        BY <1>1, <2>6, <3>2, <4>1 DEF SessionsInv, ReplyInv
    <3>3. CASE d # c
      BY <2>5, <3>3 DEF SessionsInv, ReplyInv
    <3>. QED
      BY <3>1, <3>2, <3>3
  <2>. QED
    BY <2>7, <2>8, <2>9, <2>10 DEF SessionsInv
<1>. QED
  BY <1>3, <1>4

\* The steps in which a session begins or ends.
LEMMA SessionMoves ==
  ASSUME SessionsInv, FlowInv',
         \/ \E c \in Connection : Open(c) \/ ReplyFails(c) \/ Close(c) \/ Leave(c)
         \/ UNCHANGED allVars
  PROVE  SessionsInv'
<1>1. UNCHANGED <<stage, read, replies>>
  BY DEF Open, ReplyFails, Close, Leave, vars, allVars, sessionVars
<1>2. SocketTypeOK'
  BY DEF SessionsInv, SocketTypeOK, Open, ReplyFails, Close, Leave, allVars, sessionVars
<1>3. LoopInv' /\ BegunInv' /\ ReplyInv'
  BY <1>1, StageStep
<1>. QED
  BY <1>2, <1>3 DEF SessionsInv

LEMMA SessionsInduction ==
  ASSUME SessionsInv, [SessionsNext]_allVars
  PROVE  SessionsInv'
<1>1. FlowInv'
  BY SessionsStep, FlowStep DEF SessionsInv
<1>. QED
  BY <1>1, RequestStep, LoopStep, SessionMoves DEF SessionsNext

\* The invariant tells what was promised of the sessions.
LEMMA SessionsPromise == SessionsInv => SessionsTypeOK /\ HandledInTurn
<1>. SUFFICES ASSUME SessionsInv PROVE SessionsTypeOK /\ HandledInTurn
  OBVIOUS
<1>1. SessionsTypeOK
  BY DEF SessionsInv, SessionsTypeOK, SocketTypeOK, LoopInv, FlowInv
<1>2. ASSUME NEW c \in Connection, NEW k \in DOMAIN Messages[c],
             Messages[c][k] \in Request, stage[Messages[c][k]] # "new"
      PROVE  Len(replies[c]) >= k - 1
  <2>1. k <= read[c] /\ k \in Nat
    BY <1>2, MessageSeq DEF SessionsInv, BegunInv
  <2>2. read[c] <= Len(replies[c]) + 1 /\ read[c] \in Nat /\ Len(replies[c]) \in Nat
    BY DEF SessionsInv, LoopInv, SocketTypeOK
  <2>. QED
    BY <2>1, <2>2
<1>3. HandledInTurn
  BY <1>2 DEF HandledInTurn, SessionsInv, ReplyInv
<1>. QED
  BY <1>1, <1>3

\* Whatever becomes of requests, callers and the process, the messages of a session take
\* effect in the order they were sent, and a success they are told of is true.
THEOREM MessagesInTurn == SessionsSpec => [](SessionsTypeOK /\ HandledInTurn)
<1>1. SessionsInit => SessionsInv
  <2>. SUFFICES ASSUME SessionsInit PROVE SessionsInv
    OBVIOUS
  <2>1. FlowInv
    BY FlowInit DEF SessionsInit
  <2>2. /\ mode \in {"rest", "ws"} /\ session = [c \in Connection |-> "none"]
        /\ read = [c \in Connection |-> 0] /\ replies = [c \in Connection |-> <<>>]
        /\ stage = [r \in Request |-> "new"]
    BY DEF SessionsInit, Init
  <2>3. Len(<<>>) = 0 /\ DOMAIN <<>> = {} /\ <<>> \in Seq(ReplyOf)
    BY EmptySeq
  <2>4. SocketTypeOK
    BY <2>2, <2>3 DEF SocketTypeOK
  <2>5. LoopInv
    BY <2>2, <2>3, MessageSeq DEF LoopInv
  <2>6. BegunInv /\ ReplyInv
    BY <2>2, <2>3 DEF BegunInv, ReplyInv
  <2>. QED
    BY <2>1, <2>4, <2>5, <2>6 DEF SessionsInv
<1>. QED
  BY <1>1, SessionsInduction, SessionsPromise, PTL DEF SessionsSpec

\* Every variable of the sessions holds a value of its kind.
THEOREM SessionsTypeCorrect == SessionsSpec => []SessionsTypeOK
BY MessagesInTurn, PTL

\* No message takes effect, or is replied to, before those sent before it.
THEOREM TurnsAreKept == SessionsSpec => []HandledInTurn
BY MessagesInTurn, PTL
=============================================================================
