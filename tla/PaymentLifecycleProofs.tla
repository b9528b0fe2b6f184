----------------------- MODULE PaymentLifecycleProofs -----------------------
(***************************************************************************)
(* Proofs about PaymentLifecycle, for any operations, federations, limits, *)
(* timeouts and number of crashes.                                         *)
(*                                                                         *)
(* Inv is inductive as it stands.  There is one lemma per process of the   *)
(* model, with one step per action and under it one per part of Inv.       *)
(***************************************************************************)
EXTENDS PaymentLifecycle, FiniteSetTheorems, TLAPS

-----------------------------------------------------------------------------
(* The records the map holds *)

\* The record a handler registers is an operation (track_*).
LEMMA NewOperationType ==
  ASSUME NEW o \in Op, now \in Nat
  PROVE  NewOperation(o) \in PaymentOperation
BY ConstantsAssumption DEF ConstantsAssumption, NewOperation, PaymentOperation, PaymentType

\* Recovery's classification yields a payment type or nothing.
LEMMA ClassifyType ==
  ASSUME NEW o \in Op
  PROVE  Classify(o) \in PaymentType \cup {Nil}
BY DEF Classify, PaymentType

\* The record recovery makes of a recoverable log entry is an operation.
LEMMA RecoveredOperationType ==
  ASSUME NEW o \in Op, Recoverable(o), born \in [Op -> Nat]
  PROVE  RecoveredOperation(o) \in PaymentOperation
BY ClassifyType DEF Recoverable, RecoveredOperation, PaymentOperation, Has

\* Event counters stay within their cap and never reach zero again.
LEMMA AtMostType ==
  ASSUME NEW n \in 0..MaxEvents
  PROVE  AtMost(n + 1, MaxEvents) \in 1..MaxEvents
BY ConstantsAssumption DEF ConstantsAssumption, AtMost

-----------------------------------------------------------------------------
\* The empty process satisfies the invariant.
LEMMA InitInv == Init => Inv
<1>. SUFFICES ASSUME Init PROVE Inv
  OBVIOUS
<1>1. ClientTypeOK
  BY DEF Init, ClientTypeOK, FedState
<1>2. MapTypeOK
  BY DEF Init, MapTypeOK, HandlerState, Empty
<1>3. PollTypeOK
  BY DEF Init, PollTypeOK, Empty
<1>4. HostTypeOK
  BY ConstantsAssumption DEF ConstantsAssumption, Init, HostTypeOK
<1>5. LogInv /\ HandlerInv
  BY DEF Init, LogInv, HandlerInv, Empty, Tracked
<1>6. PollInv /\ ReportInv
  BY DEF Init, PollInv, ReportInv
<1>7. SnapshotCurrent /\ ClientAvailable /\ OnlyTrueReports /\ ClaimedMeansReported
  BY DEF Init, SnapshotCurrent, ClientAvailable, OnlyTrueReports,
         ClaimedMeansReported, Tracked, Empty
<1>8. QED
  BY <1>1, <1>2, <1>3, <1>4, <1>5, <1>6, <1>7 DEF Inv, TypeOK

-----------------------------------------------------------------------------
\* A step of a federation client changes what the federation says, never what
\* the manager holds; a finished operation is final.
LEMMA ClientStepInv ==
  ASSUME Inv, NEW o \in Op, ClientStep(o)
  PROVE  Inv'
<1>. USE DEF apiVars, pollVars, eventVars, hostVars
<1>0. /\ UNCHANGED <<log, born, apiVars, active, pollVars, eventVars, hostVars>>
      /\ fed'[o] \in FedState /\ fed' = [fed EXCEPT ![o] = fed'[o]]
      /\ outcome' \in [Op -> BOOLEAN]
      /\ fed'[o] = fed[o] \/ fed[o] \in {"waiting", "confirmed"}
  BY DEF ClientStep, Settle, CacheOutcome, Inv, TypeOK, ClientTypeOK
<1>1. ClientTypeOK'
  BY <1>0 DEF Inv, TypeOK, ClientTypeOK
<1>2. MapTypeOK' /\ PollTypeOK' /\ HostTypeOK'
  BY <1>0 DEF Inv, TypeOK, MapTypeOK, PollTypeOK, HostTypeOK
<1>3. LogInv'
  BY <1>0 DEF Inv, TypeOK, ClientTypeOK, LogInv
<1>4. HandlerInv' /\ ReportInv'
  BY <1>0 DEF Inv, HandlerInv, ReportInv, Tracked
<1>5. PollInv'
  BY <1>0 DEF Inv, PollInv, Tracked, Expired, Announced
<1>6. SnapshotCurrent' /\ ClientAvailable' /\ ClaimedMeansReported'
  BY <1>0 DEF Inv, SnapshotCurrent, ClientAvailable, ClaimedMeansReported, Tracked, Announced
<1>7. OnlyTrueReports'
  <2>. SUFFICES ASSUME NEW p \in Op
       PROVE /\ successes[p] > 0 => fed'[p] = "succeeded"
             /\ failures[p] > 0 => fed'[p] = "failed"
    BY <1>0 DEF OnlyTrueReports
  <2>1. fed'[p] = fed[p] \/ fed[p] \in {"waiting", "confirmed"}
    BY <1>0 DEF Inv, TypeOK, ClientTypeOK
  <2>2. QED
    BY <2>1 DEF Inv, OnlyTrueReports
<1>8. QED
  BY <1>1, <1>2, <1>3, <1>4, <1>5, <1>6, <1>7 DEF Inv, TypeOK
-----------------------------------------------------------------------------
\* The client makes a new operation: nothing was tracked or reported under its id.
LEMMA CreateInv ==
  ASSUME Inv, NEW o \in Op, CreateOperation(o)
  PROVE  Inv'
<1>. USE DEF CreateOperation, pollVars, eventVars, hostVars
<1>1. ClientTypeOK'
  <2>1. log' \in [Federation -> Seq(Op)]
    <3>1. log \in [Federation -> Seq(Op)] /\ FedOf[o] \in Federation
      BY ConstantsAssumption DEF ConstantsAssumption, Inv, TypeOK, ClientTypeOK
    <3>2. Append(log[FedOf[o]], o) \in Seq(Op)
      BY <3>1
    <3>3. QED
      BY <3>1, <3>2
  <2>2. QED
    BY <2>1 DEF Inv, TypeOK, ClientTypeOK, HostTypeOK, FedState
<1>2. MapTypeOK' /\ PollTypeOK' /\ HostTypeOK'
  BY DEF Inv, TypeOK, MapTypeOK, PollTypeOK, HostTypeOK, HandlerState
<1>3. LogInv'
  <2>1. ASSUME NEW f \in Federation, NEW i \in 1..Len(log'[f])
        PROVE  FedOf[log'[f][i]] = f /\ handler'[log'[f][i]] # "none"
    <3>1. CASE f # FedOf[o]
      BY <3>1, ConstantsAssumption
      DEF ConstantsAssumption, Inv, TypeOK, ClientTypeOK, MapTypeOK, LogInv
    <3>2. CASE f = FedOf[o] /\ i <= Len(log[f])
      BY <3>2 DEF Inv, TypeOK, ClientTypeOK, MapTypeOK, LogInv
    <3>3. CASE f = FedOf[o] /\ i = Len(log[f]) + 1
      BY <3>3 DEF Inv, TypeOK, ClientTypeOK, MapTypeOK
    <3>4. QED
      BY <3>1, <3>2, <3>3 DEF Inv, TypeOK, ClientTypeOK
  <2>2. QED
    BY <2>1 DEF Inv, TypeOK, ClientTypeOK, MapTypeOK, LogInv
<1>4. HandlerInv' /\ ReportInv'
  BY DEF Inv, TypeOK, MapTypeOK, HandlerInv, ReportInv, Tracked
<1>5. PollInv'
  BY DEF Inv, PollInv, Tracked, Expired, Announced
<1>6. SnapshotCurrent' /\ ClientAvailable' /\ ClaimedMeansReported'
  BY DEF Inv, SnapshotCurrent, ClientAvailable, ClaimedMeansReported, Tracked, Announced
<1>7. OnlyTrueReports'
  <2>1. fed[o] = "absent"
    BY DEF Inv, LogInv
  <2>2. QED
    BY <2>1 DEF Inv, TypeOK, ClientTypeOK, OnlyTrueReports
<1>8. QED
  BY <1>1, <1>2, <1>3, <1>4, <1>5, <1>6, <1>7 DEF Inv, TypeOK

\* Between the two locks of add_operation only the record it holds changes.
LEMMA PassLimitInv ==
  ASSUME Inv, NEW o \in Op, PassLimit(o)
  PROVE  Inv'
<1>. USE DEF PassLimit, clientVars, pollVars, eventVars, hostVars
<1>1. ClientTypeOK' /\ PollTypeOK' /\ HostTypeOK'
  BY DEF Inv, TypeOK, ClientTypeOK, PollTypeOK, HostTypeOK
<1>2. MapTypeOK'
  BY NewOperationType DEF Inv, TypeOK, MapTypeOK, HostTypeOK
<1>3. LogInv' /\ ReportInv'
  BY DEF Inv, LogInv, ReportInv
<1>4. HandlerInv'
  BY DEF Inv, TypeOK, MapTypeOK, HandlerInv, NewOperation, Tracked
<1>5. PollInv'
  BY DEF Inv, PollInv, Tracked, Expired, Announced
<1>6. SnapshotCurrent' /\ ClientAvailable' /\ OnlyTrueReports' /\ ClaimedMeansReported'
  BY DEF Inv, SnapshotCurrent, ClientAvailable, OnlyTrueReports, ClaimedMeansReported,
         Tracked, Announced
<1>7. QED
  BY <1>1, <1>2, <1>3, <1>4, <1>5, <1>6 DEF Inv, TypeOK

\* A handler turned away at the limit, or dropped with its connection, leaves
\* the map alone.
LEMMA LeaveInv ==
  ASSUME Inv, NEW o \in Op, RejectAtLimit(o) \/ DropHandler(o)
  PROVE  Inv'
<1>. USE DEF clientVars, pollVars, eventVars, hostVars
<1>. /\ UNCHANGED <<active, clientVars, pollVars, eventVars, hostVars>>
     /\ handler[o] = "created"
     /\ handler' = [handler EXCEPT ![o] = handler'[o]]
     /\ handler'[o] \in {"rejected", "dropped"}
     /\ incoming' = [incoming EXCEPT ![o] = Nil]
  BY DEF RejectAtLimit, DropHandler, Inv, TypeOK, MapTypeOK
<1>1. ClientTypeOK' /\ PollTypeOK' /\ HostTypeOK'
  BY DEF Inv, TypeOK, ClientTypeOK, PollTypeOK, HostTypeOK
<1>2. MapTypeOK'
  BY DEF Inv, TypeOK, MapTypeOK, HandlerState
<1>3. LogInv'
  <2>1. \A p \in Op : handler'[p] = "none" <=> handler[p] = "none"
    BY DEF Inv, TypeOK, MapTypeOK
  <2>2. QED
    BY <2>1 DEF Inv, TypeOK, ClientTypeOK, LogInv
<1>4. HandlerInv' /\ ReportInv'
  BY DEF Inv, TypeOK, MapTypeOK, HandlerInv, ReportInv, Tracked
<1>5. PollInv'
  BY DEF Inv, PollInv, Tracked, Expired, Announced
<1>6. SnapshotCurrent' /\ ClientAvailable' /\ OnlyTrueReports' /\ ClaimedMeansReported'
  BY DEF Inv, SnapshotCurrent, ClientAvailable, OnlyTrueReports, ClaimedMeansReported,
         Tracked, Announced
<1>7. QED
  BY <1>1, <1>2, <1>3, <1>4, <1>5, <1>6 DEF Inv, TypeOK

\* An insertion lands on an empty slot, so it disturbs neither the snapshot of a
\* running poll nor anything reported before.
LEMMA InsertInv ==
  ASSUME Inv, NEW o \in Op, InsertOperation(o)
  PROVE  Inv'
<1>. USE DEF InsertOperation, clientVars, pollVars, eventVars, hostVars
<1>0. /\ active[o] = Nil
      /\ active' = [active EXCEPT ![o] = incoming[o]]
      /\ incoming[o] \in PaymentOperation /\ ~incoming[o].ecash_claimed
      /\ handler[o] = "created" /\ phase = "running" /\ FedOf[o] \in loaded
  BY DEF Inv, TypeOK, MapTypeOK, HandlerInv
<1>1. ClientTypeOK' /\ PollTypeOK' /\ HostTypeOK'
  BY DEF Inv, TypeOK, ClientTypeOK, PollTypeOK, HostTypeOK
<1>2. MapTypeOK'
  BY <1>0 DEF Inv, TypeOK, MapTypeOK, HandlerState
<1>3. LogInv'
  BY DEF Inv, TypeOK, ClientTypeOK, MapTypeOK, LogInv
<1>4. HandlerInv' /\ ReportInv'
  BY <1>0 DEF Inv, TypeOK, MapTypeOK, HandlerInv, ReportInv, Tracked
<1>5. PollInv'
  BY <1>0, ConstantsAssumption
  DEF ConstantsAssumption, Inv, TypeOK, MapTypeOK, PollInv, Tracked, Expired, Announced
<1>6. SnapshotCurrent'
  BY <1>0 DEF Inv, TypeOK, MapTypeOK, PollTypeOK, PollInv, SnapshotCurrent, Tracked
<1>7. ClientAvailable' /\ OnlyTrueReports'
  BY <1>0 DEF Inv, TypeOK, MapTypeOK, ClientAvailable, OnlyTrueReports, Tracked
<1>8. ClaimedMeansReported'
  BY <1>0, ConstantsAssumption
  DEF ConstantsAssumption, Inv, TypeOK, MapTypeOK, PollInv, ClaimedMeansReported,
      Tracked, Announced
<1>9. QED
  BY <1>1, <1>2, <1>3, <1>4, <1>5, <1>6, <1>7, <1>8 DEF Inv, TypeOK

\* Every step of a request handler.
LEMMA HandlerStepInv ==
  ASSUME Inv, NEW o \in Op, HandlerStep(o)
  PROVE  Inv'
BY CreateInv, PassLimitInv, LeaveInv, InsertInv DEF HandlerStep

-----------------------------------------------------------------------------
\* An idle poll, or a poll that takes its snapshot: the clone is the map itself,
\* and expired entries go to timed_out instead of the queue.
LEMMA PollBeginInv ==
  ASSUME Inv, PollBegin
  PROVE  Inv'
<1>. USE DEF PollBegin, clientVars, apiVars, eventVars, hostVars
<1>0. queue' \subseteq Tracked /\ timed_out' \subseteq Tracked /\ Tracked \subseteq Op
  BY DEF Tracked
<1>1. ClientTypeOK' /\ MapTypeOK' /\ HostTypeOK'
  BY DEF Inv, TypeOK, ClientTypeOK, MapTypeOK, HostTypeOK
<1>2. PollTypeOK'
  BY <1>0 DEF Inv, TypeOK, MapTypeOK, PollTypeOK
<1>3. LogInv' /\ HandlerInv' /\ ReportInv'
  BY DEF Inv, LogInv, HandlerInv, ReportInv, Tracked
<1>4. PollInv'
  BY DEF Inv, PollInv, Tracked, Expired, Announced
<1>5. SnapshotCurrent'
  BY DEF Inv, PollInv, SnapshotCurrent
<1>6. ClientAvailable' /\ OnlyTrueReports' /\ ClaimedMeansReported'
  BY DEF Inv, PollInv, ClientAvailable, OnlyTrueReports, ClaimedMeansReported,
         Tracked, Announced
<1>7. QED
  BY <1>1, <1>2, <1>3, <1>4, <1>5, <1>6 DEF Inv, TypeOK

\* A drained stream never shows an end the federation has not reached.
LEMMA ObservedEndIsTrue ==
  ASSUME NEW o \in Op, NEW s \in Observable(o), s \in Terminal
  PROVE  fed[o] = s
BY DEF Observable, Reached, Terminal

\* What the task knows of the operation it takes from its queue.
LEMMA TakenIsTracked ==
  ASSUME Inv, NEW o \in Op, Take(o)
  PROVE  /\ snapshot[o] = active[o] /\ active[o] # Nil
         /\ active[o] \in PaymentOperation
         /\ o \notin completed \cup timed_out
         /\ current = Nil /\ updated = Nil
         /\ phase = "running" /\ handler[o] \notin {"none", "created"}
BY DEF Inv, TypeOK, MapTypeOK, PollTypeOK, HandlerInv, PollInv, SnapshotCurrent, Take, Tracked

\* A receive or deposit is left to be written back, of the same type and never
\* less claimed than before.
LEMMA ProcessedCopy ==
  ASSUME Inv, NEW o \in Op, Process(o)
  PROVE  \/ current' = Nil /\ updated' = Nil
         \/ /\ current' = o
            /\ updated' \in PaymentOperation
            /\ updated'.payment_type = active[o].payment_type
            /\ active[o].ecash_claimed => updated'.ecash_claimed
<1>. USE TakenIsTracked DEF ToWriteBack
<1>1. ASSUME NEW s \in FedState, ProcessReceive(o, s)
      PROVE  /\ current' = o
             /\ updated' \in PaymentOperation
             /\ updated'.payment_type = active[o].payment_type
             /\ active[o].ecash_claimed => updated'.ecash_claimed
  <2>1. snapshot[o] = active[o] /\ active[o] \in PaymentOperation
    BY <1>1 DEF ProcessReceive
  <2>2. /\ current' = o
        /\ updated' \in {active[o],
                         [active[o] EXCEPT !.claim_attempted = TRUE],
                         [active[o] EXCEPT !.ecash_claimed = TRUE,
                                           !.claim_attempted = TRUE]}
    BY <1>1, <2>1 DEF ProcessReceive
  <2>3. QED
    BY <2>1, <2>2 DEF PaymentOperation
<1>2. ASSUME NEW s \in FedState, ProcessDeposit(o, s)
      PROVE  /\ current' = o
             /\ updated' \in PaymentOperation
             /\ updated'.payment_type = active[o].payment_type
             /\ active[o].ecash_claimed => updated'.ecash_claimed
  <2>1. snapshot[o] = active[o] /\ active[o] \in PaymentOperation
    BY <1>2 DEF ProcessDeposit
  <2>2. /\ current' = o
        /\ updated' \in {active[o],
                         [active[o] EXCEPT !.claim_attempted = TRUE],
                         [active[o] EXCEPT !.amount_known = TRUE],
                         [active[o] EXCEPT !.ecash_claimed = TRUE,
                                           !.claim_attempted = TRUE,
                                           !.amount_known = TRUE]}
    BY <1>2, <2>1 DEF ProcessDeposit
  <2>3. QED
    BY <2>1, <2>2 DEF PaymentOperation
<1>3. ASSUME ProcessOutgoing(o)
      PROVE  current' = Nil /\ updated' = Nil
  BY <1>3 DEF ProcessOutgoing
<1>4. CASE ProcessNothing(o)
  BY <1>4 DEF ProcessNothing
<1>5. QED
  BY <1>1, <1>2, <1>3, <1>4 DEF Process

\* Every event of the poll is true, and a claim is marked exactly when it is
\* announced.
LEMMA ProcessedEvents ==
  ASSUME Inv, NEW o \in Op, Process(o)
  PROVE  \/ /\ UNCHANGED eventVars
            /\ current' = o /\ updated'.ecash_claimed
                 => active[o].ecash_claimed \/ ~Announced(active[o])
         \/ /\ PublishSuccess(o) /\ fed[o] = "succeeded"
            /\ current' = Nil => TypeOf[o] \notin Incoming
            /\ current' # Nil => /\ updated'.ecash_claimed /\ ~active[o].ecash_claimed
                                 /\ Announced(active[o])
         \/ PublishFailure(o) /\ fed[o] = "failed" /\ current' = Nil
<1>. USE TakenIsTracked DEF ToWriteBack, Terminal
<1>1. ASSUME NEW s \in FedState, ProcessReceive(o, s)
      PROVE  \/ /\ UNCHANGED eventVars
                /\ updated'.ecash_claimed => active[o].ecash_claimed \/ ~Announced(active[o])
             \/ /\ PublishSuccess(o) /\ fed[o] = "succeeded"
                /\ current' # Nil /\ updated'.ecash_claimed /\ ~active[o].ecash_claimed
                /\ Announced(active[o])
  BY <1>1, ObservedEndIsTrue, ConstantsAssumption
  DEF ConstantsAssumption, ProcessReceive, PaymentOperation, Announced
<1>2. ASSUME NEW s \in FedState, ProcessDeposit(o, s)
      PROVE  \/ /\ UNCHANGED eventVars
                /\ updated'.ecash_claimed => active[o].ecash_claimed \/ ~Announced(active[o])
             \/ /\ PublishSuccess(o) /\ fed[o] = "succeeded"
                /\ current' # Nil /\ updated'.ecash_claimed /\ ~active[o].ecash_claimed
                /\ Announced(active[o])
  <2>1. /\ snapshot[o] = active[o] /\ active[o] \in PaymentOperation
        /\ active[o].payment_type = "OnchainDeposit" /\ o # Nil
    BY <1>2, ConstantsAssumption DEF ConstantsAssumption, ProcessDeposit
  <2>2. CASE s = "succeeded" /\ ~active[o].ecash_claimed
    <3>1. fed[o] = "succeeded"
      BY <1>2, <2>2, ObservedEndIsTrue DEF ProcessDeposit
    <3>2. /\ current' = o /\ PublishSuccess(o)
          /\ updated' = [active[o] EXCEPT !.ecash_claimed = TRUE,
                                          !.claim_attempted = TRUE,
                                          !.amount_known = TRUE]
      BY <1>2, <2>1, <2>2 DEF ProcessDeposit
    <3>3. QED
      BY <2>1, <2>2, <3>1, <3>2 DEF PaymentOperation, Announced
  <2>3. CASE ~(s = "succeeded" /\ ~active[o].ecash_claimed)
    BY <1>2, <2>1, <2>3 DEF ProcessDeposit, PaymentOperation
  <2>4. QED
    BY <2>2, <2>3
<1>3. ASSUME ProcessOutgoing(o)
      PROVE  /\ current' = Nil /\ TypeOf[o] \notin Incoming
             /\ \/ UNCHANGED eventVars
                \/ PublishSuccess(o) /\ fed[o] = "succeeded"
                \/ PublishFailure(o) /\ fed[o] = "failed"
  BY <1>3 DEF ProcessOutgoing, Incoming, FirstItem
<1>4. CASE ProcessNothing(o)
  BY <1>4, ConstantsAssumption DEF ConstantsAssumption, ProcessNothing
<1>5. QED
  BY <1>1, <1>2, <1>3, <1>4, ConstantsAssumption DEF ConstantsAssumption, Process

\* Processing one operation.
LEMMA ProcessInv ==
  ASSUME Inv, NEW o \in Op, Process(o)
  PROVE  Inv'
<1>. USE DEF clientVars, apiVars, hostVars
<1>0. /\ Take(o)
      /\ queue' = queue \ {o}
      /\ UNCHANGED <<polling, snapshot, completed, timed_out,
                     clientVars, apiVars, active, hostVars>>
  BY DEF Process, ProcessReceive, ProcessDeposit, ProcessOutgoing, ProcessNothing, Take
<1>1. /\ snapshot[o] = active[o] /\ active[o] # Nil /\ active[o] \in PaymentOperation
      /\ o \notin completed \cup timed_out
      /\ current = Nil /\ updated = Nil /\ o # Nil
      /\ phase = "running" /\ handler[o] \notin {"none", "created"}
  BY <1>0, TakenIsTracked, ConstantsAssumption DEF ConstantsAssumption
<1>2. ClientTypeOK' /\ MapTypeOK'
  BY <1>0 DEF Inv, TypeOK, ClientTypeOK, MapTypeOK
<1>3. PollTypeOK'
  BY <1>0, <1>1, ProcessedCopy DEF Inv, TypeOK, PollTypeOK
<1>4. HostTypeOK' /\ OnlyTrueReports'
  <2>0. successes[o] \in 0..MaxEvents /\ failures[o] \in 0..MaxEvents
    BY DEF Inv, TypeOK, HostTypeOK
  <2>1. CASE UNCHANGED eventVars
    BY <1>0, <2>1 DEF Inv, TypeOK, HostTypeOK, OnlyTrueReports, eventVars
  <2>2. CASE PublishSuccess(o) /\ fed[o] = "succeeded"
    BY <1>0, <2>0, <2>2, AtMostType
    DEF Inv, TypeOK, HostTypeOK, OnlyTrueReports, PublishSuccess
  <2>3. CASE PublishFailure(o) /\ fed[o] = "failed"
    BY <1>0, <2>0, <2>3, AtMostType
    DEF Inv, TypeOK, HostTypeOK, OnlyTrueReports, PublishFailure
  <2>4. QED
    BY <2>1, <2>2, <2>3, ProcessedEvents
<1>5. LogInv' /\ HandlerInv'
  BY <1>0 DEF Inv, LogInv, HandlerInv, Tracked
<1>6. \A p \in Op : /\ successes[p] > 0 => successes'[p] > 0
                    /\ p # o => successes'[p] = successes[p]
  BY ProcessedEvents, AtMostType
  DEF Inv, TypeOK, HostTypeOK, eventVars, PublishSuccess, PublishFailure
<1>7. PollInv'
  <2>1. current' # Nil /\ updated'.ecash_claimed /\ Announced(active[o]) => successes'[o] > 0
    <3>1. CASE /\ UNCHANGED eventVars
               /\ current' = o /\ updated'.ecash_claimed
                    => active[o].ecash_claimed \/ ~Announced(active[o])
      BY <1>1, <3>1, ProcessedCopy DEF Inv, ClaimedMeansReported, eventVars
    <3>2. CASE PublishSuccess(o)
      BY <3>2, AtMostType DEF Inv, TypeOK, HostTypeOK, PublishSuccess
    <3>3. CASE current' = Nil
      BY <3>3
    <3>4. QED
      BY <3>1, <3>2, <3>3, ProcessedEvents, ProcessedCopy
  <2>2. QED
    BY <1>0, <1>1, <2>1, ProcessedCopy, ConstantsAssumption
    DEF ConstantsAssumption, Inv, PollInv, Tracked, Expired, Announced, Take
<1>8. ReportInv'
  <2>. SUFFICES ASSUME NEW p \in Op, successes'[p] > 0
       PROVE  /\ phase' = "running"
              /\ handler'[p] \notin {"none", "created"}
              /\ TypeOf[p] \in Incoming =>
                   /\ successes'[p] = 1
                   /\ \/ active'[p] = Nil
                      \/ active'[p].ecash_claimed
                      \/ current' = p /\ updated'.ecash_claimed
    BY DEF ReportInv
  <2>1. CASE p # o \/ UNCHANGED eventVars \/ PublishFailure(o)
    BY <1>0, <1>1, <1>6, <2>1, ConstantsAssumption
    DEF ConstantsAssumption, Inv, ReportInv, eventVars, PublishFailure
  <2>2. CASE /\ p = o /\ PublishSuccess(o)
             /\ current' = Nil => TypeOf[o] \notin Incoming
             /\ current' # Nil => updated'.ecash_claimed /\ ~active[o].ecash_claimed
    <3>1. ASSUME TypeOf[o] \in Incoming
          PROVE  current' = o /\ updated'.ecash_claimed /\ successes[o] = 0
      <4>1. current' = o /\ updated'.ecash_claimed /\ ~active[o].ecash_claimed
        BY <1>1, <2>2, <3>1, ProcessedCopy
      <4>2. successes[o] > 0 => FALSE
        BY <1>1, <3>1, <4>1 DEF Inv, ReportInv
      <4>3. QED
        BY <4>1, <4>2 DEF Inv, TypeOK, HostTypeOK
    <3>2. successes[o] = 0 => successes'[o] = 1
      BY <2>2, ConstantsAssumption
      DEF ConstantsAssumption, PublishSuccess, AtMost, Inv, TypeOK, HostTypeOK
    <3>3. QED
      BY <1>0, <1>1, <2>2, <3>1, <3>2
  <2>3. QED
    BY <2>1, <2>2, ProcessedEvents
<1>9. SnapshotCurrent'
  BY <1>0, <1>1, ProcessedCopy DEF Inv, SnapshotCurrent
<1>10. ClientAvailable' /\ ClaimedMeansReported'
  BY <1>0, <1>6 DEF Inv, ClientAvailable, ClaimedMeansReported, Tracked, Announced
<1>11. QED
  BY <1>2, <1>3, <1>4, <1>5, <1>7, <1>8, <1>9, <1>10 DEF Inv, TypeOK

\* Writing a processed copy back: nobody touched the entry since the snapshot, so
\* the copy's type is the entry's, and what is announced stays announced.
LEMMA WrittenBackEntry ==
  ASSUME Inv, WriteBack
  PROVE  /\ current \in Op /\ current # Nil
         /\ active[current] # Nil /\ active[current] \in PaymentOperation
         /\ updated \in PaymentOperation
         /\ active' = [active EXCEPT ![current] = WrittenBack(current)]
         /\ WrittenBack(current) # Nil
         /\ WrittenBack(current) \in PaymentOperation
         /\ WrittenBack(current).payment_type = active[current].payment_type
         /\ WrittenBack(current).created_at = active[current].created_at
         /\ WrittenBack(current).ecash_claimed = updated.ecash_claimed
         /\ Announced(WrittenBack(current)) <=> Announced(active[current])
<1>0. /\ current \in Op /\ current # Nil
      /\ active[current] # Nil /\ active[current] \in PaymentOperation
      /\ updated \in PaymentOperation
      /\ active' = [active EXCEPT ![current] = WrittenBack(current)]
  BY ConstantsAssumption
  DEF ConstantsAssumption, WriteBack, Inv, TypeOK, MapTypeOK, PollTypeOK, PollInv, Tracked
<1>1. /\ WrittenBack(current) \in PaymentOperation
      /\ WrittenBack(current).payment_type = active[current].payment_type
      /\ WrittenBack(current).created_at = active[current].created_at
      /\ WrittenBack(current).ecash_claimed = updated.ecash_claimed
      /\ Announced(WrittenBack(current)) <=> Announced(active[current])
  BY <1>0 DEF WrittenBack, PaymentOperation, Announced, Inv, PollInv
<1>2. QED
  BY <1>0, <1>1, ConstantsAssumption DEF ConstantsAssumption

\* The write-back step.
LEMMA WriteBackInv ==
  ASSUME Inv, WriteBack
  PROVE  Inv'
<1>. USE DEF WriteBack, clientVars, apiVars, eventVars, hostVars
<1>. DEFINE c == current
<1>0. /\ c \in Op /\ c # Nil /\ active[c] # Nil /\ active[c] \in PaymentOperation
      /\ updated \in PaymentOperation
      /\ active' = [active EXCEPT ![c] = WrittenBack(c)]
  BY WrittenBackEntry
<1>1. /\ WrittenBack(c) \in PaymentOperation
      /\ WrittenBack(c).payment_type = active[c].payment_type
      /\ WrittenBack(c).created_at = active[c].created_at
      /\ WrittenBack(c).ecash_claimed = updated.ecash_claimed
      /\ Announced(WrittenBack(c)) => Announced(active[c])
  BY WrittenBackEntry
<1>2. WrittenBack(c) # Nil
  BY WrittenBackEntry
<1>. HIDE DEF c
<1>3. /\ active'[c] = WrittenBack(c)
      /\ \A p \in Op : p # c => active'[p] = active[p]
      /\ \A p \in Op : active'[p] = Nil <=> active[p] = Nil
  BY <1>0, <1>2 DEF Inv, TypeOK, MapTypeOK
<1>4. ClientTypeOK' /\ HostTypeOK'
  BY DEF Inv, TypeOK, ClientTypeOK, HostTypeOK
<1>5. MapTypeOK' /\ PollTypeOK'
  BY <1>0, <1>1 DEF Inv, TypeOK, MapTypeOK, PollTypeOK, c
<1>6. LogInv' /\ HandlerInv' /\ ClientAvailable'
  BY <1>3 DEF Inv, LogInv, HandlerInv, ClientAvailable, Tracked
<1>7. PollInv'
  <2>1. Tracked' = Tracked
    BY <1>3 DEF Tracked
  <2>2. completed' \subseteq {p \in Tracked : active'[p].ecash_claimed}
    BY <1>0, <1>1, <1>3 DEF Inv, PollInv, Tracked, c
  <2>3. timed_out \subseteq {p \in Tracked : now - active'[p].created_at > Timeout}
    BY <1>0, <1>1, <1>3 DEF Inv, PollInv, Tracked, Expired, c
  <2>4. /\ polling => phase = "running"
        /\ ~polling => queue = {} /\ current = Nil /\ completed = {} /\ timed_out = {}
        /\ queue \subseteq Tracked
        /\ queue \cap (completed' \cup timed_out) = {}
    BY <1>0 DEF Inv, PollInv, c
  <2>5. QED
    BY <1>0, <2>1, <2>2, <2>3, <2>4 DEF PollInv, Expired, c
<1>8. ReportInv'
  BY <1>0, <1>1, <1>3 DEF Inv, PollInv, ReportInv, c
<1>9. SnapshotCurrent' /\ OnlyTrueReports'
  BY <1>3 DEF Inv, TypeOK, PollTypeOK, PollInv, SnapshotCurrent, OnlyTrueReports, c
<1>10. ClaimedMeansReported'
  BY <1>0, <1>1, <1>3 DEF Inv, PollInv, ClaimedMeansReported, Announced, c
<1>11. QED
  BY <1>4, <1>5, <1>6, <1>7, <1>8, <1>9, <1>10 DEF Inv, TypeOK

\* The end of a poll removes what is completed or timed out.
LEMMA PollEndInv ==
  ASSUME Inv, PollEnd
  PROVE  Inv'
<1>. USE DEF PollEnd, clientVars, apiVars, eventVars, hostVars
<1>0. \A p \in Op : active'[p] = Nil \/ active'[p] = active[p]
  OBVIOUS
<1>1. ClientTypeOK' /\ HostTypeOK'
  BY DEF Inv, TypeOK, ClientTypeOK, HostTypeOK
<1>2. MapTypeOK' /\ PollTypeOK'
  BY DEF Inv, TypeOK, MapTypeOK, PollTypeOK, Empty
<1>3. LogInv' /\ ClientAvailable' /\ OnlyTrueReports'
  BY <1>0 DEF Inv, LogInv, ClientAvailable, OnlyTrueReports, Tracked
<1>4. HandlerInv'
  BY <1>0 DEF Inv, HandlerInv, Tracked
<1>5. PollInv' /\ ReportInv'
  BY <1>0 DEF Inv, PollInv, ReportInv
<1>6. SnapshotCurrent'
  BY DEF Inv, SnapshotCurrent
<1>7. ClaimedMeansReported'
  BY <1>0 DEF Inv, ClaimedMeansReported
<1>8. QED
  BY <1>1, <1>2, <1>3, <1>4, <1>5, <1>6, <1>7 DEF Inv, TypeOK

\* A step that changes nothing.
LEMMA StutterInv == ASSUME Inv, UNCHANGED vars PROVE Inv'
<1>. USE DEF vars, clientVars, apiVars, pollVars, eventVars, hostVars
<1>1. TypeOK'
  BY DEF Inv, TypeOK, ClientTypeOK, MapTypeOK, PollTypeOK, HostTypeOK
<1>2. LogInv' /\ HandlerInv' /\ PollInv' /\ ReportInv'
  BY DEF Inv, LogInv, HandlerInv, PollInv, ReportInv, Tracked, Expired, Announced
<1>3. SnapshotCurrent' /\ ClientAvailable' /\ OnlyTrueReports' /\ ClaimedMeansReported'
  BY DEF Inv, SnapshotCurrent, ClientAvailable, OnlyTrueReports, ClaimedMeansReported,
         Tracked, Announced
<1>4. QED
  BY <1>1, <1>2, <1>3 DEF Inv

\* Every step of the poll task.
LEMMA PollStepInv ==
  ASSUME Inv, PollStep
  PROVE  Inv'
BY StutterInv, PollBeginInv, ProcessInv, WriteBackInv, PollEndInv DEF PollStep, PollIdle

-----------------------------------------------------------------------------
\* A federation joins, or the clock ticks: what is expired stays expired.
LEMMA JoinOrTickInv ==
  ASSUME Inv, Tick \/ \E f \in Federation : JoinFederation(f)
  PROVE  Inv'
<1>. USE DEF clientVars, apiVars, pollVars, eventVars
<1>0. /\ UNCHANGED <<phase, unread, crashes, clientVars, apiVars, active, pollVars, eventVars>>
      /\ loaded \subseteq loaded' /\ loaded' \subseteq Federation
      /\ now' \in Nat /\ now <= now'
  BY DEF Tick, JoinFederation, Inv, TypeOK, HostTypeOK
<1>1. ClientTypeOK' /\ MapTypeOK' /\ PollTypeOK' /\ HostTypeOK'
  BY <1>0 DEF Inv, TypeOK, ClientTypeOK, MapTypeOK, PollTypeOK, HostTypeOK
<1>2. LogInv' /\ HandlerInv' /\ ReportInv'
  BY <1>0 DEF Inv, LogInv, HandlerInv, ReportInv, Tracked
<1>3. PollInv'
  <2>1. \A p \in Tracked : Expired(active[p]) => Expired(active[p])'
    BY <1>0, ConstantsAssumption
    DEF ConstantsAssumption, Inv, TypeOK, MapTypeOK, HostTypeOK, Tracked, Expired, PaymentOperation
  <2>2. QED
    BY <1>0, <2>1 DEF Inv, PollInv, Tracked, Announced
<1>4. SnapshotCurrent' /\ ClientAvailable' /\ OnlyTrueReports' /\ ClaimedMeansReported'
  BY <1>0 DEF Inv, SnapshotCurrent, ClientAvailable, OnlyTrueReports, ClaimedMeansReported,
              Tracked, Announced
<1>5. QED
  BY <1>1, <1>2, <1>3, <1>4 DEF Inv, TypeOK

\* A crash empties everything the process held.
LEMMA CrashInv ==
  ASSUME Inv, Crash
  PROVE  Inv'
<1>. USE DEF Crash, clientVars, Empty
<1>1. ClientTypeOK' /\ MapTypeOK' /\ PollTypeOK' /\ HostTypeOK'
  <2>1. ClientTypeOK' /\ PollTypeOK'
    BY DEF Inv, TypeOK, ClientTypeOK, PollTypeOK
  <2>2. MapTypeOK'
    BY DEF Inv, TypeOK, MapTypeOK, HandlerState
  <2>3. HostTypeOK'
    BY ConstantsAssumption DEF ConstantsAssumption, Inv, TypeOK, HostTypeOK
  <2>4. QED
    BY <2>1, <2>2, <2>3
<1>2. LogInv'
  <2>1. \A o \in Op : handler'[o] = "none" <=> handler[o] = "none"
    OBVIOUS
  <2>2. QED
    BY <2>1 DEF Inv, TypeOK, ClientTypeOK, LogInv
<1>3. HandlerInv' /\ PollInv' /\ ReportInv'
  BY DEF HandlerInv, PollInv, ReportInv, Tracked
<1>4. SnapshotCurrent' /\ ClientAvailable' /\ OnlyTrueReports' /\ ClaimedMeansReported'
  BY DEF SnapshotCurrent, ClientAvailable, OnlyTrueReports, ClaimedMeansReported, Tracked
<1>5. QED
  BY <1>1, <1>2, <1>3, <1>4 DEF Inv, TypeOK

\* main loads some of the clients and starts to recover.
LEMMA RestartInv ==
  ASSUME Inv, NEW L \in SUBSET Federation, Restart(L)
  PROVE  Inv'
<1>. USE DEF Restart, clientVars, apiVars, pollVars, eventVars
<1>1. ClientTypeOK' /\ MapTypeOK' /\ PollTypeOK' /\ HostTypeOK'
  BY DEF Inv, TypeOK, ClientTypeOK, MapTypeOK, PollTypeOK, HostTypeOK
<1>2. LogInv' /\ HandlerInv' /\ ReportInv'
  BY DEF Inv, LogInv, HandlerInv, ReportInv, Tracked
<1>3. PollInv'
  BY DEF Inv, PollInv, Tracked, Expired, Announced
<1>4. SnapshotCurrent' /\ ClientAvailable' /\ OnlyTrueReports' /\ ClaimedMeansReported'
  BY DEF Inv, HandlerInv, SnapshotCurrent, ClientAvailable, OnlyTrueReports,
         ClaimedMeansReported, Tracked, Announced
<1>5. QED
  BY <1>1, <1>2, <1>3, <1>4 DEF Inv, TypeOK

\* Reading the log of one federation: its operations are in no map and under no
\* handler yet, and nothing was published since the restart.
LEMMA RecoverInv ==
  ASSUME Inv, NEW f \in Federation, RecoverFederation(f)
  PROVE  Inv'
<1>. USE DEF RecoverFederation, clientVars, apiVars, pollVars, eventVars
<1>0. \A o \in Page(f) : FedOf[o] = f /\ handler[o] # "none" /\ o \in Op
  BY DEF Inv, TypeOK, ClientTypeOK, LogInv, Page
<1>1. \A o \in Op :
        \/ active'[o] = active[o]
        \/ /\ o \in Page(f)
           /\ active[o] = Nil
           /\ active'[o] \in PaymentOperation /\ ~active'[o].ecash_claimed
  <2>. SUFFICES ASSUME NEW o \in Op, o \in Page(f), Recoverable(o)
                PROVE  /\ active[o] = Nil
                        /\ RecoveredOperation(o) \in PaymentOperation
                        /\ ~RecoveredOperation(o).ecash_claimed
    OBVIOUS
  <2>2. active[o] = Nil
    BY <1>0 DEF Inv, HandlerInv
  <2>3. RecoveredOperation(o) \in PaymentOperation
    BY RecoveredOperationType DEF Inv, TypeOK, ClientTypeOK
  <2>4. QED
    BY <2>2, <2>3 DEF RecoveredOperation
<1>2. phase = "recovering" /\ ~polling /\ queue = {} /\ current = Nil
      /\ completed = {} /\ timed_out = {}
  BY DEF Inv, PollInv
<1>3. \A o \in Op : successes[o] > 0 => FALSE
  BY <1>2 DEF Inv, ReportInv
<1>4. ClientTypeOK' /\ MapTypeOK' /\ PollTypeOK' /\ HostTypeOK'
  <2>1. active' \in [Op -> PaymentOperation \cup {Nil}]
    BY <1>1 DEF Inv, TypeOK, MapTypeOK
  <2>2. QED
    BY <2>1 DEF Inv, TypeOK, ClientTypeOK, MapTypeOK, PollTypeOK, HostTypeOK
<1>5. LogInv' /\ ReportInv'
  BY <1>3 DEF Inv, LogInv, ReportInv
<1>6. HandlerInv'
  <2>1. \A o \in Op : active'[o] # Nil => active[o] # Nil \/ FedOf[o] = f
    BY <1>0, <1>1
  <2>2. \A o \in Op : handler[o] \notin {"created"}
    BY <1>2 DEF Inv, HandlerInv
  <2>3. \A o \in Op : handler[o] = "none" => active'[o] = Nil
    BY <1>0, <1>1 DEF Inv, HandlerInv
  <2>4. QED
    BY <1>2, <2>1, <2>2, <2>3 DEF Inv, HandlerInv, Tracked
<1>7. PollInv' /\ SnapshotCurrent'
  BY <1>2 DEF Inv, PollInv, SnapshotCurrent
<1>8. ClientAvailable'
  BY <1>0, <1>1 DEF Inv, HandlerInv, ClientAvailable, Tracked
<1>9. OnlyTrueReports' /\ ClaimedMeansReported'
  BY <1>1, <1>2, <1>3 DEF Inv, OnlyTrueReports, ClaimedMeansReported, Announced
<1>10. QED
  BY <1>4, <1>5, <1>6, <1>7, <1>8, <1>9 DEF Inv, TypeOK

\* The server starts to serve.
LEMMA StartServingInv ==
  ASSUME Inv, StartServing
  PROVE  Inv'
<1>. USE DEF StartServing, clientVars, apiVars, pollVars, eventVars
<1>1. ClientTypeOK' /\ MapTypeOK' /\ PollTypeOK' /\ HostTypeOK'
  BY DEF Inv, TypeOK, ClientTypeOK, MapTypeOK, PollTypeOK, HostTypeOK
<1>2. LogInv' /\ HandlerInv' /\ ReportInv'
  BY DEF Inv, LogInv, HandlerInv, ReportInv, Tracked
<1>3. PollInv'
  BY DEF Inv, PollInv, Tracked, Expired, Announced
<1>4. SnapshotCurrent' /\ ClientAvailable' /\ OnlyTrueReports' /\ ClaimedMeansReported'
  BY DEF Inv, SnapshotCurrent, ClientAvailable, OnlyTrueReports,
         ClaimedMeansReported, Tracked, Announced
<1>5. QED
  BY <1>1, <1>2, <1>3, <1>4 DEF Inv, TypeOK

\* Every step of the process around the manager.
LEMMA HostStepInv ==
  ASSUME Inv, HostStep
  PROVE  Inv'
BY JoinOrTickInv, CrashInv, RestartInv, RecoverInv, StartServingInv DEF HostStep

\* Inv is inductive.
LEMMA NextInv ==
  ASSUME Inv, [Next]_vars
  PROVE  Inv'
BY ClientStepInv, HandlerStepInv, PollStepInv, HostStepInv, StutterInv DEF Next

-----------------------------------------------------------------------------
(* The limit *)

\* Between the two locks of add_operation there are no more operations than handlers, and
\* what is there and what is tracked add up to less than the limit and the handlers, or
\* nothing is there and recovery filled the map.
LimitInv ==
  /\ IsFiniteSet(InFlight) /\ Cardinality(InFlight) <= Handlers
  /\ \A f \in Federation :
       /\ IsFiniteSet(TrackedIn(f))
       /\ \/ Cardinality(TrackedIn(f)) + Cardinality(InFlightIn(f)) < MaxOps + Handlers
          \/ InFlightIn(f) = {} /\ Cardinality(TrackedIn(f)) <= PageSize

\* The sets the limit is about are counted by naturals.
LEMMA Counted ==
  ASSUME LimitInv, NEW f \in Federation
  PROVE  /\ Cardinality(TrackedIn(f)) \in Nat
         /\ IsFiniteSet(InFlightIn(f)) /\ Cardinality(InFlightIn(f)) \in Nat
         /\ Cardinality(InFlightIn(f)) <= Cardinality(InFlight)
         /\ Cardinality(InFlight) \in Nat
<1>1. InFlightIn(f) \subseteq InFlight
  BY DEF InFlightIn, InFlight
<1>. QED
  BY <1>1, FS_Subset, FS_CardinalityType DEF LimitInv

\* A step that puts nothing into the map or between the locks keeps the limit.
LEMMA LessIsInLimit ==
  ASSUME LimitInv,
         \A o \in Op : (active[o] = Nil => active'[o] = Nil) /\ (incoming[o] = Nil => incoming'[o] = Nil)
  PROVE  LimitInv'
<1>1. InFlight' \subseteq InFlight
  BY DEF InFlight
<1>2. IsFiniteSet(InFlight') /\ Cardinality(InFlight') <= Cardinality(InFlight)
      /\ Cardinality(InFlight') \in Nat /\ Cardinality(InFlight) \in Nat
  BY <1>1, FS_Subset, FS_CardinalityType DEF LimitInv
<1>3. ASSUME NEW f \in Federation
      PROVE  /\ IsFiniteSet(TrackedIn(f)')
             /\ \/ Cardinality(TrackedIn(f)') + Cardinality(InFlightIn(f)') < MaxOps + Handlers
                \/ InFlightIn(f)' = {} /\ Cardinality(TrackedIn(f)') <= PageSize
  <2>1. TrackedIn(f)' \subseteq TrackedIn(f) /\ InFlightIn(f)' \subseteq InFlightIn(f)
    BY DEF TrackedIn, InFlightIn
  <2>2. /\ IsFiniteSet(TrackedIn(f)') /\ Cardinality(TrackedIn(f)') <= Cardinality(TrackedIn(f))
        /\ Cardinality(TrackedIn(f)') \in Nat
    BY <2>1, FS_Subset, FS_CardinalityType DEF LimitInv
  <2>3. /\ Cardinality(InFlightIn(f)') <= Cardinality(InFlightIn(f))
        /\ Cardinality(InFlightIn(f)') \in Nat
    BY <2>1, Counted, FS_Subset, FS_CardinalityType
  <2>4. CASE Cardinality(TrackedIn(f)) + Cardinality(InFlightIn(f)) < MaxOps + Handlers
    BY <2>2, <2>3, <2>4, Counted, ConstantsAssumption DEF ConstantsAssumption
  <2>5. CASE InFlightIn(f) = {} /\ Cardinality(TrackedIn(f)) <= PageSize
    BY <2>1, <2>2, <2>5, Counted, ConstantsAssumption DEF ConstantsAssumption
  <2>. QED
    BY <2>2, <2>4, <2>5 DEF LimitInv
<1>. QED
  BY <1>2, <1>3, ConstantsAssumption DEF LimitInv, ConstantsAssumption

\* A handler that passes the limit sees room, and is one of the handlers.
LEMMA PassIsInLimit ==
  ASSUME TypeOK, LimitInv, NEW o \in Op, PassLimit(o)
  PROVE  LimitInv'
<1>1. /\ InFlight' \subseteq InFlight \cup {o} /\ o \notin InFlight
      /\ \A f \in Federation :
           /\ TrackedIn(f)' = TrackedIn(f)
           /\ InFlightIn(f)' \subseteq InFlightIn(f) \cup (IF f = FedOf[o] THEN {o} ELSE {})
  BY DEF PassLimit, InFlight, InFlightIn, TrackedIn, TypeOK, MapTypeOK
<1>2. IsFiniteSet(InFlight \cup {o}) /\ Cardinality(InFlight \cup {o}) = Cardinality(InFlight) + 1
  BY <1>1, FS_AddElement DEF LimitInv
<1>3. /\ IsFiniteSet(InFlight') /\ Cardinality(InFlight') \in Nat
      /\ Cardinality(InFlight') <= Handlers
  <2>1. Cardinality(InFlight) \in Nat /\ Cardinality(InFlight) < Handlers
    BY FS_CardinalityType DEF PassLimit, LimitInv
  <2>2. /\ IsFiniteSet(InFlight')
        /\ Cardinality(InFlight') <= Cardinality(InFlight) + 1
    BY <1>1, <1>2, FS_Subset
  <2>. QED
    BY <2>1, <2>2, FS_CardinalityType, ConstantsAssumption DEF ConstantsAssumption
<1>4. ASSUME NEW f \in Federation
      PROVE  /\ IsFiniteSet(TrackedIn(f)')
             /\ \/ Cardinality(TrackedIn(f)') + Cardinality(InFlightIn(f)') < MaxOps + Handlers
                \/ InFlightIn(f)' = {} /\ Cardinality(TrackedIn(f)') <= PageSize
  <2>1. CASE f = FedOf[o]
    <3>1. Cardinality(TrackedIn(f)) < MaxOps /\ Cardinality(TrackedIn(f)) \in Nat
      BY <2>1, Counted DEF PassLimit
    <3>2. InFlightIn(f)' \subseteq InFlight'
      BY DEF InFlightIn, InFlight
    <3>3. Cardinality(InFlightIn(f)') <= Handlers /\ Cardinality(InFlightIn(f)') \in Nat
      BY <1>3, <3>2, FS_Subset, FS_CardinalityType, ConstantsAssumption DEF ConstantsAssumption
    <3>. QED
      BY <1>1, <3>1, <3>3, ConstantsAssumption DEF LimitInv, ConstantsAssumption
  <2>2. CASE f # FedOf[o]
    <3>1. InFlightIn(f)' = InFlightIn(f)
      BY <2>2 DEF PassLimit, InFlightIn, TypeOK, MapTypeOK
    <3>. QED
      BY <1>1, <3>1 DEF LimitInv
  <2>. QED
    BY <2>1, <2>2
<1>. QED
  BY <1>3, <1>4 DEF LimitInv

\* An insertion moves an operation from between the locks into the map.
LEMMA InsertIsInLimit ==
  ASSUME Inv, LimitInv, NEW o \in Op, InsertOperation(o)
  PROVE  LimitInv'
<1>1. active[o] = Nil /\ o \in InFlight /\ incoming'[o] = Nil
  BY DEF InsertOperation, Inv, HandlerInv, TypeOK, MapTypeOK, InFlight
<1>2. /\ IsFiniteSet(InFlight') /\ Cardinality(InFlight') <= Handlers
  <2>1. InFlight' \subseteq InFlight
    BY DEF InsertOperation, InFlight, Inv, TypeOK, MapTypeOK
  <2>. QED
    BY <2>1, FS_Subset, FS_CardinalityType, ConstantsAssumption DEF LimitInv, ConstantsAssumption
<1>3. ASSUME NEW f \in Federation
      PROVE  /\ IsFiniteSet(TrackedIn(f)')
             /\ \/ Cardinality(TrackedIn(f)') + Cardinality(InFlightIn(f)') < MaxOps + Handlers
                \/ InFlightIn(f)' = {} /\ Cardinality(TrackedIn(f)') <= PageSize
  <2>1. CASE f = FedOf[o]
    <3>1. /\ TrackedIn(f)' = TrackedIn(f) \cup {o} /\ o \notin TrackedIn(f)
          /\ InFlightIn(f)' = InFlightIn(f) \ {o} /\ o \in InFlightIn(f)
      BY <1>1, <2>1 DEF InsertOperation, TrackedIn, InFlightIn, Inv, TypeOK, MapTypeOK
    <3>2. IsFiniteSet(TrackedIn(f)') /\ Cardinality(TrackedIn(f)') = Cardinality(TrackedIn(f)) + 1
      BY <3>1, FS_AddElement DEF LimitInv
    <3>3. Cardinality(InFlightIn(f)') = Cardinality(InFlightIn(f)) - 1
      BY <3>1, Counted, FS_RemoveElement
    <3>4. Cardinality(TrackedIn(f)) + Cardinality(InFlightIn(f)) < MaxOps + Handlers
      BY <3>1 DEF LimitInv
    <3>5. /\ Cardinality(TrackedIn(f)) \in Nat /\ Cardinality(InFlightIn(f)) \in Nat
      BY Counted
    <3>. QED
      BY <3>2, <3>3, <3>4, <3>5
  <2>2. CASE f # FedOf[o]
    <3>1. InFlightIn(f)' = InFlightIn(f) /\ TrackedIn(f)' = TrackedIn(f)
      BY <2>2 DEF InsertOperation, TrackedIn, InFlightIn, Inv, TypeOK, MapTypeOK
    <3>. QED
      BY <3>1 DEF LimitInv
  <2>. QED
    BY <2>1, <2>2
<1>. QED
  BY <1>2, <1>3 DEF LimitInv

\* A page of the log holds no more operations than its size.
LEMMA PageBound ==
  ASSUME TypeOK, NEW f \in Federation
  PROVE  IsFiniteSet(Page(f)) /\ Cardinality(Page(f)) <= PageSize
<1>. DEFINE n == Len(log[f])
            positions == {j \in 1..n : j > n - PageSize}
            entry == [i \in positions |-> log[f][i]]
<1>1. n \in Nat /\ PageSize \in Nat
  BY ConstantsAssumption DEF TypeOK, ClientTypeOK, ConstantsAssumption
<1>2. IsFiniteSet(positions) /\ Cardinality(positions) <= PageSize
  <2>1. positions \subseteq (n - PageSize + 1) .. n
    BY <1>1
  <2>2. n - PageSize + 1 \in Int /\ n \in Int /\ n - (n - PageSize + 1) + 1 = PageSize
    BY <1>1
  <2>3. /\ IsFiniteSet((n - PageSize + 1) .. n)
        /\ Cardinality((n - PageSize + 1) .. n) <= PageSize
    <3>1. IsFiniteSet((n - PageSize + 1) .. n)
      BY <2>2, FS_Interval
    <3>2. Cardinality((n - PageSize + 1) .. n)
            = IF n - PageSize + 1 > n THEN 0 ELSE n - (n - PageSize + 1) + 1
      BY <2>2, FS_Interval
    <3>. QED
      BY <1>1, <2>2, <3>1, <3>2
  <2>4. IsFiniteSet(positions) /\ Cardinality(positions) <= Cardinality((n - PageSize + 1) .. n)
    BY <2>1, <2>3, FS_Subset
  <2>. QED
    BY <1>1, <2>3, <2>4, FS_CardinalityType
<1>3. Page(f) = {entry[i] : i \in positions}
  BY DEF Page
<1>4. entry \in Surjection(positions, Page(f))
  BY <1>3 DEF Surjection
<1>5. IsFiniteSet(Page(f)) /\ Cardinality(Page(f)) <= Cardinality(positions)
  BY <1>2, <1>4, FS_Surjection
<1>. QED
  BY <1>1, <1>2, <1>5, FS_CardinalityType

\* Recovery puts a page into an empty part of the map, while no handler runs.
LEMMA RecoverIsInLimit ==
  ASSUME Inv, LimitInv, NEW f \in Federation, RecoverFederation(f)
  PROVE  LimitInv'
<1>1. InFlight' = InFlight /\ \A g \in Federation : InFlightIn(g)' = {}
  BY DEF RecoverFederation, apiVars, InFlight, InFlightIn, Inv, HandlerInv
<1>2. ASSUME NEW g \in Federation
      PROVE  /\ IsFiniteSet(TrackedIn(g)')
             /\ \/ Cardinality(TrackedIn(g)') + Cardinality(InFlightIn(g)') < MaxOps + Handlers
                \/ InFlightIn(g)' = {} /\ Cardinality(TrackedIn(g)') <= PageSize
  <2>1. CASE g = f
    <3>1. TrackedIn(f)' \subseteq Page(f)
      BY DEF RecoverFederation, TrackedIn, Inv, HandlerInv
    <3>2. /\ IsFiniteSet(TrackedIn(f)')
          /\ Cardinality(TrackedIn(f)') <= Cardinality(Page(f))
      BY <3>1, PageBound, FS_Subset DEF Inv
    <3>3. Cardinality(TrackedIn(f)') <= PageSize
      BY <3>2, PageBound, FS_CardinalityType, ConstantsAssumption DEF Inv, ConstantsAssumption
    <3>. QED
      BY <1>1, <2>1, <3>2, <3>3
  <2>2. CASE g # f
    <3>1. \A o \in Page(f) : FedOf[o] = f
      BY DEF Inv, TypeOK, ClientTypeOK, LogInv, Page
    <3>2. TrackedIn(g)' = TrackedIn(g)
      BY <2>2, <3>1 DEF RecoverFederation, TrackedIn
    <3>3. InFlightIn(g)' = InFlightIn(g)
      BY DEF RecoverFederation, apiVars, InFlightIn
    <3>. QED
      BY <3>2, <3>3 DEF LimitInv
  <2>. QED
    BY <2>1, <2>2
<1>. QED
  BY <1>1, <1>2 DEF LimitInv

\* Every other step puts nothing into the map.
LEMMA LimitStep ==
  ASSUME Inv, LimitInv, [Next]_vars
  PROVE  LimitInv'
<1>. USE DEF Inv, TypeOK, MapTypeOK
<1>1. ASSUME NEW o \in Op, ClientStep(o) \/ CreateOperation(o) \/ RejectAtLimit(o) \/ DropHandler(o)
      PROVE  LimitInv'
  <2>1. active' = active /\ \A p \in Op : incoming[p] = Nil => incoming'[p] = Nil
    BY <1>1 DEF ClientStep, Settle, CacheOutcome, CreateOperation, RejectAtLimit, DropHandler, apiVars
  <2>. QED
    BY <2>1, LessIsInLimit
<1>2. CASE PollStep
  <2>1. incoming' = incoming
    BY <1>2 DEF PollStep, PollIdle, PollBegin, Process, ProcessReceive, ProcessDeposit, ProcessOutgoing,
                ProcessNothing, Take, WriteBack, PollEnd, vars, apiVars
  <2>2. \A o \in Op : active[o] = Nil => active'[o] = Nil
    <3>1. CASE PollIdle \/ PollBegin \/ \E o \in Op : Process(o)
      BY <3>1 DEF PollIdle, PollBegin, Process, ProcessReceive, ProcessDeposit, ProcessOutgoing,
                  ProcessNothing, Take, vars
    <3>2. CASE WriteBack
      BY <3>2 DEF WriteBack
    <3>3. CASE PollEnd
      BY <3>3 DEF PollEnd
    <3>. QED
      BY <1>2, <3>1, <3>2, <3>3 DEF PollStep
  <2>. QED
    BY <2>1, <2>2, LessIsInLimit
<1>3. CASE \/ \E f \in Federation : JoinFederation(f)
           \/ Tick \/ Crash \/ StartServing
           \/ \E L \in SUBSET Federation : Restart(L)
  <2>1. \A o \in Op : (active[o] = Nil => active'[o] = Nil) /\ (incoming[o] = Nil => incoming'[o] = Nil)
    BY <1>3 DEF JoinFederation, Tick, Crash, StartServing, Restart, apiVars, Empty
  <2>. QED
    BY <2>1, LessIsInLimit
<1>4. CASE UNCHANGED vars
  <2>1. active' = active /\ incoming' = incoming
    BY <1>4 DEF vars, apiVars
  <2>. QED
    BY <2>1, LessIsInLimit
<1>. QED
  BY <1>1, <1>2, <1>3, <1>4, PassIsInLimit, InsertIsInLimit, RecoverIsInLimit
  DEF Next, HandlerStep, HostStep

-----------------------------------------------------------------------------
(* Recovery *)

\* What recovery must bring back of the federations whose logs it has read is tracked.
RecoveryInv ==
  phase = "recovering" =>
    \A o \in Op :
      /\ FedOf[o] \in loaded \ unread
      /\ fed[o] \in {"waiting", "confirmed"}
      /\ Recoverable(o)
      /\ o \in Page(FedOf[o])
      => active[o] # Nil

\* While start() reads the logs an operation can only stop being pending or grow old.
LEMMA RecoveryStep ==
  ASSUME Inv, RecoveryInv, [Next]_vars
  PROVE  RecoveryInv'
<1>. SUFFICES ASSUME phase' = "recovering", NEW o \in Op, FedOf[o] \in loaded' \ unread',
                     fed'[o] \in {"waiting", "confirmed"}, Recoverable(o)', o \in Page(FedOf[o])'
              PROVE  active'[o] # Nil
  BY DEF RecoveryInv
<1>1. CASE phase # "recovering"
  <2>1. ~\E L \in SUBSET Federation : Restart(L)
    BY DEF Restart
  <2>2. phase' = phase \/ phase' # "recovering"
    BY <2>1 DEF Next, ClientStep, Settle, CacheOutcome, HandlerStep, CreateOperation, PassLimit, RejectAtLimit,
                InsertOperation, DropHandler, PollStep, PollIdle, PollBegin, Process, ProcessReceive,
                ProcessDeposit, ProcessOutgoing, ProcessNothing, Take, WriteBack, PollEnd, HostStep,
                JoinFederation, Tick, Crash, RecoverFederation, StartServing, hostVars, vars
  <2>. QED
    BY <1>1, <2>2
<1>2. CASE phase = "recovering"
  <2>1. ASSUME NEW p \in Op, ClientStep(p)
        PROVE  active'[o] # Nil
    <3>1. /\ UNCHANGED <<log, born, now, active, loaded, unread>>
          /\ fed[o] \in {"waiting", "confirmed"} /\ (outcome[o] => outcome'[o])
      BY <2>1 DEF ClientStep, Settle, CacheOutcome, hostVars, Inv, TypeOK, ClientTypeOK, Terminal
    <3>. QED
      BY <1>2, <3>1 DEF RecoveryInv, Recoverable, Page
  <2>2. ASSUME NEW p \in Op, HandlerStep(p)
        PROVE  FALSE
    BY <1>2, <2>2 DEF HandlerStep, CreateOperation, PassLimit, RejectAtLimit, InsertOperation, DropHandler,
                      Inv, HandlerInv
  <2>3. CASE PollStep
    BY <1>2, <2>3 DEF PollStep, PollIdle, PollBegin, Process, ProcessReceive, ProcessDeposit, ProcessOutgoing,
                      ProcessNothing, Take, WriteBack, PollEnd, Inv, PollInv
  <2>4. CASE Tick
    <3>1. /\ UNCHANGED <<log, born, fed, outcome, active, loaded, unread>>
          /\ now \in Nat /\ now' = now + 1 /\ born[o] \in Nat /\ Timeout \in Nat
      BY <2>4, ConstantsAssumption DEF Tick, clientVars, Inv, TypeOK, ClientTypeOK, HostTypeOK, ConstantsAssumption
    <3>2. Recoverable(o)
      BY <3>1 DEF Recoverable
    <3>. QED
      BY <1>2, <3>1, <3>2 DEF RecoveryInv, Page
  <2>5. ASSUME NEW f \in Federation, RecoverFederation(f)
        PROVE  active'[o] # Nil
    <3>1. /\ UNCHANGED <<log, born, fed, outcome, now, loaded>> /\ unread' = unread \ {f}
          /\ Recoverable(o) /\ o \in Page(FedOf[o])
      BY <2>5 DEF RecoverFederation, clientVars, Recoverable, Page
    <3>2. CASE FedOf[o] = f
      <4>1. RecoveredOperation(o) # Nil
        BY <3>1, RecoveredOperationType, ConstantsAssumption
        DEF Inv, TypeOK, ClientTypeOK, ConstantsAssumption
      <4>. QED
        BY <2>5, <3>1, <3>2, <4>1 DEF RecoverFederation
    <3>3. CASE FedOf[o] # f
      <4>1. o \notin Page(f)
        BY <3>3 DEF Inv, TypeOK, ClientTypeOK, LogInv, Page
      <4>2. active'[o] = active[o]
        BY <2>5, <4>1 DEF RecoverFederation
      <4>. QED
        BY <1>2, <3>1, <3>3, <4>2 DEF RecoveryInv
    <3>. QED
      BY <3>2, <3>3
  <2>6. CASE (\E f \in Federation : JoinFederation(f)) \/ Crash \/ StartServing
             \/ \E L \in SUBSET Federation : Restart(L)
    BY <1>2, <2>6 DEF JoinFederation, Crash, StartServing, Restart
  <2>7. CASE UNCHANGED vars
    <3>1. UNCHANGED <<log, born, fed, outcome, now, loaded, unread, active>>
      BY <2>7 DEF vars, clientVars, hostVars
    <3>. QED
      BY <1>2, <3>1 DEF RecoveryInv, Recoverable, Page
  <2>. QED
    BY <2>1, <2>2, <2>3, <2>4, <2>5, <2>6, <2>7 DEF Next, HostStep
<1>3. CASE \E L \in SUBSET Federation : Restart(L)
  BY <1>3 DEF Restart
<1>. QED
  BY <1>1, <1>2, <1>3

-----------------------------------------------------------------------------
(* The theorems *)

\* The inductive invariant holds of every behaviour.
THEOREM Invariance == Spec => []Inv
BY InitInv, NextInv, PTL DEF Spec

\* Every variable always holds a value of its kind; in particular the task never
\* looks up a record that is not there.
THEOREM TypeCorrect == Spec => []TypeOK
<1>1. Inv => TypeOK
  BY DEF Inv
<1>2. QED
  BY <1>1, Invariance, PTL

\* Between two starts a receive's or deposit's claim is announced at most once:
\* once it was, its entry is gone, marked claimed, or about to be, and the handler
\* that could insert it again is past its insertion.
THEOREM NoDoubleReport == Spec => []ReportedOnce
<1>1. Inv => ReportedOnce
  BY DEF Inv, TypeOK, HostTypeOK, ReportInv, ReportedOnce
<1>2. QED
  BY <1>1, Invariance, PTL

\* No event contradicts the federation.
THEOREM NoFalseReport == Spec => []OnlyTrueReports
<1>1. Inv => OnlyTrueReports
  BY DEF Inv
<1>2. QED
  BY <1>1, Invariance, PTL

\* No claim is marked, or removed as completed, before its event is out.
THEOREM NoSwallowedClaim == Spec => []ClaimedMeansReported
<1>1. Inv => ClaimedMeansReported
  BY DEF Inv
<1>2. QED
  BY <1>1, Invariance, PTL

\* The task never writes a stale record back.
THEOREM NoStaleSnapshot == Spec => []SnapshotCurrent
<1>1. Inv => SnapshotCurrent
  BY DEF Inv
<1>2. QED
  BY <1>1, Invariance, PTL

\* No tracked operation is stranded without a client.
THEOREM NoneStranded == Spec => []ClientAvailable
<1>1. Inv => ClientAvailable
  BY DEF Inv
<1>2. QED
  BY <1>1, Invariance, PTL

\* The limit of a federation is exceeded by no more than the handlers between the two
\* locks, or by a page of recovered operations, however registrations and polls interleave.
THEOREM LimitOvershoot == Spec => []OvershootBounded
<1>1. Init => LimitInv
  <2>. SUFFICES ASSUME Init PROVE LimitInv
    OBVIOUS
  <2>1. InFlight = {} /\ \A f \in Federation : TrackedIn(f) = {} /\ InFlightIn(f) = {}
    BY DEF Init, InFlight, TrackedIn, InFlightIn, Empty
  <2>. QED
    BY <2>1, FS_EmptySet, ConstantsAssumption DEF LimitInv, ConstantsAssumption
<1>2. LimitInv => OvershootBounded
  <2>. SUFFICES ASSUME LimitInv, NEW f \in Federation
                PROVE  \/ Cardinality(TrackedIn(f)) <= PageSize
                       \/ Cardinality(TrackedIn(f)) < MaxOps + Handlers
    BY DEF OvershootBounded
  <2>1. /\ Cardinality(TrackedIn(f)) \in Nat /\ Cardinality(InFlightIn(f)) \in Nat
        /\ MaxOps + Handlers \in Nat
    BY Counted, ConstantsAssumption DEF ConstantsAssumption
  <2>. QED
    BY <2>1 DEF LimitInv
<1>. QED
  BY <1>1, <1>2, InitInv, NextInv, LimitStep, PTL DEF Spec

\* When the server starts to serve, all that is pending, not late and on the last page of
\* a loaded federation's log is tracked, whatever happened while the logs were read.
THEOREM RecoveryComplete == Spec => RecoversRecent
<1>1. Init => RecoveryInv
  BY DEF Init, RecoveryInv
<1>2. ASSUME Inv, RecoveryInv, phase = "recovering", phase' = "running", [Next]_vars, NEW o \in Op,
             FedOf[o] \in loaded, fed[o] \in {"waiting", "confirmed"}, Recoverable(o),
             NEW i \in DOMAIN log[FedOf[o]], log[FedOf[o]][i] = o, Len(log[FedOf[o]]) - i < PageSize
      PROVE  active[o] # Nil
  <2>1. unread = {}
    BY <1>2 DEF Next, ClientStep, Settle, CacheOutcome, HandlerStep, CreateOperation, PassLimit, RejectAtLimit,
                InsertOperation, DropHandler, PollStep, PollIdle, PollBegin, Process, ProcessReceive,
                ProcessDeposit, ProcessOutgoing, ProcessNothing, Take, WriteBack, PollEnd, HostStep,
                JoinFederation, Tick, Crash, Restart, RecoverFederation, StartServing, hostVars, vars
  <2>2. o \in Page(FedOf[o])
    <3>1. FedOf[o] \in Federation /\ PageSize \in Nat
      BY ConstantsAssumption DEF ConstantsAssumption
    <3>2. log[FedOf[o]] \in Seq(Op)
      BY <3>1, <1>2 DEF Inv, TypeOK, ClientTypeOK
    <3>3. i \in 1 .. Len(log[FedOf[o]]) /\ Len(log[FedOf[o]]) \in Nat
      BY <3>2, <1>2
    <3>4. i > Len(log[FedOf[o]]) - PageSize
      BY <3>1, <3>3, <1>2
    <3>. QED
      BY <3>3, <3>4, <1>2 DEF Page
  <2>. QED
    BY <1>2, <2>1, <2>2 DEF RecoveryInv
<1>3. Inv /\ RecoveryInv /\ [Next]_vars =>
        [phase = "recovering" /\ phase' = "running" =>
           \A o \in Op :
             /\ FedOf[o] \in loaded
             /\ fed[o] \in {"waiting", "confirmed"}
             /\ Recoverable(o)
             /\ \E i \in DOMAIN log[FedOf[o]] :
                  log[FedOf[o]][i] = o /\ Len(log[FedOf[o]]) - i < PageSize
             => active[o] # Nil]_vars
  BY <1>2
<1>. QED
  BY <1>1, <1>3, InitInv, NextInv, RecoveryStep, PTL DEF Spec, RecoversRecent
=============================================================================
