--------------------- MODULE PaymentLifecycleRefinement ---------------------
(***************************************************************************)
(* Proofs about the steps of PaymentLifecycle: what may leave the map, and *)
(* that the manager implements SettlementReporting.                        *)
(***************************************************************************)
EXTENDS PaymentLifecycleProofs

\* Only the end of a poll and a crash empty a slot of the map, and the end of a
\* poll empties those that are claimed or expired.
LEMMA LeaveStep ==
  ASSUME Inv, [Next]_vars, phase' # "down",
         NEW o \in Op, active[o] # Nil, active'[o] = Nil
  PROVE  active[o].ecash_claimed \/ Expired(active[o])
<1>. USE DEF apiVars, clientVars, pollVars, eventVars, hostVars
<1>1. CASE PollEnd
  BY <1>1 DEF PollEnd, Inv, PollInv
<1>2. CASE active' = active
  BY <1>2
<1>3. ASSUME NEW p \in Op, InsertOperation(p)
      PROVE  FALSE
  <2>1. incoming[p] # Nil /\ active' = [active EXCEPT ![p] = incoming[p]]
    BY <1>3 DEF InsertOperation
  <2>2. QED
    BY <2>1 DEF Inv, TypeOK, MapTypeOK
<1>4. CASE WriteBack
  BY <1>4, WrittenBackEntry DEF Inv, TypeOK, MapTypeOK
<1>5. CASE Crash
  BY <1>5 DEF Crash
<1>6. ASSUME NEW f \in Federation, RecoverFederation(f)
      PROVE  FALSE
  <2>1. ASSUME o \in Page(f), Recoverable(o)
        PROVE  RecoveredOperation(o) # Nil
    BY <2>1, RecoveredOperationType, ConstantsAssumption
    DEF ConstantsAssumption, Inv, TypeOK, ClientTypeOK
  <2>2. QED
    BY <1>6, <2>1 DEF RecoverFederation
<1>7. QED
  <2>1. ASSUME NEW p \in Op, ClientStep(p) PROVE active' = active
    BY <2>1 DEF ClientStep, Settle, CacheOutcome
  <2>2. ASSUME NEW p \in Op, HandlerStep(p)
        PROVE  active' = active \/ InsertOperation(p)
    BY <2>2 DEF HandlerStep, CreateOperation, PassLimit, RejectAtLimit, DropHandler
  <2>3. ASSUME NEW p \in Op, Process(p) PROVE active' = active
    BY <2>3 DEF Process, ProcessReceive, ProcessDeposit, ProcessOutgoing, ProcessNothing, Take
  <2>4. CASE PollStep
    BY <1>1, <1>2, <1>4, <2>3, <2>4 DEF PollStep, PollIdle, PollBegin, vars
  <2>5. CASE HostStep
    BY <1>2, <1>5, <1>6, <2>5 DEF HostStep, Tick, JoinFederation, Restart, StartServing
  <2>6. QED
    BY <1>2, <1>3, <2>1, <2>2, <2>4, <2>5 DEF Next, vars

\* While the process lives, nothing leaves the map but what was claimed or is late.
THEOREM NothingDropped == Spec => LeavesOnlyWhenDone
<1>1. Inv /\ [Next]_vars =>
        [phase' # "down" =>
           \A o \in Op : active[o] # Nil /\ active'[o] = Nil =>
             active[o].ecash_claimed \/ Expired(active[o])]_vars
  BY LeaveStep
<1>2. QED
  BY <1>1, Invariance, PTL DEF Spec, LeavesOnlyWhenDone

-----------------------------------------------------------------------------
(* The manager implements SettlementReporting. *)

\* Processing marks as claimed only what the task itself knows as a receive or a
\* deposit, so a misclassified payment is never marked.
LEMMA ProcessedClaim ==
  ASSUME Inv, ClaimInv, NEW o \in Op, Process(o)
  PROVE  current' # Nil /\ updated'.ecash_claimed => TypeOf[o] \in Incoming
<1>. USE TakenIsTracked DEF ToWriteBack
<1>1. ASSUME NEW s \in FedState, ProcessReceive(o, s) \/ ProcessDeposit(o, s)
      PROVE  TypeOf[o] \in Incoming
  BY <1>1 DEF ProcessReceive, ProcessDeposit, Incoming
<1>2. ASSUME ProcessOutgoing(o)
      PROVE  current' = Nil
  BY <1>2 DEF ProcessOutgoing
<1>3. CASE ProcessNothing(o)
  BY <1>3 DEF ProcessNothing, ClaimInv
<1>4. QED
  BY <1>1, <1>2, <1>3 DEF Process

\* ClaimInv is inductive beside Inv.
LEMMA ClaimStep ==
  ASSUME Inv, ClaimInv, [Next]_vars
  PROVE  ClaimInv'
<1>. USE DEF apiVars, clientVars, pollVars, eventVars, hostVars
<1>1. CASE UNCHANGED <<active, current, updated>>
  BY <1>1 DEF ClaimInv
<1>2. ASSUME NEW o \in Op, InsertOperation(o)
      PROVE  ClaimInv'
  BY <1>2 DEF InsertOperation, ClaimInv, Inv, TypeOK, MapTypeOK, HandlerInv
<1>3. ASSUME NEW o \in Op, Process(o)
      PROVE  ClaimInv'
  <2>1. active' = active
    BY <1>3 DEF Process, ProcessReceive, ProcessDeposit, ProcessOutgoing, ProcessNothing, Take
  <2>2. QED
    BY <1>3, <2>1, ProcessedCopy, ProcessedClaim DEF ClaimInv
<1>4. CASE WriteBack
  BY <1>4, WrittenBackEntry DEF WriteBack, ClaimInv, Inv, TypeOK, MapTypeOK
<1>5. CASE PollEnd
  BY <1>5 DEF PollEnd, ClaimInv
<1>6. CASE Crash
  BY <1>6 DEF Crash, Empty, ClaimInv
<1>7. ASSUME NEW f \in Federation, RecoverFederation(f)
      PROVE  ClaimInv'
  BY <1>7 DEF RecoverFederation, RecoveredOperation, ClaimInv
<1>8. QED
  <2>1. ASSUME NEW o \in Op, ClientStep(o) PROVE UNCHANGED <<active, current, updated>>
    BY <2>1 DEF ClientStep, Settle, CacheOutcome
  <2>2. ASSUME NEW o \in Op, HandlerStep(o)
        PROVE  UNCHANGED <<active, current, updated>> \/ InsertOperation(o)
    BY <2>2 DEF HandlerStep, CreateOperation, PassLimit, RejectAtLimit, DropHandler
  <2>3. CASE PollStep
    BY <1>1, <1>3, <1>4, <1>5, <2>3 DEF PollStep, PollIdle, PollBegin, vars
  <2>4. CASE HostStep
    BY <1>1, <1>6, <1>7, <2>4 DEF HostStep, Tick, JoinFederation, Restart, StartServing
  <2>5. QED
    BY <1>1, <1>2, <2>1, <2>2, <2>3, <2>4 DEF Next, vars

\* Where the map and the events do not change, the abstract state does not, except
\* that the federation may settle one operation.
LEMMA ClientRefines ==
  ASSUME Inv, NEW o \in Op, ClientStep(o)
  PROVE  Reporting!Next \/ UNCHANGED Reporting!absVars
<1>. USE DEF apiVars, pollVars, eventVars, hostVars
<1>1. UNCHANGED <<active, now, successes>>
  BY DEF ClientStep, Settle, CacheOutcome
<1>2. Watching' = Watching /\ Late' = Late /\ Reported' = Reported
  BY <1>1 DEF Watching, Late, Reported, Tracked, Announced, Expired
<1>3. Settled' = Settled \/ Settled' = Settled \cup {o}
  BY DEF ClientStep, Settle, CacheOutcome, Settled, Terminal, Inv, TypeOK, ClientTypeOK
<1>4. QED
  BY <1>2, <1>3 DEF Reporting!Next, Reporting!Settle, Reporting!absVars

\* A registration takes charge of an operation that was not reported.
LEMMA HandlerRefines ==
  ASSUME Inv, NEW o \in Op, HandlerStep(o)
  PROVE  Reporting!Next \/ UNCHANGED Reporting!absVars
<1>. USE DEF clientVars, pollVars, eventVars, hostVars
<1>1. CASE InsertOperation(o)
  <2>1. /\ active[o] = Nil /\ incoming[o] # Nil /\ incoming[o] \in PaymentOperation
        /\ active' = [active EXCEPT ![o] = incoming[o]]
        /\ handler[o] = "created"
        /\ UNCHANGED <<fed, now, successes>>
    BY <1>1 DEF InsertOperation, Inv, TypeOK, MapTypeOK, HandlerInv
  <2>2. Settled' = Settled /\ Reported' = Reported /\ o \notin Reported
    BY <2>1 DEF Settled, Reported, Inv, ReportInv
  <2>3. /\ active'[o] = incoming[o]
        /\ \A p \in Op : p # o => active'[p] = active[p]
    BY <2>1 DEF Inv, TypeOK, MapTypeOK
  <2>. DEFINE S == {p \in {o} : Announced(incoming[p])}
  <2>. DEFINE T == {p \in S : now - incoming[p].created_at > Timeout}
  <2>4. Watching' = Watching \cup S
    BY <2>1, <2>3 DEF Watching, Tracked, Announced
  <2>5. Late' = Late \cup T
    BY <2>1, <2>3, <2>4 DEF Watching, Late, Tracked, Announced, Expired
  <2>6. S \cap Reported = {} /\ T \subseteq S /\ S \in SUBSET Op /\ T \in SUBSET Op
    BY <2>2
  <2>. HIDE DEF S, T
  <2>7. Reporting!Watch(S, T)
    BY <2>2, <2>4, <2>5, <2>6 DEF Reporting!Watch
  <2>8. QED
    BY <2>6, <2>7 DEF Reporting!Next
<1>2. CASE CreateOperation(o)
  <2>1. fed[o] # "succeeded" /\ UNCHANGED <<active, now, successes>>
    BY <1>2 DEF CreateOperation, Inv, LogInv
  <2>2. Settled' = Settled
    BY <1>2, <2>1 DEF CreateOperation, Settled, Inv, TypeOK, ClientTypeOK
  <2>3. Watching' = Watching /\ Late' = Late /\ Reported' = Reported
    BY <2>1 DEF Watching, Late, Reported, Tracked, Announced, Expired
  <2>4. QED
    BY <2>2, <2>3 DEF Reporting!absVars
<1>3. CASE UNCHANGED <<fed, active, now, successes>>
  BY <1>3 DEF Reporting!absVars, Settled, Watching, Late, Reported, Tracked, Announced, Expired
<1>4. QED
  BY <1>1, <1>2, <1>3 DEF HandlerStep, PassLimit, RejectAtLimit, DropHandler

\* Processing reports an operation that is watched, settled and unreported, or
\* nothing that the abstract specification sees.
LEMMA ProcessRefines ==
  ASSUME Inv, NEW o \in Op, Process(o)
  PROVE  Reporting!Next \/ UNCHANGED Reporting!absVars
<1>. USE DEF clientVars, apiVars, eventVars, hostVars
<1>0. Take(o) /\ UNCHANGED <<fed, active, now>>
  BY DEF Process, ProcessReceive, ProcessDeposit, ProcessOutgoing, ProcessNothing, Take
<1>1. Settled' = Settled /\ Watching' = Watching /\ Late' = Late
  BY <1>0 DEF Settled, Watching, Late, Tracked, Announced, Expired
<1>2. CASE Reported' = Reported
  BY <1>1, <1>2 DEF Reporting!absVars
<1>3. CASE /\ PublishSuccess(o) /\ fed[o] = "succeeded" /\ TypeOf[o] \in Incoming
           /\ ~active[o].ecash_claimed /\ Announced(active[o])
  <2>1. o \in Settled /\ o \in Watching /\ o \notin Reported
    BY <1>0, <1>3, TakenIsTracked, ConstantsAssumption
    DEF ConstantsAssumption, Settled, Watching, Reported, Tracked, Inv, ReportInv
  <2>2. Reported' = Reported \cup {o}
    BY <1>3, AtMostType DEF PublishSuccess, Reported, Inv, TypeOK, HostTypeOK
  <2>3. QED
    BY <1>1, <2>1, <2>2 DEF Reporting!Next, Reporting!Report
<1>4. CASE PublishSuccess(o) /\ TypeOf[o] \notin Incoming
  <2>1. Reported' = Reported
    BY <1>4 DEF PublishSuccess, Reported, Inv, TypeOK, HostTypeOK
  <2>2. QED
    BY <1>2, <2>1
<1>5. QED
  <2>1. UNCHANGED successes => Reported' = Reported
    BY DEF Reported
  <2>2. QED
    BY <1>2, <1>3, <1>4, <2>1, ProcessedEvents DEF PublishFailure

\* The end of a poll lets go of what is reported or late.
LEMMA PollEndRefines ==
  ASSUME Inv, ClaimInv, PollEnd
  PROVE  Reporting!Next \/ UNCHANGED Reporting!absVars
<1>. USE DEF PollEnd, clientVars, apiVars, eventVars, hostVars
<1>. DEFINE S == Watching \cap (completed \cup timed_out)
<1>1. Settled' = Settled /\ Reported' = Reported
  BY DEF Settled, Reported
<1>2. Watching' = Watching \ S
  BY DEF Watching, Tracked, Announced
<1>3. Late' = Late \ S
  BY <1>2 DEF Late, Watching, Tracked, Announced, Expired
<1>4. S \subseteq Watching \cap (Reported \cup Late)
  BY DEF Inv, PollInv, ClaimInv, ClaimedMeansReported, Watching, Late, Reported, Tracked
<1>5. S \in SUBSET Op
  BY DEF Watching, Tracked
<1>. HIDE DEF S
<1>6. QED
  BY <1>1, <1>2, <1>3, <1>4, <1>5 DEF Reporting!Next, Reporting!LetGo

\* Beginning a poll and writing back are invisible.
LEMMA PollRefines ==
  ASSUME Inv, ClaimInv, PollStep
  PROVE  Reporting!Next \/ UNCHANGED Reporting!absVars
<1>. USE DEF clientVars, apiVars, eventVars, hostVars
<1>1. CASE UNCHANGED <<fed, active, now, successes>>
  BY <1>1 DEF Reporting!absVars, Settled, Watching, Late, Reported, Tracked, Announced, Expired
<1>2. CASE WriteBack
  <2>1. Settled' = Settled /\ Reported' = Reported /\ now' = now
    BY <1>2 DEF WriteBack, Settled, Reported
  <2>2. \A p \in Op : /\ active'[p] = Nil <=> active[p] = Nil
                      /\ Announced(active'[p]) <=> Announced(active[p])
                      /\ active'[p].created_at = active[p].created_at
    BY <1>2, WrittenBackEntry DEF Inv, TypeOK, MapTypeOK
  <2>3. Watching' = Watching
    BY <2>2 DEF Watching, Tracked, Announced
  <2>4. Late' = Late
    BY <2>1, <2>2, <2>3 DEF Late, Watching, Tracked, Expired
  <2>5. QED
    BY <2>1, <2>3, <2>4 DEF Reporting!absVars
<1>3. QED
  BY <1>1, <1>2, ProcessRefines, PollEndRefines
  DEF PollStep, PollIdle, PollBegin, vars

\* A crash forgets, the clock makes entries late, a recovery takes charge of the
\* operations it reads.
LEMMA HostRefines ==
  ASSUME Inv, HostStep
  PROVE  Reporting!Next \/ UNCHANGED Reporting!absVars
<1>. USE DEF clientVars, apiVars, pollVars, eventVars
<1>1. CASE UNCHANGED <<fed, active, now, successes>>
  BY <1>1 DEF Reporting!absVars, Settled, Watching, Late, Reported, Tracked, Announced, Expired
<1>2. CASE Tick
  <2>1. Settled' = Settled /\ Watching' = Watching /\ Reported' = Reported
    BY <1>2 DEF Tick, Settled, Watching, Reported, Tracked, Announced
  <2>2. Late \subseteq Late' /\ Late' \subseteq Watching
    BY <1>2, <2>1, ConstantsAssumption
    DEF ConstantsAssumption, Tick, Late, Watching, Tracked, Expired, PaymentOperation,
        Inv, TypeOK, MapTypeOK, HostTypeOK
  <2>3. Reporting!GrowLate(Late')
    BY <2>1, <2>2 DEF Reporting!GrowLate
  <2>4. Late' \in SUBSET Op
    BY <2>2 DEF Watching, Tracked
  <2>5. QED
    BY <2>3, <2>4 DEF Reporting!Next
<1>3. CASE Crash
  BY <1>3 DEF Crash, Empty, Reporting!Next, Reporting!Forget,
              Settled, Watching, Late, Reported, Tracked
<1>4. ASSUME NEW f \in Federation, RecoverFederation(f)
      PROVE  Reporting!Next
  <2>1. Settled' = Settled /\ Reported' = Reported /\ Reported = {}
    BY <1>4 DEF RecoverFederation, Settled, Reported, Inv, ReportInv
  <2>2. \A o \in Op : active'[o] = active[o] \/ active[o] = Nil
    <3>1. \A o \in Page(f) : FedOf[o] = f
      BY DEF Inv, TypeOK, ClientTypeOK, LogInv, Page
    <3>2. QED
      BY <1>4, <3>1 DEF RecoverFederation, Inv, HandlerInv
  <2>3. Watching \subseteq Watching' /\ Watching' \subseteq Op
    BY <2>2 DEF Watching, Tracked, Announced
  <2>4. Late \subseteq Late' /\ Late' \subseteq Watching'
    BY <1>4, <2>2 DEF RecoverFederation, Late, Watching, Tracked, Announced, Expired
  <2>5. Late' \cap Watching \subseteq Late
    BY <1>4, <2>2 DEF RecoverFederation, Late, Watching, Tracked, Announced, Expired
  <2>6. Reporting!Watch(Watching' \ Watching, Late' \ Watching)
    BY <2>1, <2>3, <2>4, <2>5 DEF Reporting!Watch, Late
  <2>7. Watching' \ Watching \in SUBSET Op /\ Late' \ Watching \in SUBSET Op
    BY <2>3, <2>4
  <2>8. QED
    BY <2>6, <2>7 DEF Reporting!Next
<1>5. QED
  BY <1>1, <1>2, <1>3, <1>4 DEF HostStep, JoinFederation, Restart, StartServing

\* The manager starts as the specification does.
LEMMA InitRefines == Init => Reporting!Init
BY DEF Init, Reporting!Init, Settled, Watching, Late, Reported, Tracked, Empty

\* Every step of the manager is a step of the specification or invisible to it.
LEMMA StepRefines ==
  ASSUME Inv, ClaimInv, [Next]_vars
  PROVE  [Reporting!Next]_Reporting!absVars
<1>1. CASE UNCHANGED vars
  BY <1>1 DEF vars, clientVars, apiVars, pollVars, eventVars, hostVars, Reporting!absVars,
              Settled, Watching, Late, Reported, Tracked, Announced, Expired
<1>2. QED
  BY <1>1, ClientRefines, HandlerRefines, PollRefines, HostRefines DEF Next

\* Only receives and deposits are ever marked claimed.
THEOREM OnlyReceiptsClaimed == Spec => []ClaimInv
<1>1. Init => ClaimInv
  BY DEF Init, ClaimInv, Empty
<1>2. QED
  BY <1>1, ClaimStep, Invariance, PTL DEF Spec

\* The manager implements SettlementReporting.
THEOREM Refinement == Spec => ImplementsReporting
BY InitRefines, StepRefines, Invariance, OnlyReceiptsClaimed, PTL
DEF Spec, ImplementsReporting, Reporting!Spec
=============================================================================
