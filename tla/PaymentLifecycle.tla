-------------------------- MODULE PaymentLifecycle --------------------------
(***************************************************************************)
(* The payment lifecycle manager of fmcd                                   *)
(* (src/core/services/payment_lifecycle.rs) with the request handlers that *)
(* register operations in it, the background task that polls them, and the *)
(* recovery that refills it from the operation log after a restart.        *)
(*                                                                         *)
(* Three kinds of process share active_operations:                         *)
(*   - a request handler creates an operation in a federation client and   *)
(*     then calls add_operation, which reads the map to check a limit,     *)
(*     releases the lock, and takes it again to insert;                    *)
(*   - the poll task works on a snapshot of the map, operation by          *)
(*     operation, publishing events, writing flags back, and removing      *)
(*     what is finished at the end;                                        *)
(*   - start() reads the operation log before the server accepts requests. *)
(*                                                                         *)
(* Left out: correlation ids, metadata and logging; amounts are abstracted *)
(* to "known or not", the only thing that decides whether a receive is     *)
(* announced.  The federation clients are external: what the code can see  *)
(* of them is the state of an operation and its cached outcome.            *)
(***************************************************************************)
EXTENDS Integers, FiniteSets, Sequences

CONSTANTS
  Op,          \* operation ids
  Federation,  \* federation ids
  FedOf,       \* the federation of each operation
  TypeOf,      \* what each operation really is, a PaymentType
  MetaOf,      \* the fields found in the metadata of its log entry
  MaxOps,      \* max_operations_per_federation
  Timeout,     \* operation_timeout, in clock ticks
  PageSize,    \* how many log entries recovery reads per federation
  Nil,         \* no operation, an empty slot of a map
  Handlers,    \* how many requests may be inside add_operation at once
  Horizon,     \* bound on the clock
  MaxCrashes,  \* bound on the number of crashes
  MaxEvents    \* events of one kind about one operation are counted up to here

PaymentType ==
  {"LightningReceive", "LightningPay", "OnchainDeposit", "OnchainWithdraw"}

\* What a client reports of an operation: "absent" before it exists,
\* "succeeded" for Claimed, Success and Succeeded, "failed" for Canceled,
\* Refunded and Failed.  Only deposits pass through "confirmed".
FedState == {"absent", "waiting", "confirmed", "succeeded", "failed"}
Terminal == {"succeeded", "failed"}

\* A handler: "created" once the client has made the operation, "tracked",
\* "rejected" by the limit, "untracked" when the handler never registers it,
\* "dropped" when the handler or the process goes away first.
HandlerState == {"none", "created", "tracked", "rejected", "untracked", "dropped"}

PaymentOperation ==
  [payment_type    : PaymentType,
   created_at      : Nat,
   amount_known    : BOOLEAN,
   claim_attempted : BOOLEAN,
   ecash_claimed   : BOOLEAN]

ASSUME ConstantsAssumption ==
  /\ FedOf \in [Op -> Federation]
  /\ TypeOf \in [Op -> PaymentType]
  /\ MaxOps \in Nat
  /\ Timeout \in Nat
  /\ PageSize \in Nat
  /\ Handlers \in Nat \ {0}
  /\ Horizon \in Nat
  /\ MaxCrashes \in Nat
  /\ MaxEvents \in Nat \ {0, 1}
  /\ Nil \notin Op
  /\ Nil \notin PaymentOperation
  /\ Nil \notin PaymentType

VARIABLES
  fed,        \* state of each operation at its federation client
  outcome,    \* does the operation log hold a cached outcome
  log,        \* per federation, its operations in order of creation
  born,       \* creation time in the operation log
  now,        \* the clock
  phase,      \* "down", "recovering" in start(), "running"
  loaded,     \* federations with a client in MultiMint
  unread,     \* federations whose log start() has not read yet
  handler,    \* request handler of each operation
  incoming,   \* the record add_operation holds between its two locks
  active,     \* active_operations; Nil where there is no entry
  polling,    \* is process_all_operations running
  snapshot,   \* its clone of the map
  queue,      \* operations of the clone still to be processed
  current,    \* the operation processed but not yet written back
  updated,    \* operation_mut, the processed copy
  completed,  \* completed_operations
  timed_out,  \* timed_out_operations
  successes,  \* success events published since the process started
  failures,   \* failure events published since the process started
  crashes     \* number of crashes so far

clientVars == <<fed, outcome, log, born>>
apiVars    == <<handler, incoming>>
pollVars   == <<polling, snapshot, queue, current, updated, completed, timed_out>>
eventVars  == <<successes, failures>>
hostVars   == <<now, phase, loaded, unread, crashes>>
vars == <<clientVars, apiVars, active, pollVars, eventVars, hostVars>>

Empty == [o \in Op |-> Nil]

-----------------------------------------------------------------------------
(* Reading the state *)

Tracked == {o \in Op : active[o] # Nil}

TrackedIn(f) == {o \in Op : FedOf[o] = f /\ active[o] # Nil}

\* Past the limit check of add_operation, not yet inserted.
InFlight == {o \in Op : incoming[o] # Nil}

InFlightIn(f) == {o \in Op : FedOf[o] = f /\ incoming[o] # Nil}

Expired(op) == now - op.created_at > Timeout

\* States the last item drained from an update stream may show: the stream
\* replays from the start and the drain may stop early, but an operation with a
\* cached outcome yields only that.
Reached(o) ==
  CASE fed[o] = "waiting"   -> {"waiting"}
    [] fed[o] = "confirmed" -> {"waiting", "confirmed"}
    [] OTHER                -> {"waiting", fed[o]}
                                 \cup (IF TypeOf[o] = "OnchainDeposit"
                                       THEN {"confirmed"} ELSE {})

Observable(o) == IF outcome[o] THEN {fed[o]} ELSE Reached(o)

\* The first item of a stream: the cached outcome, or else the start of the replay.
FirstItem(o) == IF outcome[o] THEN fed[o] ELSE "waiting"

AtMost(n, cap) == IF n > cap THEN cap ELSE n

-----------------------------------------------------------------------------
(* The federation clients: external, they move whenever they are loaded. *)

Settle(o, s) ==
  /\ FedOf[o] \in loaded
  /\ \/ fed[o] = "waiting" /\ s \in Terminal
     \/ fed[o] = "waiting" /\ s = "confirmed" /\ TypeOf[o] = "OnchainDeposit"
     \/ fed[o] = "confirmed" /\ s \in Terminal
  /\ fed' = [fed EXCEPT ![o] = s]
  /\ UNCHANGED <<outcome, log, born, apiVars, active, pollVars, eventVars, hostVars>>

\* Some subscriber drained the update stream of a finished operation: the poll
\* task, the invoice monitor, a status or stream request.
CacheOutcome(o) ==
  /\ FedOf[o] \in loaded
  /\ fed[o] \in Terminal
  /\ ~outcome[o]
  /\ outcome' = [outcome EXCEPT ![o] = TRUE]
  /\ UNCHANGED <<fed, log, born, apiVars, active, pollVars, eventVars, hostVars>>

-----------------------------------------------------------------------------
(* Request handlers *)

\* create_invoice, create_deposit_address, withdraw_onchain or pay_invoice has
\* made the client start the operation; pay_invoice never registers it.
\* Bounds: an operation is created early enough to expire before Horizon.
CreateOperation(o) ==
  /\ phase = "running"
  /\ FedOf[o] \in loaded
  /\ handler[o] = "none"
  /\ now + Timeout < Horizon
  /\ fed' = [fed EXCEPT ![o] = "waiting"]
  /\ log' = [log EXCEPT ![FedOf[o]] = Append(@, o)]
  /\ born' = [born EXCEPT ![o] = now]
  /\ handler' = [handler EXCEPT ![o] =
                   IF TypeOf[o] = "LightningPay" THEN "untracked" ELSE "created"]
  /\ UNCHANGED <<outcome, incoming, active, pollVars, eventVars, hostVars>>

\* Slip: the record is dated before the operation exists.
NewOperationSkewed(o) ==
  [payment_type    |-> TypeOf[o],
   created_at      |-> now - 1,
   amount_known    |-> TypeOf[o] # "OnchainDeposit",
   claim_attempted |-> FALSE,
   ecash_claimed   |-> FALSE]

\* The record a track_* call passes to add_operation.
NewOperation(o) ==
  [payment_type    |-> TypeOf[o],
   created_at      |-> now,
   amount_known    |-> TypeOf[o] # "OnchainDeposit",
   claim_attempted |-> FALSE,
   ecash_claimed   |-> FALSE]

\* Slip: the limit is compared off by one.
PassLimitOffByOne(o) ==
  /\ handler[o] = "created"
  /\ incoming[o] = Nil
  /\ now + Timeout < Horizon
  /\ Cardinality(InFlight) < Handlers
  /\ Cardinality(TrackedIn(FedOf[o])) <= MaxOps
  /\ incoming' = [incoming EXCEPT ![o] = NewOperation(o)]
  /\ UNCHANGED <<handler, active, clientVars, pollVars, eventVars, hostVars>>

\* add_operation, under the read lock: there is room.
\* Bounds: Handlers, and Horizon as in CreateOperation.
PassLimit(o) ==
  /\ handler[o] = "created"
  /\ incoming[o] = Nil
  /\ now + Timeout < Horizon
  /\ Cardinality(InFlight) < Handlers
  /\ Cardinality(TrackedIn(FedOf[o])) < MaxOps
  /\ incoming' = [incoming EXCEPT ![o] = NewOperation(o)]
  /\ UNCHANGED <<handler, active, clientVars, pollVars, eventVars, hostVars>>

\* add_operation, under the read lock: the federation is at its limit; the
\* handler logs the error and answers the request all the same.
RejectAtLimit(o) ==
  /\ handler[o] = "created"
  /\ incoming[o] = Nil
  /\ Cardinality(TrackedIn(FedOf[o])) >= MaxOps
  /\ handler' = [handler EXCEPT ![o] = "rejected"]
  /\ UNCHANGED <<incoming, active, clientVars, pollVars, eventVars, hostVars>>

\* add_operation, under the write lock.
InsertOperation(o) ==
  /\ incoming[o] # Nil
  /\ active' = [active EXCEPT ![o] = incoming[o]]
  /\ incoming' = [incoming EXCEPT ![o] = Nil]
  /\ handler' = [handler EXCEPT ![o] = "tracked"]
  /\ UNCHANGED <<clientVars, pollVars, eventVars, hostVars>>

\* The caller closes the connection: the server drops the handler's future at
\* the await it is suspended in, and what follows never runs.
DropHandler(o) ==
  /\ handler[o] = "created"
  /\ handler' = [handler EXCEPT ![o] = "dropped"]
  /\ incoming' = [incoming EXCEPT ![o] = Nil]
  /\ UNCHANGED <<active, clientVars, pollVars, eventVars, hostVars>>

\* register_new: a federation is joined while the server runs.
JoinFederation(f) ==
  /\ phase = "running"
  /\ f \notin loaded
  /\ loaded' = loaded \cup {f}
  /\ UNCHANGED <<now, phase, unread, crashes,
                 clientVars, apiVars, active, pollVars, eventVars>>

-----------------------------------------------------------------------------
(* The poll task: process_all_operations *)

\* Nothing to process: the poll returns at once.
PollIdle ==
  /\ phase = "running"
  /\ ~polling
  /\ Tracked = {}
  /\ UNCHANGED vars

\* Slip: an operation is late one tick early.
PollBeginEarly ==
  /\ phase = "running"
  /\ ~polling
  /\ Tracked # {}
  /\ LET late == {o \in Tracked : now - active[o].created_at >= Timeout}
     IN /\ timed_out' = late
        /\ queue' = Tracked \ late
  /\ polling' = TRUE
  /\ snapshot' = active
  /\ UNCHANGED <<current, updated, completed,
                 clientVars, apiVars, active, eventVars, hostVars>>

PollBegin ==
  /\ phase = "running"
  /\ ~polling
  /\ Tracked # {}
  /\ LET late == {o \in Tracked : Expired(active[o])}
     IN /\ timed_out' = late
        /\ queue' = Tracked \ late
  /\ polling' = TRUE
  /\ snapshot' = active
  /\ UNCHANGED <<current, updated, completed,
                 clientVars, apiVars, active, eventVars, hostVars>>

\* The task takes the next operation.  It needs a client: the branch in which
\* multimint.get finds none is dead as long as ClientAvailable holds.
Take(o) ==
  /\ polling
  /\ current = Nil
  /\ o \in queue
  /\ FedOf[o] \in loaded
  /\ queue' = queue \ {o}
  /\ UNCHANGED <<polling, snapshot, completed, timed_out,
                 clientVars, apiVars, active, hostVars>>

PublishSuccess(o) ==
  /\ successes' = [successes EXCEPT ![o] = AtMost(@ + 1, MaxEvents)]
  /\ UNCHANGED failures

PublishFailure(o) ==
  /\ failures' = [failures EXCEPT ![o] = AtMost(@ + 1, MaxEvents)]
  /\ UNCHANGED successes

\* Receives and deposits are processed on a copy that is written back.
ToWriteBack(o, op) == current' = o /\ updated' = op

\* Slip: the claim is marked but not announced.
ReceiveSilently(o, s) ==
  /\ Take(o)
  /\ snapshot[o].payment_type = "LightningReceive"
  /\ TypeOf[o] = "LightningReceive"
  /\ s \in Observable(o)
  /\ ToWriteBack(o, [snapshot[o] EXCEPT !.ecash_claimed = @ \/ s = "succeeded"])
  /\ UNCHANGED eventVars

\* Slip: the state is read as a receive's whatever the operation really is.
ReceiveUnchecked(o, s) ==
  /\ Take(o)
  /\ snapshot[o].payment_type = "LightningReceive"
  /\ s \in Observable(o)
  /\ ToWriteBack(o, [snapshot[o] EXCEPT !.ecash_claimed = @ \/ s = "succeeded"])
  /\ IF s = "succeeded" THEN PublishSuccess(o) ELSE UNCHANGED eventVars

\* process_lightning_receive, having drained the stream down to state s.
ProcessReceive(o, s) ==
  /\ Take(o)
  /\ snapshot[o].payment_type = "LightningReceive"
  /\ TypeOf[o] = "LightningReceive"
  /\ s \in Observable(o)
  /\ LET op == snapshot[o]
     IN CASE s = "succeeded" /\ ~op.ecash_claimed ->
               /\ ToWriteBack(o, [op EXCEPT !.ecash_claimed = TRUE,
                                            !.claim_attempted = TRUE])
               /\ IF op.amount_known THEN PublishSuccess(o) ELSE UNCHANGED eventVars
          [] s = "failed" ->
               /\ ToWriteBack(o, [op EXCEPT !.claim_attempted = TRUE])
               /\ UNCHANGED eventVars
          [] OTHER ->
               /\ ToWriteBack(o, op)
               /\ UNCHANGED eventVars

\* Slip: a confirmed deposit is announced as claimed.
DepositOnConfirmed(o, s) ==
  /\ Take(o)
  /\ snapshot[o].payment_type = "OnchainDeposit"
  /\ TypeOf[o] = "OnchainDeposit"
  /\ s \in Observable(o)
  /\ IF s \in {"confirmed", "succeeded"} /\ ~snapshot[o].ecash_claimed
     THEN /\ ToWriteBack(o, [snapshot[o] EXCEPT !.ecash_claimed = TRUE])
          /\ PublishSuccess(o)
     ELSE /\ ToWriteBack(o, snapshot[o])
          /\ UNCHANGED eventVars

\* process_onchain_deposit, having drained the stream down to state s.
ProcessDeposit(o, s) ==
  /\ Take(o)
  /\ snapshot[o].payment_type = "OnchainDeposit"
  /\ TypeOf[o] = "OnchainDeposit"
  /\ s \in Observable(o)
  /\ LET op == snapshot[o]
     IN CASE s = "succeeded" /\ ~op.ecash_claimed ->
               /\ ToWriteBack(o, [op EXCEPT !.ecash_claimed = TRUE,
                                            !.claim_attempted = TRUE,
                                            !.amount_known = TRUE])
               /\ PublishSuccess(o)
          [] s = "confirmed" ->
               /\ ToWriteBack(o, [op EXCEPT !.amount_known = TRUE])
               /\ UNCHANGED eventVars
          [] s = "failed" ->
               /\ ToWriteBack(o, [op EXCEPT !.claim_attempted = TRUE])
               /\ UNCHANGED eventVars
          [] OTHER ->
               /\ ToWriteBack(o, op)
               /\ UNCHANGED eventVars

\* process_lightning_pay and process_onchain_withdraw look at the first item of
\* the stream only, and write nothing back.
ProcessOutgoing(o) ==
  /\ Take(o)
  /\ snapshot[o].payment_type \in {"LightningPay", "OnchainWithdraw"}
  /\ TypeOf[o] = snapshot[o].payment_type
  /\ CASE FirstItem(o) = "succeeded" /\ snapshot[o].amount_known -> PublishSuccess(o)
       [] FirstItem(o) = "failed" -> PublishFailure(o)
       [] OTHER -> UNCHANGED eventVars
  /\ UNCHANGED <<current, updated>>

\* No module, the subscription fails, or no update comes in time: nothing is
\* learnt; a receive or deposit is written back as it was.
ProcessNothing(o) ==
  /\ Take(o)
  /\ IF snapshot[o].payment_type \in {"LightningReceive", "OnchainDeposit"}
     THEN ToWriteBack(o, snapshot[o])
     ELSE UNCHANGED <<current, updated>>
  /\ UNCHANGED eventVars

Process(o) ==
  \/ \E s \in FedState : ProcessReceive(o, s)
  \/ \E s \in FedState : ProcessDeposit(o, s)
  \/ ProcessOutgoing(o)
  \/ ProcessNothing(o)

\* The entry as the processed copy leaves it: only deposits copy the amount.
WrittenBack(o) ==
  [active[o] EXCEPT
     !.claim_attempted = updated.claim_attempted,
     !.ecash_claimed = updated.ecash_claimed,
     !.amount_known = IF updated.payment_type = "OnchainDeposit"
                      THEN updated.amount_known ELSE @]

\* Slip: the processed copy is dropped.
WriteNothingBack ==
  /\ current # Nil
  /\ current' = Nil
  /\ updated' = Nil
  /\ UNCHANGED <<active, completed, polling, snapshot, queue, timed_out,
                 clientVars, apiVars, eventVars, hostVars>>

\* Slip: an attempted claim counts as completed.
CompleteOnAttempt ==
  /\ current # Nil
  /\ active' = [active EXCEPT ![current] = WrittenBack(current)]
  /\ completed' = IF updated.claim_attempted THEN completed \cup {current} ELSE completed
  /\ current' = Nil
  /\ updated' = Nil
  /\ UNCHANGED <<polling, snapshot, queue, timed_out,
                 clientVars, apiVars, eventVars, hostVars>>

WriteBack ==
  /\ current # Nil
  /\ active' = IF active[current] # Nil
               THEN [active EXCEPT ![current] = WrittenBack(current)]
               ELSE active
  /\ completed' = IF updated.ecash_claimed THEN completed \cup {current} ELSE completed
  /\ current' = Nil
  /\ updated' = Nil
  /\ UNCHANGED <<polling, snapshot, queue, timed_out,
                 clientVars, apiVars, eventVars, hostVars>>

\* Slip: expired operations stay in the map.
PollEndKeepsLate ==
  /\ polling
  /\ queue = {}
  /\ current = Nil
  /\ active' = [o \in Op |-> IF o \in completed THEN Nil ELSE active[o]]
  /\ polling' = FALSE
  /\ snapshot' = Empty
  /\ completed' = {}
  /\ timed_out' = {}
  /\ UNCHANGED <<queue, current, updated, clientVars, apiVars, eventVars, hostVars>>

PollEnd ==
  /\ polling
  /\ queue = {}
  /\ current = Nil
  /\ active' = [o \in Op |-> IF o \in completed \cup timed_out THEN Nil ELSE active[o]]
  /\ polling' = FALSE
  /\ snapshot' = Empty
  /\ completed' = {}
  /\ timed_out' = {}
  /\ UNCHANGED <<queue, current, updated, clientVars, apiVars, eventVars, hostVars>>

-----------------------------------------------------------------------------
(* The process: clock, crash, start() *)

Tick ==
  /\ now < Horizon
  /\ now' = now + 1
  /\ UNCHANGED <<phase, loaded, unread, crashes,
                 clientVars, apiVars, active, pollVars, eventVars>>

\* The process dies: everything but the client databases is gone.
Crash ==
  /\ phase # "down"
  /\ crashes < MaxCrashes
  /\ crashes' = crashes + 1
  /\ phase' = "down"
  /\ loaded' = {}
  /\ unread' = {}
  /\ handler' = [o \in Op |-> IF handler[o] = "none" THEN "none" ELSE "dropped"]
  /\ incoming' = Empty
  /\ active' = Empty
  /\ polling' = FALSE
  /\ snapshot' = Empty
  /\ queue' = {}
  /\ current' = Nil
  /\ updated' = Nil
  /\ completed' = {}
  /\ timed_out' = {}
  /\ successes' = [o \in Op |-> 0]
  /\ failures' = [o \in Op |-> 0]
  /\ UNCHANGED <<now, clientVars>>

\* MultiMint::new loads the clients it can (a failing one is skipped), main
\* refuses to serve with none, and start() begins to recover.
Restart(L) ==
  /\ phase = "down"
  /\ L # {}
  /\ phase' = "recovering"
  /\ loaded' = L
  /\ unread' = L
  /\ UNCHANGED <<now, crashes, clientVars, apiVars, active, pollVars, eventVars>>

\* Slip: the page starts one entry too late.
PageTooShort(f) ==
  LET n == Len(log[f])
  IN {log[f][i] : i \in {j \in 1..n : j > n - PageSize + 1}}

\* The last PageSize operations of a federation's log.
Page(f) ==
  LET n == Len(log[f])
  IN {log[f][i] : i \in {j \in 1..n : j > n - PageSize}}

Has(o, fields) == MetaOf[o] \cap fields # {}

IsLightning(o) == TypeOf[o] \in {"LightningReceive", "LightningPay"}

\* The payment type recovery reads off the module kind and the metadata.
Classify(o) ==
  CASE IsLightning(o) /\ Has(o, {"variant_receive", "type_ln_receive", "invoice"})
         -> "LightningReceive"
    [] IsLightning(o) /\ ~Has(o, {"variant_receive", "type_ln_receive", "invoice"})
                      /\ Has(o, {"variant_pay", "type_ln_pay", "payment_hash"})
         -> "LightningPay"
    [] ~IsLightning(o) /\ Has(o, {"variant_deposit", "type_deposit", "address"})
         -> "OnchainDeposit"
    [] ~IsLightning(o) /\ ~Has(o, {"variant_deposit", "type_deposit", "address"})
                       /\ Has(o, {"variant_withdraw", "type_withdraw", "recipient"})
         -> "OnchainWithdraw"
    [] OTHER -> Nil

Recoverable(o) ==
  /\ now - born[o] <= Timeout
  /\ ~outcome[o]
  /\ Classify(o) # Nil

RecoveredOperation(o) ==
  [payment_type    |-> Classify(o),
   created_at      |-> born[o],
   amount_known    |-> Has(o, {"amount_msat"}),
   claim_attempted |-> FALSE,
   ecash_claimed   |-> FALSE]

\* recover_federation_operations: one read of the log, no limit check.
RecoverFederation(f) ==
  /\ phase = "recovering"
  /\ f \in unread
  /\ active' = [o \in Op |-> IF o \in Page(f) /\ Recoverable(o)
                             THEN RecoveredOperation(o) ELSE active[o]]
  /\ unread' = unread \ {f}
  /\ UNCHANGED <<now, phase, loaded, crashes, clientVars, apiVars, pollVars, eventVars>>

\* start() spawns the poll task and main begins to serve.
StartServing ==
  /\ phase = "recovering"
  /\ unread = {}
  /\ phase' = "running"
  /\ UNCHANGED <<now, loaded, unread, crashes,
                 clientVars, apiVars, active, pollVars, eventVars>>

-----------------------------------------------------------------------------
Init ==
  /\ fed = [o \in Op |-> "absent"]
  /\ outcome = [o \in Op |-> FALSE]
  /\ log = [f \in Federation |-> <<>>]
  /\ born = [o \in Op |-> 0]
  /\ now = 0
  /\ phase = "down"
  /\ loaded = {}
  /\ unread = {}
  /\ handler = [o \in Op |-> "none"]
  /\ incoming = Empty
  /\ active = Empty
  /\ polling = FALSE
  /\ snapshot = Empty
  /\ queue = {}
  /\ current = Nil
  /\ updated = Nil
  /\ completed = {}
  /\ timed_out = {}
  /\ successes = [o \in Op |-> 0]
  /\ failures = [o \in Op |-> 0]
  /\ crashes = 0

ClientStep(o) == (\E s \in FedState : Settle(o, s)) \/ CacheOutcome(o)

HandlerStep(o) ==
  \/ CreateOperation(o)
  \/ PassLimit(o)
  \/ RejectAtLimit(o)
  \/ InsertOperation(o)
  \/ DropHandler(o)

PollStep ==
  \/ PollIdle
  \/ PollBegin
  \/ \E o \in Op : Process(o)
  \/ WriteBack
  \/ PollEnd

HostStep ==
  \/ \E f \in Federation : JoinFederation(f)
  \/ Tick
  \/ Crash
  \/ \E L \in SUBSET Federation : Restart(L)
  \/ \E f \in Federation : RecoverFederation(f)
  \/ StartServing

Next ==
  \/ \E o \in Op : ClientStep(o)
  \/ \E o \in Op : HandlerStep(o)
  \/ PollStep
  \/ HostStep

Spec == Init /\ [][Next]_vars

\* The runtime keeps scheduling the poll task and start(), and the drain of a live
\* update stream does not stop early for ever.  Nothing is said of the clock: a
\* claim must be reported however slow it is.
Learn(o) == ProcessReceive(o, fed[o]) \/ ProcessDeposit(o, fed[o])

Fairness ==
  /\ WF_vars(PollStep)
  /\ WF_vars(\E f \in Federation : RecoverFederation(f))
  /\ WF_vars(StartServing)
  /\ \A o \in Op : SF_vars(Learn(o))

FairSpec == Spec /\ Fairness

-----------------------------------------------------------------------------
(* What the manager must keep true *)

ClientTypeOK ==
  /\ fed \in [Op -> FedState]
  /\ outcome \in [Op -> BOOLEAN]
  /\ log \in [Federation -> Seq(Op)]
  /\ born \in [Op -> Nat]

MapTypeOK ==
  /\ handler \in [Op -> HandlerState]
  /\ incoming \in [Op -> PaymentOperation \cup {Nil}]
  /\ active \in [Op -> PaymentOperation \cup {Nil}]

PollTypeOK ==
  /\ polling \in BOOLEAN
  /\ snapshot \in [Op -> PaymentOperation \cup {Nil}]
  /\ queue \subseteq Op
  /\ current \in Op \cup {Nil}
  /\ updated \in PaymentOperation \cup {Nil}
  /\ completed \subseteq Op
  /\ timed_out \subseteq Op

HostTypeOK ==
  /\ successes \in [Op -> 0..MaxEvents]
  /\ failures \in [Op -> 0..MaxEvents]
  /\ now \in Nat
  /\ phase \in {"down", "recovering", "running"}
  /\ loaded \subseteq Federation
  /\ unread \subseteq Federation
  /\ crashes \in Nat

\* Every variable holds a value of its kind.
TypeOK == ClientTypeOK /\ MapTypeOK /\ PollTypeOK /\ HostTypeOK

\* Payments the node receives: the manager reports their claim.
Incoming == {"LightningReceive", "OnchainDeposit"}

\* A claim of this entry is announced: the amount of a receive must be known.
Announced(op) ==
  \/ op.payment_type = "OnchainDeposit"
  \/ op.payment_type = "LightningReceive" /\ op.amount_known

\* Between two starts of the process the manager reports the claim of a receive
\* or deposit at most once, however polls, registrations, removals and cached
\* outcomes interleave.
ReportedOnce ==
  \A o \in Op : TypeOf[o] \in Incoming => successes[o] <= 1

\* A success or failure event is published only for an operation that its
\* federation client has brought to that very end, so never both for one.
OnlyTrueReports ==
  \A o \in Op :
    /\ successes[o] > 0 => fed[o] = "succeeded"
    /\ failures[o] > 0 => fed[o] = "failed"

\* No claim is swallowed: once an entry is marked claimed, or waits to be removed
\* as completed, its event is out (if its amount allows one).
ClaimedMeansReported ==
  \A o \in Op :
    active[o] # Nil /\ Announced(active[o]) /\ (active[o].ecash_claimed \/ o \in completed)
      => successes[o] > 0

\* The poll task holds no stale record: what it has still to process is what the
\* map holds, although handlers insert while it runs.
SnapshotCurrent ==
  /\ \A o \in queue : snapshot[o] = active[o]
  /\ current # Nil => snapshot[current] = active[current]

\* Every operation in the map belongs to a federation with a client, so the
\* "client not available" branch of the poll cannot strand it.
ClientAvailable ==
  \A o \in Tracked : FedOf[o] \in loaded

\* The per-federation limit is exceeded by no more than the handlers that may sit
\* between the two locks of add_operation, or by one page of recovered operations.
OvershootBounded ==
  \A f \in Federation :
    \/ Cardinality(TrackedIn(f)) <= PageSize
    \/ Cardinality(TrackedIn(f)) < MaxOps + Handlers

\* While the process lives, an operation leaves the map only when it was claimed
\* or its time is over.
LeavesOnlyWhenDone ==
  [][phase' # "down" =>
       \A o \in Op : active[o] # Nil /\ active'[o] = Nil =>
         active[o].ecash_claimed \/ Expired(active[o])]_vars

\* Recovery is complete within its bounds: when the server starts to serve, every
\* unexpired pending operation on the last page of its federation's log, of a type
\* the metadata tells, is tracked, however long start() took over it.
RecoversRecent ==
  [][phase = "recovering" /\ phase' = "running" =>
       \A o \in Op :
         /\ FedOf[o] \in loaded
         /\ fed[o] \in {"waiting", "confirmed"}
         /\ Recoverable(o)
         /\ \E i \in DOMAIN log[FedOf[o]] :
              log[FedOf[o]][i] = o /\ Len(log[FedOf[o]]) - i < PageSize
         => active[o] # Nil]_vars

\* A tracked receive or deposit that its federation has claimed is reported, unless
\* its time runs out or the process dies first.
Owed(o) ==
  /\ active[o] # Nil
  /\ active[o].payment_type = TypeOf[o]
  /\ Announced(active[o])
  /\ fed[o] = "succeeded"

SettledIsReported ==
  \A o \in Op : Owed(o) ~> \/ successes[o] > 0
                           \/ active[o] # Nil /\ Expired(active[o])
                           \/ phase = "down"

\* When time passes no operation is polled for ever, not even an outgoing one,
\* which the poll never marks completed.
NothingWatchedForEver ==
  <>(now = Horizon) => \A o \in Op : active[o] # Nil ~> active[o] = Nil

-----------------------------------------------------------------------------
(* The manager implements SettlementReporting for the claims it announces. *)

Settled  == {o \in Op : fed[o] = "succeeded"}
Watching == {o \in Tracked : Announced(active[o])}
Late     == {o \in Watching : Expired(active[o])}
Reported == {o \in Op : TypeOf[o] \in Incoming /\ successes[o] > 0}

Reporting == INSTANCE SettlementReporting WITH
  settled  <- Settled,
  watching <- Watching,
  late     <- Late,
  reported <- Reported

\* Seen through the map and the events alone, the manager watches, reports once
\* and lets go only of what is reported or late.
ImplementsReporting == Reporting!Spec

-----------------------------------------------------------------------------
(* The inductive invariant: how handlers, map, poll task and events fit. *)

\* An operation is in the log, and known to its federation, once it was created;
\* each log holds its own federation's operations.
LogInv ==
  /\ \A f \in Federation : \A i \in 1..Len(log[f]) :
       FedOf[log[f][i]] = f /\ handler[log[f][i]] # "none"
  /\ \A o \in Op : handler[o] = "none" => fed[o] = "absent"

\* Until its handler is past add_operation an operation is not in the map, and a
\* handler exists only in a serving process that has the client.
HandlerInv ==
  /\ \A o \in Op : handler[o] \in {"none", "created"} => active[o] = Nil
  /\ \A o \in Op : handler[o] = "created" => phase = "running" /\ FedOf[o] \in loaded
  /\ \A o \in Op : incoming[o] # Nil => handler[o] = "created" /\ ~incoming[o].ecash_claimed
  /\ unread \subseteq loaded
  /\ phase = "running" => unread = {}
  /\ phase = "recovering" => \A o \in Op : FedOf[o] \in unread => active[o] = Nil
  /\ phase = "down" => Tracked = {}

\* The poll task's local variables against the map.
PollInv ==
  /\ polling => phase = "running"
  /\ ~polling => queue = {} /\ current = Nil /\ completed = {} /\ timed_out = {}
  /\ current = Nil <=> updated = Nil
  /\ queue \subseteq Tracked
  /\ current # Nil => current \in Tracked \ (queue \cup completed \cup timed_out)
  /\ completed \subseteq {o \in Tracked : active[o].ecash_claimed}
  /\ timed_out \subseteq {o \in Tracked : Expired(active[o])}
  /\ queue \cap (completed \cup timed_out) = {}
  /\ current # Nil =>
       /\ updated.payment_type = active[current].payment_type
       /\ active[current].ecash_claimed => updated.ecash_claimed
       /\ updated.ecash_claimed /\ Announced(active[current]) => successes[current] > 0

\* A claim was reported once, and nothing is left that could report it again.
ReportInv ==
  \A o \in Op : successes[o] > 0 =>
    /\ phase = "running"
    /\ handler[o] \notin {"none", "created"}
    /\ TypeOf[o] \in Incoming =>
         /\ successes[o] = 1
         /\ \/ active[o] = Nil
            \/ active[o].ecash_claimed
            \/ current = o /\ updated.ecash_claimed

\* Only an operation that is a receive or a deposit is ever marked claimed, whatever
\* recovery took it for.
ClaimInv ==
  /\ \A o \in Op : active[o] # Nil /\ active[o].ecash_claimed => TypeOf[o] \in Incoming
  /\ current # Nil /\ updated.ecash_claimed => TypeOf[current] \in Incoming

\* Everything the safety proofs carry along.
Inv ==
  /\ TypeOK
  /\ LogInv
  /\ HandlerInv
  /\ PollInv
  /\ ReportInv
  /\ SnapshotCurrent
  /\ ClientAvailable
  /\ OnlyTrueReports
  /\ ClaimedMeansReported

=============================================================================
