------------------------- MODULE SettlementRequests -------------------------
(***************************************************************************)
(* The two requests of fmcd that start an operation and have its end told  *)
(* to the world: create_invoice and withdraw_onchain (src/core/mod.rs),    *)
(* with those who ask how an invoice stands (src/api/rest/ln/status.rs and *)
(* stream.rs).                                                             *)
(*                                                                         *)
(* Either request makes an operation in the federation client, tells that  *)
(* it has begun, registers it with the lifecycle manager and follows its   *)
(* update stream: create_invoice in a task of its own that outlives the    *)
(* request, withdraw_onchain in the request itself, whose answer is the    *)
(* end.  So an end has two tellers, the follower and the manager, and an   *)
(* invoice is told under two ids.                                          *)
(*                                                                         *)
(* The manager is here what it implements, SettlementReporting (see        *)
(* PaymentLifecycle for the proof), and what it repeats of withdrawals.    *)
(* Left out: amounts, fees, gateways, heartbeats.                          *)
(***************************************************************************)
EXTENDS Integers, FiniteSets, Sequences

CONSTANTS
  Invoice,     \* operations that are invoices
  Withdrawal,  \* operations that are withdrawals
  MaxCrashes   \* bound on the number of crashes

Op == Invoice \cup Withdrawal

ASSUME SettlementAssumption ==
  /\ Invoice \cap Withdrawal = {}
  /\ MaxCrashes \in Nat

VARIABLES
  fed,       \* state of each operation at its federation client
  outcome,   \* does the operation log hold a cached outcome
  up,        \* does the process run
  crashes,
  stage,     \* of the request
  follower,  \* of the update stream; one that has "quit" saw no outcome
  told,      \* what was told by the request and its follower, in order
  watching,  \* active_operations of the manager
  late,      \* those past their monitoring time
  reported,  \* claims of invoices the manager has told since it started
  repeated,  \* the end the manager last told of each withdrawal
  status,    \* the last answer to a status request
  view       \* the last update an open stream of the operation has sent

clientVars  == <<fed, outcome>>
managerVars == <<watching, late, reported, repeated>>
readerVars  == <<status, view>>
requestVars == <<stage, follower, told>>
hostVars    == <<up, crashes>>
vars == <<clientVars, managerVars, readerVars, requestVars, hostVars>>

FedState == {"absent", "waiting", "succeeded", "failed"}
Ends     == {"succeeded", "failed"}

\* "answered" invoices are followed by their task, "answered" withdrawals have
\* ended; a "refused" request failed, and a "dropped" one lost its caller.
Stage == {"none", "made", "begun", "registered", "following", "answered",
          "refused", "dropped"}

Underway == {"made", "begun", "registered", "following"}

Settled == {o \in Op : fed[o] = "succeeded"}

Manager == INSTANCE SettlementReporting WITH settled <- Settled

Tell(o, what)  == told' = [told EXCEPT ![o] = Append(@, what)]
Enter(o, s)    == stage' = [stage EXCEPT ![o] = s]
Follower(o, s) == follower' = [follower EXCEPT ![o] = s]

-----------------------------------------------------------------------------
(* The federation client: external. *)

Settle(o, s) ==
  /\ fed[o] = "waiting"
  /\ s \in Ends
  /\ fed' = [fed EXCEPT ![o] = s]
  /\ UNCHANGED <<outcome, managerVars, readerVars, requestVars, hostVars>>

\* Somebody has read an update stream to its end.
CacheOutcome(o) ==
  /\ fed[o] \in Ends
  /\ ~outcome[o]
  /\ outcome' = [outcome EXCEPT ![o] = TRUE]
  /\ UNCHANGED <<fed, managerVars, readerVars, requestVars, hostVars>>

-----------------------------------------------------------------------------
(* create_invoice and withdraw_onchain *)

Make(o) ==
  /\ up
  /\ stage[o] = "none"
  /\ Enter(o, "made")
  /\ fed' = [fed EXCEPT ![o] = "waiting"]
  /\ UNCHANGED <<outcome, follower, told, managerVars, readerVars, hostVars>>

\* InvoiceCreated or WithdrawalInitiated.
Begin(o) ==
  /\ stage[o] = "made"
  /\ Enter(o, "begun")
  /\ Tell(o, "begun")
  /\ UNCHANGED <<follower, clientVars, managerVars, readerVars, hostVars>>

\* Slip: the operation is registered before its begin is told.
RegisterEarly(o) ==
  /\ stage[o] = "made"
  /\ Enter(o, "registered")
  /\ UNCHANGED <<follower, told, clientVars, readerVars, hostVars, repeated>>
  /\ Manager!Watch({o}, {})

\* track_lightning_receive or track_onchain_withdraw; at the limit of the federation
\* the request goes on without.
Register(o) ==
  /\ stage[o] = "begun"
  /\ Enter(o, "registered")
  /\ UNCHANGED <<follower, told, clientVars, readerVars, hostVars>>
  /\ \/ Manager!Watch({o}, {}) /\ UNCHANGED repeated
     \/ UNCHANGED managerVars

\* Slip: an invoice the manager has not taken is not followed either.
SpawnIfTracked(o) ==
  /\ o \in Invoice
  /\ stage[o] = "registered"
  /\ Enter(o, "answered")
  /\ Follower(o, IF o \in watching THEN "following" ELSE "none")
  /\ UNCHANGED <<told, clientVars, managerVars, readerVars, hostVars>>

\* start_invoice_monitoring, and create_invoice answers.
SpawnFollower(o) ==
  /\ o \in Invoice
  /\ stage[o] = "registered"
  /\ Enter(o, "answered")
  /\ Follower(o, "following")
  /\ UNCHANGED <<told, clientVars, managerVars, readerVars, hostVars>>

\* withdraw_onchain subscribes, or fails with the error of the client; the withdrawal
\* goes on without it.
Subscribe(o) ==
  /\ o \in Withdrawal
  /\ stage[o] = "registered"
  /\ \/ Enter(o, "following") /\ Follower(o, "following")
     \/ Enter(o, "refused") /\ UNCHANGED follower
  /\ UNCHANGED <<told, clientVars, managerVars, readerVars, hostVars>>

\* The follower reads the end off the stream and tells it, InvoicePaid under the
\* invoice id or WithdrawalSucceeded ...
FollowSuccess(o) ==
  /\ follower[o] = "following"
  /\ fed[o] = "succeeded"
  /\ Tell(o, "succeeded")
  /\ Follower(o, "over")
  /\ Enter(o, "answered")
  /\ UNCHANGED <<clientVars, managerVars, readerVars, hostVars>>

\* ... InvoiceExpired or WithdrawalFailed.
FollowFailure(o) ==
  /\ follower[o] = "following"
  /\ fed[o] = "failed"
  /\ Tell(o, "failed")
  /\ Follower(o, "over")
  /\ Enter(o, IF o \in Withdrawal THEN "refused" ELSE "answered")
  /\ UNCHANGED <<clientVars, managerVars, readerVars, hostVars>>

\* Slip: an invoice whose follower gives up is told to have expired.
GiveUpLoudly(o) ==
  /\ follower[o] = "following"
  /\ Follower(o, "quit")
  /\ Tell(o, "failed")
  /\ Enter(o, "answered")
  /\ UNCHANGED <<clientVars, managerVars, readerVars, hostVars>>

\* The stream ends without an outcome, or cannot be had.  Of an invoice nothing is
\* told, no more than after the 24 hours of the follower; of a withdrawal, that it has
\* failed, by the same WithdrawalFailed event as when it has.
GiveUp(o) ==
  /\ follower[o] = "following"
  /\ Follower(o, "quit")
  /\ IF o \in Withdrawal
     THEN Tell(o, "failed") /\ Enter(o, "refused")
     ELSE UNCHANGED <<told, stage>>
  /\ UNCHANGED <<clientVars, managerVars, readerVars, hostVars>>

\* The caller goes away; a follower that is a task of its own stays.
DropRequest(o) ==
  /\ stage[o] \in Underway
  /\ Enter(o, "dropped")
  /\ Follower(o, IF follower[o] = "following" THEN "over" ELSE follower[o])
  /\ UNCHANGED <<told, clientVars, managerVars, readerVars, hostVars>>

-----------------------------------------------------------------------------
(* The lifecycle manager *)

\* InvoicePaid under the operation id.
Report(o) ==
  /\ o \in Invoice
  /\ up
  /\ UNCHANGED <<clientVars, requestVars, readerVars, hostVars, repeated>>
  /\ Manager!Report(o)

\* A withdrawal is told again at every poll that finds its outcome cached.
Repeat(o) ==
  /\ o \in (Withdrawal \cap watching) \ late
  /\ outcome[o]
  /\ repeated' = [repeated EXCEPT ![o] = fed[o]]
  /\ UNCHANGED <<watching, late, reported,
                 clientVars, requestVars, readerVars, hostVars>>

GrowLate(o) ==
  /\ o \notin late
  /\ UNCHANGED <<clientVars, requestVars, readerVars, hostVars, repeated>>
  /\ Manager!GrowLate({o})

LetGo(o) ==
  /\ UNCHANGED <<clientVars, requestVars, readerVars, hostVars, repeated>>
  /\ Manager!LetGo({o})

-----------------------------------------------------------------------------
(* Those who ask *)

\* The first item of an update stream: the cached outcome, or the start of a replay.
FirstItem(o) == IF outcome[o] THEN fed[o] ELSE "created"

\* Slip: the state is asked for directly.
StatusDirect(o) ==
  /\ up
  /\ o \in Invoice
  /\ fed[o] # "absent"
  /\ status' = [status EXCEPT ![o] = fed[o]]
  /\ UNCHANGED <<view, clientVars, managerVars, requestVars, hostVars>>

\* Slip: the stream is read as far as it comes in a short time.
StatusDrains(o) ==
  /\ up
  /\ o \in Invoice
  /\ fed[o] # "absent"
  /\ \E s \in {"created"} \cup (Ends \cap {fed[o]}) : status' = [status EXCEPT ![o] = s]
  /\ UNCHANGED <<view, clientVars, managerVars, requestVars, hostVars>>

\* _get_status answers with the first item.
GetStatus(o) ==
  /\ up
  /\ o \in Invoice
  /\ fed[o] # "absent"
  /\ status' = [status EXCEPT ![o] = FirstItem(o)]
  /\ UNCHANGED <<view, clientVars, managerVars, requestVars, hostVars>>

\* create_unified_invoice_stream sends whatever the update stream yields.  (Its timeout
\* is an event like any other: updates go on after it.)
SendUpdate(o) ==
  /\ up
  /\ o \in Invoice
  /\ \/ view[o] = "closed" /\ fed[o] # "absent" /\ view' = [view EXCEPT ![o] = FirstItem(o)]
     \/ view[o] = "created" /\ view' = [view EXCEPT ![o] = "waiting"]
     \/ view[o] = "waiting" /\ fed[o] \in Ends /\ view' = [view EXCEPT ![o] = fed[o]]
  /\ UNCHANGED <<status, clientVars, managerVars, requestVars, hostVars>>

CloseStream(o) ==
  /\ view[o] # "closed"
  /\ view' = [view EXCEPT ![o] = "closed"]
  /\ UNCHANGED <<status, clientVars, managerVars, requestVars, hostVars>>

-----------------------------------------------------------------------------
(* The process *)

Crash ==
  /\ up
  /\ crashes < MaxCrashes
  /\ up' = FALSE
  /\ crashes' = crashes + 1
  /\ stage' = [o \in Op |-> IF stage[o] \in Underway THEN "dropped" ELSE stage[o]]
  /\ follower' = [o \in Op |-> IF follower[o] = "following" THEN "over" ELSE follower[o]]
  /\ view' = [o \in Op |-> "closed"]
  /\ UNCHANGED <<clientVars, told, status, repeated>>
  /\ Manager!Forget

\* The manager recovers what it finds pending in the operation logs, as far as it can
\* tell; followers are not started again.
Restart(S) ==
  /\ ~up
  /\ S \subseteq {o \in Op : fed[o] # "absent" /\ ~outcome[o]}
  /\ up' = TRUE
  /\ UNCHANGED <<crashes, clientVars, requestVars, readerVars, repeated>>
  /\ Manager!Watch(S, {})

Init ==
  /\ fed = [o \in Op |-> "absent"]
  /\ outcome = [o \in Op |-> FALSE]
  /\ up = TRUE
  /\ crashes = 0
  /\ stage = [o \in Op |-> "none"]
  /\ follower = [o \in Op |-> "none"]
  /\ told = [o \in Op |-> <<>>]
  /\ watching = {} /\ late = {} /\ reported = {}
  /\ repeated = [o \in Op |-> "none"]
  /\ status = [o \in Op |-> "none"]
  /\ view = [o \in Op |-> "closed"]

Follow(o) == FollowSuccess(o) \/ FollowFailure(o)

Next ==
  \/ \E o \in Op :
       \/ (\E s \in Ends : Settle(o, s)) \/ CacheOutcome(o)
       \/ Make(o) \/ Begin(o) \/ Register(o) \/ SpawnFollower(o) \/ Subscribe(o)
       \/ Follow(o) \/ GiveUp(o) \/ DropRequest(o)
       \/ Report(o) \/ Repeat(o) \/ GrowLate(o) \/ LetGo(o)
       \/ GetStatus(o) \/ SendUpdate(o) \/ CloseStream(o)
  \/ Crash
  \/ \E S \in SUBSET Op : Restart(S)

\* A follower reads what its stream yields, and the manager reports what it watches
\* (SettledIsReported of PaymentLifecycle).
FairSpec ==
  /\ Init
  /\ [][Next]_vars
  /\ \A o \in Op : WF_vars(Follow(o)) /\ WF_vars(Report(o))

-----------------------------------------------------------------------------
(* What the requests must keep true *)

\* Every variable holds a value of its kind; a status answer never says "waiting",
\* which is never the first item of a stream.
TypeOK ==
  /\ fed \in [Op -> FedState]
  /\ outcome \in [Op -> BOOLEAN]
  /\ up \in BOOLEAN /\ crashes \in 0..MaxCrashes
  /\ stage \in [Op -> Stage]
  /\ follower \in [Op -> {"none", "following", "over", "quit"}]
  /\ told \in [Op -> Seq({"begun"} \cup Ends)]
  /\ watching \subseteq Op /\ late \subseteq watching /\ reported \subseteq Op
  /\ repeated \in [Op -> {"none"} \cup Ends]
  /\ status \in [Op -> {"none", "created"} \cup Ends]
  /\ view \in [Op -> {"closed", "created", "waiting"} \cup Ends]

ToldOf(o) == {told[o][i] : i \in DOMAIN told[o]}

\* All that anybody but the request and its follower tells of how an operation ended.
ToldByOthers(o) ==
  Ends \cap ({repeated[o], status[o], view[o]} \cup (IF o \in reported THEN {"succeeded"} ELSE {}))

\* The one end that need not be true: the failure of a withdrawal whose stream ended
\* without an outcome.
GivenUp(o) == o \in Withdrawal /\ follower[o] = "quit"

\* Nobody is told another end than the operation came to, before or after a crash: not by
\* the manager, a status request or a stream, whatever the follower said, nor by the
\* follower, but that it calls a withdrawal failed when it has to give up on it, and
\* never succeeded.  The process that made an operation tells of its begin before anybody
\* is told of its end by an event, and its follower tells of one end only.
EndsAgree ==
  \A o \in Op :
    /\ ToldByOthers(o) \subseteq {fed[o]}
    /\ Ends \cap ToldOf(o) \subseteq {fed[o]} \cup (IF GivenUp(o) THEN {"failed"} ELSE {})
    /\ o \in reported \/ repeated[o] # "none" \/ told[o] # <<>>
         => crashes > 0 \/ (told[o] # <<>> /\ Head(told[o]) = "begun")
    /\ Len(told[o]) <= 2

\* What an asker was told of an end is not taken back: neither the next status request
\* nor the next update of the stream shows an earlier state.
NotTakenBack ==
  [][\A o \in Op :
       /\ status[o] \in Ends => status'[o] = status[o]
       /\ view[o] \in Ends => view'[o] \in {view[o], "closed"}]_vars

\* The payment of an invoice that was answered, and the end of a withdrawal that waits,
\* are told: by the follower, or, when that has given up, by a manager that watches
\* the invoice still.
EndIsTold ==
  /\ \A o \in Invoice :
       stage[o] = "answered" /\ fed[o] = "succeeded" ~>
         \/ "succeeded" \in ToldOf(o) \/ o \in reported
         \/ follower[o] \in {"over", "quit"} /\ (o \notin watching \/ o \in late)
         \/ ~up
  /\ \A o \in Withdrawal :
       stage[o] = "following" /\ fed[o] \in Ends ~>
         fed[o] \in ToldOf(o) \/ stage[o] \in {"refused", "dropped"}
=============================================================================
