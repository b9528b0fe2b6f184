--------------------------- MODULE DepositMonitor ---------------------------
(***************************************************************************)
(* The deposit monitor of fmcd (src/core/services/deposit_monitor.rs): the *)
(* request handlers that add deposit addresses, and the background task    *)
(* that keeps one subscription per address and asks each for one update a  *)
(* poll, federation by federation.                                         *)
(*                                                                         *)
(* A subscription is a channel filled by a forwarder task of its own, which *)
(* replays the states the client went through and then follows them; so it *)
(* is two positions in that history, the updates sent into the channel and *)
(* those received from it.  Addresses, amounts and logging are left out.   *)
(***************************************************************************)
EXTENDS Integers, FiniteSets, Sequences

CONSTANTS
  Op,          \* operation ids of deposit addresses
  Federation,  \* federation ids
  FedOf,       \* the federation of each operation
  MaxOps,      \* max_operations_per_federation
  Nil,         \* no federation, no operation, no subscription
  MaxCrashes   \* bound on the number of crashes

\* WaitingForTransaction and WaitingForConfirmation are one "waiting".
Update   == {"waiting", "confirmed", "claimed", "failed"}
Terminal == {"claimed", "failed"}

Subscription == [sent : Nat, received : Nat]

ASSUME DepositAssumption ==
  /\ FedOf \in [Op -> Federation]
  /\ MaxOps \in Nat
  /\ MaxCrashes \in Nat
  /\ Nil \notin Op \cup Federation \cup Subscription

VARIABLES
  history,        \* states of each deposit at its client, oldest first
  outcome,        \* deposits with a cached outcome in the operation log
  late,           \* deposits older than operation_timeout
  adding,         \* "none", "created", "checked", "added" or "lost", per request
  active,         \* active_deposits
  subscriptions,  \* the channel of each deposit, or Nil
  polling,        \* is poll_deposits_impl running
  valid,          \* the unexpired deposits of its clone of the map
  todo,           \* those of them it has still to check
  pending,        \* federations it has still to visit
  at,             \* the federation it visits, holding the subscriptions lock
  checking,       \* the operation just subscribed to
  found,          \* completed, the deposits to announce of the federation just visited
  completed,      \* all_completed_operations
  timed_out,      \* all_timed_out_operations
  published,      \* DepositDetected events per deposit
  crashes

clientVars  == <<history, outcome>>
requestVars == <<adding, active>>
pollVars    == <<polling, valid, todo, pending, at, checking, found, completed, timed_out>>
vars == <<clientVars, requestVars, late, subscriptions, pollVars, published, crashes>>

Seen(o)       == {history[o][i] : i \in DOMAIN history[o]}
Ended(o)      == Seen(o) \cap Terminal # {}
Subscribed    == {o \in Op : subscriptions[o] # Nil}
ActiveIn(f)   == {o \in active : FedOf[o] = f}

\* The channel is empty and its forwarder has dropped the sender.
Disconnected(o) ==
  /\ subscriptions[o].received = Len(history[o])
  /\ Ended(o)

-----------------------------------------------------------------------------
(* The federation client: external. *)

Settle(o, u) ==
  /\ history[o] # <<>>
  /\ ~Ended(o)
  /\ u \in Update \ Seen(o)
  /\ u = "claimed" => "confirmed" \in Seen(o)
  /\ history' = [history EXCEPT ![o] = Append(@, u)]
  /\ UNCHANGED <<outcome, requestVars, late, subscriptions, pollVars, published, crashes>>

\* Somebody drained the deposit's update stream to its end.
CacheOutcome(o) ==
  /\ Ended(o)
  /\ o \notin outcome
  /\ outcome' = outcome \cup {o}
  /\ UNCHANGED <<history, requestVars, late, subscriptions, pollVars, published, crashes>>

\* The forwarder task of a subscription sends the next update.
Forward(o) ==
  /\ subscriptions[o] # Nil
  /\ subscriptions[o].sent < Len(history[o])
  /\ subscriptions' = [subscriptions EXCEPT ![o].sent = @ + 1]
  /\ outcome' = IF Ended(o) /\ subscriptions'[o].sent = Len(history[o])
                THEN outcome \cup {o} ELSE outcome
  /\ UNCHANGED <<history, requestVars, late, pollVars, published, crashes>>

Expire(o) ==
  /\ history[o] # <<>>
  /\ o \notin late
  /\ late' = late \cup {o}
  /\ UNCHANGED <<clientVars, requestVars, subscriptions, pollVars, published, crashes>>

-----------------------------------------------------------------------------
(* create_deposit_address and add_deposit *)

CreateAddress(o) ==
  /\ adding[o] = "none"
  /\ history' = [history EXCEPT ![o] = <<"waiting">>]
  /\ adding' = [adding EXCEPT ![o] = "created"]
  /\ UNCHANGED <<outcome, active, late, subscriptions, pollVars, published, crashes>>

\* Under the read lock; a refusal is logged and the address returned all the same.
CheckLimit(o) ==
  /\ adding[o] = "created"
  /\ adding' = [adding EXCEPT ![o] =
                  IF Cardinality(ActiveIn(FedOf[o])) < MaxOps THEN "checked" ELSE "lost"]
  /\ UNCHANGED <<clientVars, active, late, subscriptions, pollVars, published, crashes>>

\* Under the write lock.
InsertDeposit(o) ==
  /\ adding[o] = "checked"
  /\ active' = active \cup {o}
  /\ adding' = [adding EXCEPT ![o] = "added"]
  /\ UNCHANGED <<clientVars, late, subscriptions, pollVars, published, crashes>>

-----------------------------------------------------------------------------
(* poll_deposits_impl *)

\* Nothing to check: the poll returns at once.
PollIdle ==
  /\ ~polling
  /\ active = {}
  /\ UNCHANGED vars

\* Slip: expired deposits are checked as well.
PollBeginChecksLate ==
  /\ ~polling
  /\ active # {}
  /\ polling' = TRUE
  /\ valid' = active \ late
  /\ timed_out' = active \cap late
  /\ todo' = active
  /\ pending' = {FedOf[o] : o \in valid'}
  /\ UNCHANGED <<at, checking, found, completed,
                 clientVars, requestVars, late, subscriptions, published, crashes>>

\* Slip: no deposit is ever late.
PollBeginWithoutTimeout ==
  /\ ~polling
  /\ active # {}
  /\ polling' = TRUE
  /\ valid' = active
  /\ timed_out' = {}
  /\ todo' = active
  /\ pending' = {FedOf[o] : o \in active}
  /\ UNCHANGED <<at, checking, found, completed,
                 clientVars, requestVars, late, subscriptions, published, crashes>>

PollBegin ==
  /\ ~polling
  /\ active # {}
  /\ polling' = TRUE
  /\ valid' = active \ late
  /\ timed_out' = active \cap late
  /\ todo' = valid'
  /\ pending' = {FedOf[o] : o \in valid'}
  /\ UNCHANGED <<at, checking, found, completed,
                 clientVars, requestVars, late, subscriptions, published, crashes>>

\* The federations come in the order of a hash map: any.
BeginFederation(f) ==
  /\ polling
  /\ at = Nil /\ found = {}
  /\ f \in pending
  /\ at' = f
  /\ pending' = pending \ {f}
  /\ UNCHANGED <<polling, valid, todo, checking, found, completed, timed_out,
                 clientVars, requestVars, late, subscriptions, published, crashes>>

Checkable(o) ==
  /\ checking = Nil
  /\ o \in todo
  /\ FedOf[o] = at

\* A new subscription replays from the start, or yields the cached outcome only.
Subscribe(o) ==
  /\ Checkable(o)
  /\ subscriptions[o] = Nil
  /\ LET start == IF o \in outcome THEN Len(history[o]) - 1 ELSE 0
     IN subscriptions' = [subscriptions EXCEPT ![o] = [sent |-> start, received |-> start]]
  /\ checking' = o
  /\ UNCHANGED <<polling, valid, todo, pending, at, found, completed, timed_out,
                 clientVars, requestVars, late, published, crashes>>

SubscribeFails(o) ==
  /\ Checkable(o)
  /\ subscriptions[o] = Nil
  /\ todo' = todo \ {o}
  /\ UNCHANGED <<polling, valid, pending, at, checking, found, completed, timed_out,
                 clientVars, requestVars, late, subscriptions, published, crashes>>

\* Slip: only the confirmation counts as an arrival.
TryReceiveConfirmedOnly(o) ==
  /\ checking = o \/ (Checkable(o) /\ subscriptions[o] # Nil)
  /\ todo' = todo \ {o}
  /\ checking' = Nil
  /\ IF subscriptions[o].received < subscriptions[o].sent
     THEN /\ subscriptions' = [subscriptions EXCEPT ![o].received = @ + 1]
          /\ found' = IF history[o][subscriptions'[o].received] = "confirmed"
                          THEN found \cup {o} ELSE found
     ELSE /\ subscriptions' = IF Disconnected(o)
                              THEN [subscriptions EXCEPT ![o] = Nil] ELSE subscriptions
          /\ UNCHANGED found
  /\ UNCHANGED <<polling, valid, pending, at, completed, timed_out,
                 clientVars, requestVars, late, published, crashes>>

\* try_recv: one update at most.  A failed deposit is only logged.
TryReceive(o) ==
  /\ checking = o \/ (Checkable(o) /\ subscriptions[o] # Nil)
  /\ todo' = todo \ {o}
  /\ checking' = Nil
  /\ IF subscriptions[o].received < subscriptions[o].sent
     THEN /\ subscriptions' = [subscriptions EXCEPT ![o].received = @ + 1]
          /\ found' = IF history[o][subscriptions'[o].received] \in {"confirmed", "claimed"}
                          THEN found \cup {o} ELSE found
     ELSE /\ subscriptions' = IF Disconnected(o)
                              THEN [subscriptions EXCEPT ![o] = Nil] ELSE subscriptions
          /\ UNCHANGED found
  /\ UNCHANGED <<polling, valid, pending, at, completed, timed_out,
                 clientVars, requestVars, late, published, crashes>>

\* What the clean-up of the subscriptions keeps: the deposits just checked.
Retained(o) == o \in valid /\ FedOf[o] = at

\* Slip: subscriptions of the federation visited are dropped as well.
EndFederationDropsAll ==
  /\ at # Nil
  /\ checking = Nil
  /\ \A o \in todo : FedOf[o] # at
  /\ subscriptions' = [o \in Op |-> IF o \in found THEN subscriptions[o] ELSE Nil]
  /\ at' = Nil
  /\ UNCHANGED <<polling, valid, todo, pending, checking, found, completed, timed_out,
                 clientVars, requestVars, late, published, crashes>>

\* The subscriptions are cleaned up, whatever federation they belong to, and the lock
\* is released.
EndFederation ==
  /\ at # Nil
  /\ checking = Nil
  /\ \A o \in todo : FedOf[o] # at
  /\ subscriptions' = [o \in Op |-> IF Retained(o) THEN subscriptions[o] ELSE Nil]
  /\ at' = Nil
  /\ UNCHANGED <<polling, valid, todo, pending, checking, found, completed, timed_out,
                 clientVars, requestVars, late, published, crashes>>

\* Slip: what was found is noted as completed, but not announced.
NoteOnly(o) ==
  /\ at = Nil
  /\ o \in found
  /\ found' = found \ {o}
  /\ completed' = completed \cup {o}
  /\ UNCHANGED <<polling, valid, todo, pending, at, checking, timed_out, clientVars,
                 requestVars, late, subscriptions, published, crashes>>

\* What was found in a federation is announced, one event after the other, before
\* the next federation is visited.
Publish(o) ==
  /\ at = Nil
  /\ o \in found
  /\ found' = found \ {o}
  /\ completed' = completed \cup {o}
  /\ published' = [published EXCEPT ![o] = @ + 1]
  /\ UNCHANGED <<polling, valid, todo, pending, at, checking, timed_out, clientVars,
                 requestVars, late, subscriptions, crashes>>

\* Slip: the map is cleaned of expired deposits only.
PollEndKeepsCompleted ==
  /\ polling /\ at = Nil /\ found = {} /\ pending = {}
  /\ active' = active \ timed_out
  /\ subscriptions' = [o \in Op |-> IF o \in timed_out THEN Nil ELSE subscriptions[o]]
  /\ polling' = FALSE
  /\ valid' = {} /\ completed' = {} /\ timed_out' = {}
  /\ UNCHANGED <<todo, pending, at, checking, found, clientVars, adding, late, published, crashes>>

\* Slip: the subscriptions of removed deposits are left behind.
PollEndKeepsChannels ==
  /\ polling /\ at = Nil /\ found = {} /\ pending = {}
  /\ active' = active \ (completed \cup timed_out)
  /\ polling' = FALSE
  /\ valid' = {} /\ completed' = {} /\ timed_out' = {}
  /\ UNCHANGED <<todo, pending, at, checking, found,
                 clientVars, adding, late, subscriptions, published, crashes>>

PollEnd ==
  /\ polling
  /\ at = Nil /\ found = {}
  /\ pending = {}
  /\ LET done == completed \cup timed_out
     IN /\ active' = active \ done
        /\ subscriptions' = [o \in Op |-> IF o \in done THEN Nil ELSE subscriptions[o]]
  /\ polling' = FALSE
  /\ valid' = {}
  /\ completed' = {}
  /\ timed_out' = {}
  /\ UNCHANGED <<todo, pending, at, checking, found,
                 clientVars, adding, late, published, crashes>>

-----------------------------------------------------------------------------
\* The process dies and comes back: nothing of the monitor is persisted.
Crash ==
  /\ crashes < MaxCrashes
  /\ crashes' = crashes + 1
  /\ adding' = [o \in Op |-> IF adding[o] = "none" THEN "none" ELSE "lost"]
  /\ active' = {}
  /\ subscriptions' = [o \in Op |-> Nil]
  /\ polling' = FALSE
  /\ valid' = {}
  /\ todo' = {}
  /\ pending' = {}
  /\ at' = Nil
  /\ checking' = Nil
  /\ found' = {}
  /\ completed' = {}
  /\ timed_out' = {}
  /\ UNCHANGED <<clientVars, late, published>>

Init ==
  /\ history = [o \in Op |-> <<>>]
  /\ outcome = {}
  /\ late = {}
  /\ adding = [o \in Op |-> "none"]
  /\ active = {}
  /\ subscriptions = [o \in Op |-> Nil]
  /\ polling = FALSE
  /\ valid = {}
  /\ todo = {}
  /\ pending = {}
  /\ at = Nil
  /\ checking = Nil
  /\ found = {}
  /\ completed = {}
  /\ timed_out = {}
  /\ published = [o \in Op |-> 0]
  /\ crashes = 0

PollStep ==
  \/ PollIdle
  \/ PollBegin
  \/ \E f \in Federation : BeginFederation(f)
  \/ \E o \in Op : Subscribe(o) \/ SubscribeFails(o) \/ TryReceive(o) \/ Publish(o)
  \/ EndFederation
  \/ PollEnd

\* What the process and the clients do while the process is up.
Step ==
  \/ \E o \in Op : \/ \E u \in Update : Settle(o, u)
                   \/ CacheOutcome(o)
                   \/ Forward(o)
                   \/ Expire(o)
                   \/ CreateAddress(o)
                   \/ CheckLimit(o)
                   \/ InsertDeposit(o)
  \/ PollStep

Next == Step \/ Crash

Spec == Init /\ [][Next]_vars

\* The runtime schedules the task and the forwarders; a client that is there does
\* not refuse subscriptions for ever.
Fairness ==
  /\ WF_vars(PollStep)
  /\ \A o \in Op : WF_vars(Forward(o)) /\ SF_vars(Subscribe(o))

FairSpec == Spec /\ Fairness

-----------------------------------------------------------------------------
(* What the monitor must keep true *)

\* Every variable holds a value of its kind.
TypeOK ==
  /\ history \in [Op -> Seq(Update)]
  /\ adding \in [Op -> {"none", "created", "checked", "added", "lost"}]
  /\ subscriptions \in [Op -> Subscription \cup {Nil}]
  /\ \A o \in Subscribed : /\ subscriptions[o].received <= subscriptions[o].sent
                           /\ subscriptions[o].sent <= Len(history[o])
  /\ todo \subseteq valid /\ valid \subseteq active
  /\ outcome \cup late \cup active \cup completed \cup timed_out \subseteq Op
  /\ found \subseteq valid /\ (found # {} => polling)
  /\ pending \subseteq Federation /\ at \in Federation \cup {Nil}
  /\ checking \in todo \cup {Nil}
  /\ polling \in BOOLEAN
  /\ published \in [Op -> Nat]
  /\ crashes \in Nat

\* A subscription does not outlive the poll that lets its deposit go.
NoOrphanSubscription ==
  ~polling => Subscribed \subseteq active

\* The subscriptions are persistent (deposit_monitor.rs:64): one goes only with its
\* deposit, whose time may be over, or when its channel is closed.
SubscriptionPersists ==
  [][\A o \in Subscribed : subscriptions'[o] = Nil =>
       o \notin active' \/ o \in timed_out \/ Disconnected(o)]_vars

\* A deposit whose failure the monitor has received is gone once the poll is over
\* (deposit_monitor.rs:457).
FailedIsRemoved ==
  ~polling => \A o \in active \cap Subscribed : ~(Disconnected(o) /\ "failed" \in Seen(o))

\* A watched deposit that was claimed, or whose time is over, is let go in the end, and
\* was announced by then, unless its time was over or a crash made the monitor forget
\* it.  (One that fails after its confirmation may leave nothing but the failure to
\* replay.)
DepositIsSettled ==
  \A o \in Op : o \in active /\ ("claimed" \in Seen(o) \/ o \in late)
                ~> /\ o \notin active
                   /\ published[o] > 0 \/ o \in late \/ adding[o] = "lost"

-----------------------------------------------------------------------------
(* The monitor reports arrivals the way the lifecycle manager reports claims. *)

Reporting == INSTANCE SettlementReporting WITH
  settled  <- {o \in Op : "confirmed" \in Seen(o)},
  watching <- active,
  late     <- late \cap active,
  reported <- {o \in Op : published[o] = 1 /\ adding[o] = "added"}

\* Whatever is found, announced and cleaned up in separate steps, and replayed to new
\* subscriptions, a watched deposit is announced at most once since the start (a
\* second time would take it out of "reported"), after it arrived, and let go only
\* when it was announced or is late.
ImplementsReporting == Reporting!Spec
=============================================================================
