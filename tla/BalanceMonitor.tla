--------------------------- MODULE BalanceMonitor ---------------------------
(***************************************************************************)
(* The balance monitor of fmcd (src/core/services/balance_monitor.rs) as a *)
(* publisher of the event bus, next to request handlers that publish on    *)
(* their own.  Its task goes over the federations, compares the balance of *)
(* each with the one it saw at its last visit, and then publishes the      *)
(* changes it has collected, one after the other.  Federations and the     *)
(* clients they have are fixed here: see MultiMint for joins.              *)
(***************************************************************************)
EXTENDS EventDelivery

CONSTANTS
  Federation,   \* the federations with a client
  Monitor,      \* the monitor's task, a source of events
  Threshold,    \* min_change_threshold_msats
  MaxBalance,   \* bound on balances
  Story,        \* the events a request announces, in their order
  MaxMoves,     \* bound on the changes of balances
  MaxOutside,   \* bound on changes of balances and events of requests together
  Nil           \* no balance seen yet

ASSUME BalanceAssumption ==
  /\ Monitor \in Source \ Request
  /\ Threshold \in Nat
  /\ MaxBalance \in Nat
  /\ MaxMoves \in Nat
  /\ MaxOutside \in Nat
  /\ Nil \notin Nat
  /\ [federation : Federation, msat : 0..MaxBalance] \subseteq Quiet
  /\ Story \in Seq(Content \ [federation : Federation, msat : 0..MaxBalance])

VARIABLES
  balance,   \* get_balance of each client
  last,      \* last_balances
  checking,  \* is check_balances running
  todo,      \* the federations it has still to visit
  changes,   \* balance_changes, still to be published
  told,      \* the balance last published of each federation
  moves      \* how often a balance has changed

monitorVars == <<last, checking, todo, changes, told>>
vars == <<deliveryVars, monitorVars, balance, moves>>

Distance(a, b) == IF a > b THEN a - b ELSE b - a

AnnouncedBy(p) == Cardinality({n \in Events : sent[n].source = p})

\* What has come from outside.
Outside == moves + Cardinality({n \in Events : sent[n].source \in Request})

\* A first visit always counts as a change.
Changed(f) == last[f] = Nil \/ Distance(balance[f], last[f]) >= Threshold

-----------------------------------------------------------------------------
\* The federation client: external.  Bounds: MaxMoves, MaxOutside.
Move(f, b) ==
  /\ moves < MaxMoves
  /\ Outside < MaxOutside
  /\ b # balance[f]
  /\ balance' = [balance EXCEPT ![f] = b]
  /\ moves' = moves + 1
  /\ UNCHANGED <<deliveryVars, monitorVars>>

\* The interval of the task comes round.
CheckBegin ==
  /\ ~checking
  /\ checking' = TRUE
  /\ todo' = Federation
  /\ UNCHANGED <<last, changes, told, balance, moves, deliveryVars>>

\* Slip: a change of exactly the threshold is passed over.
CheckAboveThreshold(f) ==
  /\ f \in todo
  /\ todo' = todo \ {f}
  /\ last' = [last EXCEPT ![f] = balance[f]]
  /\ changes' = IF last[f] = Nil \/ Distance(balance[f], last[f]) > Threshold
                THEN Append(changes, [federation |-> f, msat |-> balance[f]])
                ELSE changes
  /\ UNCHANGED <<checking, told, balance, moves, deliveryVars>>

\* Slip: the first balance seen is where the comparison starts, and is not told.
CheckKnownOnly(f) ==
  /\ f \in todo
  /\ todo' = todo \ {f}
  /\ last' = [last EXCEPT ![f] = balance[f]]
  /\ changes' = IF last[f] # Nil /\ Changed(f)
                THEN Append(changes, [federation |-> f, msat |-> balance[f]])
                ELSE changes
  /\ UNCHANGED <<checking, told, balance, moves, deliveryVars>>

\* check_federation_balance: the balance seen is stored, announced or not.
CheckFederation(f) ==
  /\ f \in todo
  /\ todo' = todo \ {f}
  /\ last' = [last EXCEPT ![f] = balance[f]]
  /\ changes' = IF Changed(f) THEN Append(changes, [federation |-> f, msat |-> balance[f]])
                ELSE changes
  /\ UNCHANGED <<checking, told, balance, moves, deliveryVars>>

PublishChange ==
  /\ checking
  /\ todo = {}
  /\ changes # <<>>
  /\ Send(Monitor, Head(changes))
  /\ told' = [told EXCEPT ![Head(changes).federation] = Head(changes).msat]
  /\ changes' = Tail(changes)
  /\ UNCHANGED <<last, checking, todo, balance, moves>>

CheckEnd ==
  /\ checking
  /\ todo = {}
  /\ changes = <<>>
  /\ step[Monitor] = "idle"
  /\ checking' = FALSE
  /\ UNCHANGED <<last, todo, changes, told, balance, moves, deliveryVars>>

\* A request handler announces the next step of its story.  Bound: MaxOutside.
Announce(p, c) ==
  /\ p \in Request
  /\ Outside < MaxOutside
  /\ AnnouncedBy(p) < Len(Story)
  /\ c = Story[AnnouncedBy(p) + 1]
  /\ Send(p, c)
  /\ UNCHANGED <<monitorVars, balance, moves>>

-----------------------------------------------------------------------------
Init ==
  /\ DeliveryInit
  /\ balance = [f \in Federation |-> 0]
  /\ last = [f \in Federation |-> Nil]
  /\ checking = FALSE
  /\ todo = {}
  /\ changes = <<>>
  /\ told = [f \in Federation |-> Nil]
  /\ moves = 0

MonitorStep ==
  \/ CheckBegin
  \/ \E f \in Federation : CheckFederation(f)
  \/ PublishChange
  \/ CheckEnd

Next ==
  \/ \E f \in Federation, b \in 0..MaxBalance : Move(f, b)
  \/ MonitorStep
  \/ \E p \in Request, c \in Content : Announce(p, c)
  \/ DeliveryNext /\ UNCHANGED <<monitorVars, balance, moves>>

\* The runtime schedules the monitor and the tasks of the bus.
FairSpec ==
  /\ Init
  /\ [][Next]_vars
  /\ WF_vars(MonitorStep)
  /\ DeliveryFairness

-----------------------------------------------------------------------------
(* What the monitor must keep true *)

\* Every variable holds a value of its kind.
TypeOK ==
  /\ DeliveryTypeOK
  /\ balance \in [Federation -> 0..MaxBalance]
  /\ last \in [Federation -> 0..MaxBalance \cup {Nil}]
  /\ checking \in BOOLEAN
  /\ todo \subseteq Federation
  /\ changes \in Seq([federation : Federation, msat : 0..MaxBalance])
  /\ told \in [Federation -> 0..MaxBalance \cup {Nil}]
  /\ moves \in 0..MaxMoves

\* The events of the monitor about a federation.
SaidOf(f) == {n \in Events : sent[n].source = Monitor /\ sent[n].content.federation = f}

\* The last event of the monitor about a federation bears the balance that counts as
\* told.  Between two checks every endpoint that wants one of its events has a delivery
\* of it, there is an event of each federation it has seen, and with a threshold of one
\* msat or none the last of them bears the balance it saw last, whatever was published
\* between the visit and the event.  The log holds none of them.
BalancesAccount ==
  \A f \in Federation :
    /\ \A n \in SaidOf(f) : (\A m \in SaidOf(f) : m <= n) => sent[n].content.msat = told[f]
    /\ ~checking =>
         /\ \A e \in Endpoint : \A n \in SaidOf(f) \cap Interested(e) : delivery[e][n].state # "none"
         /\ SaidOf(f) = {} <=> last[f] = Nil
         /\ Threshold <= 1 => told[f] = last[f]

\* A balance that has settled Threshold or more away from the one the monitor saw
\* last, or that it never saw, is published as it stands.
JumpIsTold ==
  \A f \in Federation, b \in 0..MaxBalance :
    (balance[f] = b /\ Changed(f)) ~> (told[f] = b \/ balance[f] # b)
=============================================================================
