------------------------ MODULE DepositMonitorProofs ------------------------
(***************************************************************************)
(* Theorems about the deposit monitor, for any deposits, federations,      *)
(* limits and crashes: its type correctness, that no channel is left over, *)
(* and that it implements SettlementReporting.                             *)
(***************************************************************************)
EXTENDS DepositMonitor, SequenceTheorems, TLAPS

-----------------------------------------------------------------------------
(* The inductive invariant *)

\* A deposit has a history from the moment its address is made, is announced only after
\* it was added, and is watched only while it counts as added.
RequestInv ==
  \A o \in Op :
    /\ adding[o] = "none" <=> history[o] = <<>>
    /\ adding[o] \in {"none", "created", "checked"} => published[o] = 0
    /\ o \in active => adding[o] = "added"

\* What a client claims it has confirmed.
HistoryInv == \A o \in Op : "claimed" \in Seen(o) => "confirmed" \in Seen(o)

\* What is still to be checked is in a federation still to be visited, or the one being
\* visited; what was found or announced was checked; what is late stays so.
PollInv ==
  /\ ~polling => valid = {} /\ completed = {} /\ timed_out = {} /\ at = Nil
  /\ \A o \in todo : FedOf[o] \in pending \cup {at}
  /\ timed_out \subseteq active \cap late
  /\ completed \subseteq valid
  /\ todo \cap (found \cup completed) = {}
  /\ found \cap completed = {}
  /\ checking # Nil => at = FedOf[checking]

\* Only watched deposits have channels, in a poll those it knows of, and the one being
\* checked has one.
ChannelInv ==
  /\ Subscribed \subseteq active
  /\ polling => Subscribed \subseteq valid \cup timed_out
  /\ checking # Nil => subscriptions[checking] # Nil

\* What was announced is about to leave the map, once announced and no more; what is
\* about to be announced arrived.
ReportInv ==
  /\ \A o \in active : published[o] # 0 => o \in completed
  /\ \A o \in found : "confirmed" \in Seen(o)
  /\ \A o \in completed : published[o] = 1

Inv == TypeOK /\ RequestInv /\ HistoryInv /\ PollInv /\ ChannelInv /\ ReportInv

-----------------------------------------------------------------------------
\* One more state is seen.
LEMMA SeenAppend ==
  ASSUME NEW s \in Seq(Update), NEW u \in Update
  PROVE  {Append(s, u)[i] : i \in DOMAIN Append(s, u)} = {s[i] : i \in DOMAIN s} \cup {u}
<1>. DEFINE t == Append(s, u)
<1>1. /\ DOMAIN s = 1 .. Len(s) /\ Len(s) \in Nat
      /\ DOMAIN t = 1 .. Len(s) + 1
      /\ \A i \in 1 .. Len(s) : t[i] = s[i]
      /\ t[Len(s) + 1] = u
  OBVIOUS
<1>2. DOMAIN t = DOMAIN s \cup {Len(s) + 1}
  BY <1>1
<1>. HIDE DEF t
<1>3. {t[i] : i \in DOMAIN t} = {s[i] : i \in DOMAIN s} \cup {u}
  BY <1>1, <1>2
<1>. QED
  BY <1>3 DEF t

LEMMA InitInv == Init => Inv
<1>. SUFFICES ASSUME Init PROVE Inv
  OBVIOUS
<1>1. TypeOK
  <2>1. history \in [Op -> Seq(Update)] /\ Subscribed = {}
    BY DEF Init, Subscribed
  <2>. QED
    BY <2>1 DEF Init, TypeOK
<1>2. RequestInv /\ HistoryInv
  BY DEF Init, RequestInv, HistoryInv, Seen
<1>3. PollInv /\ ChannelInv /\ ReportInv
  BY DEF Init, PollInv, ChannelInv, ReportInv, Subscribed
<1>. QED
  BY <1>1, <1>2, <1>3 DEF Inv

\* A client's own step.
LEMMA SettleInv ==
  ASSUME Inv, NEW o \in Op, NEW u \in Update, Settle(o, u)
  PROVE  Inv' /\ Seen(o)' = Seen(o) \cup {u} /\ \A p \in Op \ {o} : Seen(p)' = Seen(p)
<1>. USE DEF requestVars, pollVars
<1>1. /\ history'[o] = Append(history[o], u)
      /\ history[o] \in Seq(Update) /\ history[o] # <<>>
      /\ history' \in [Op -> Seq(Update)]
      /\ Len(history'[o]) = Len(history[o]) + 1
      /\ history'[o] # <<>>
      /\ \A p \in Op \ {o} : history'[p] = history[p]
  <2>1. history \in [Op -> Seq(Update)] /\ history' = [history EXCEPT ![o] = Append(@, u)]
    BY DEF Settle, Inv, TypeOK
  <2>2. history'[o] = Append(history[o], u) /\ \A p \in Op \ {o} : history'[p] = history[p]
    BY <2>1
  <2>3. /\ Append(history[o], u) \in Seq(Update) /\ Append(history[o], u) # <<>>
        /\ Len(Append(history[o], u)) = Len(history[o]) + 1
    BY <2>1, AppendProperties
  <2>. QED
    BY <2>1, <2>2, <2>3 DEF Settle
<1>2. Seen(o)' = Seen(o) \cup {u} /\ \A p \in Op \ {o} : Seen(p)' = Seen(p)
  <2>1. Seen(o)' = {Append(history[o], u)[i] : i \in DOMAIN Append(history[o], u)}
    BY <1>1 DEF Seen
  <2>2. \A p \in Op \ {o} : Seen(p)' = Seen(p)
    BY <1>1 DEF Seen
  <2>3. {Append(history[o], u)[i] : i \in DOMAIN Append(history[o], u)} = Seen(o) \cup {u}
    BY <1>1, SeenAppend DEF Seen
  <2>. QED
    BY <2>1, <2>2, <2>3
<1>3. Subscribed' = Subscribed
  BY DEF Settle, Subscribed
<1>4. TypeOK'
  <2>1. ASSUME NEW p \in Subscribed
        PROVE  subscriptions[p].sent <= Len(history'[p])
    BY <1>1 DEF Inv, TypeOK, Subscribed, Subscription
  <2>. QED
    BY <1>1, <1>3, <2>1 DEF Settle, Inv, TypeOK
<1>5. RequestInv'
  BY <1>1 DEF Settle, Inv, RequestInv
<1>6. HistoryInv'
  BY <1>2 DEF Settle, Inv, HistoryInv
<1>7. PollInv' /\ ChannelInv'
  BY <1>3 DEF Settle, Inv, PollInv, ChannelInv
<1>8. ReportInv'
  BY <1>2 DEF Settle, Inv, ReportInv, TypeOK
<1>. QED
  BY <1>2, <1>4, <1>5, <1>6, <1>7, <1>8 DEF Inv

\* Forwarding and the rest of the client touch the channels' fill and the outcomes.
LEMMA ClientInv ==
  ASSUME Inv, NEW o \in Op, CacheOutcome(o) \/ Forward(o) \/ Expire(o)
  PROVE  Inv'
<1>. USE DEF requestVars, pollVars, clientVars
<1>1. Subscribed' = Subscribed
  BY DepositAssumption DEF CacheOutcome, Forward, Expire, Subscribed, Inv, TypeOK, Subscription
<1>2. TypeOK'
  <2>1. CASE CacheOutcome(o)
    BY <1>1, <2>1 DEF CacheOutcome, Inv, TypeOK
  <2>2. CASE Forward(o)
    <3>1. subscriptions[o] \in Subscription /\ o \in Subscribed
      BY <2>2 DEF Forward, Inv, TypeOK, Subscribed
    <3>2. /\ subscriptions' \in [Op -> Subscription \cup {Nil}]
          /\ subscriptions'[o] = [subscriptions[o] EXCEPT !.sent = @ + 1]
          /\ \A p \in Op \ {o} : subscriptions'[p] = subscriptions[p]
      BY <2>2, <3>1 DEF Forward, Inv, TypeOK, Subscription
    <3>3. \A p \in Subscribed : /\ subscriptions'[p].received <= subscriptions'[p].sent
                                /\ subscriptions'[p].sent <= Len(history[p])
      BY <2>2, <3>1, <3>2 DEF Forward, Inv, TypeOK, Subscribed, Subscription
    <3>4. outcome' \subseteq Op
      BY <2>2 DEF Forward, Inv, TypeOK
    <3>. QED
      BY <1>1, <2>2, <3>2, <3>3, <3>4 DEF Forward, Inv, TypeOK
  <2>3. CASE Expire(o)
    BY <1>1, <2>3 DEF Expire, Inv, TypeOK
  <2>. QED
    BY <2>1, <2>2, <2>3
<1>3. /\ UNCHANGED <<history, adding, active, published, polling, valid, todo, pending, at,
                     checking, found, completed, timed_out>>
      /\ late \subseteq late'
  BY DEF CacheOutcome, Forward, Expire
<1>4. RequestInv' /\ HistoryInv' /\ PollInv' /\ ReportInv'
  BY <1>3 DEF Inv, RequestInv, HistoryInv, PollInv, ReportInv, Seen
<1>5. ChannelInv'
  BY <1>1, <1>3, DepositAssumption DEF Inv, ChannelInv, Subscribed, TypeOK
<1>. QED
  BY <1>2, <1>4, <1>5 DEF Inv

\* A request for an address, to the insertion.
LEMMA AddInv ==
  ASSUME Inv, NEW o \in Op, CreateAddress(o) \/ CheckLimit(o) \/ InsertDeposit(o)
  PROVE  Inv'
<1>. USE DEF pollVars, clientVars
<1>1. CASE CreateAddress(o)
  <2>1. o \notin active /\ subscriptions[o] = Nil /\ Seen(o) = {}
    BY <1>1 DEF CreateAddress, Inv, RequestInv, ChannelInv, Subscribed, Seen, TypeOK
  <2>2. /\ history' \in [Op -> Seq(Update)]
        /\ history'[o] = <<"waiting">> /\ history'[o] # <<>>
        /\ \A p \in Op \ {o} : history'[p] = history[p]
    BY <1>1 DEF CreateAddress, Inv, TypeOK, Update
  <2>3. Seen(o)' = {"waiting"} /\ \A p \in Op \ {o} : Seen(p)' = Seen(p)
    BY <2>2 DEF Seen
  <2>4. Subscribed' = Subscribed
    BY <1>1 DEF CreateAddress, Subscribed
  <2>5. TypeOK'
    BY <1>1, <2>1, <2>2, <2>4 DEF CreateAddress, Inv, TypeOK, Subscribed
  <2>6. RequestInv'
    BY <1>1, <2>1, <2>2 DEF CreateAddress, Inv, RequestInv, TypeOK
  <2>7. HistoryInv' /\ PollInv' /\ ChannelInv'
    BY <1>1, <2>3, <2>4 DEF CreateAddress, Inv, HistoryInv, PollInv, ChannelInv
  <2>8. ReportInv'
    BY <1>1, <2>1, <2>3 DEF CreateAddress, Inv, ReportInv, TypeOK
  <2>. QED
    BY <2>5, <2>6, <2>7, <2>8 DEF Inv
<1>2. CASE CheckLimit(o)
  <2>1. TypeOK'
    BY <1>2 DEF CheckLimit, Inv, TypeOK, Subscribed
  <2>2. RequestInv'
    BY <1>2 DEF CheckLimit, Inv, RequestInv, TypeOK
  <2>3. HistoryInv' /\ PollInv' /\ ChannelInv' /\ ReportInv'
    BY <1>2 DEF CheckLimit, Inv, HistoryInv, PollInv, ChannelInv, ReportInv, Seen, Subscribed
  <2>. QED
    BY <2>1, <2>2, <2>3 DEF Inv
<1>3. CASE InsertDeposit(o)
  <2>1. TypeOK'
    BY <1>3 DEF InsertDeposit, Inv, TypeOK, Subscribed
  <2>2. RequestInv'
    BY <1>3 DEF InsertDeposit, Inv, RequestInv, TypeOK
  <2>3. HistoryInv' /\ PollInv' /\ ChannelInv' /\ ReportInv'
    BY <1>3 DEF InsertDeposit, Inv, RequestInv, HistoryInv, PollInv, ChannelInv, ReportInv, Seen,
                Subscribed
  <2>. QED
    BY <2>1, <2>2, <2>3 DEF Inv
<1>. QED
  BY <1>1, <1>2, <1>3

\* The begin of a poll and of a federation's visit touch no deposit.
LEMMA BeginInv ==
  ASSUME Inv, PollBegin \/ \E f \in Federation : BeginFederation(f)
  PROVE  Inv'
<1>. USE DEF requestVars, clientVars
<1>1. CASE PollBegin
  <2>1. /\ todo' = active \ late /\ valid' = active \ late /\ timed_out' = active \cap late
        /\ pending' = {FedOf[o] : o \in valid'} /\ polling' = TRUE
        /\ completed = {} /\ found = {} /\ valid = {} /\ todo = {} /\ checking = Nil
        /\ UNCHANGED <<at, checking, found, completed, history, outcome, adding, active, late,
                       subscriptions, published, crashes>>
    BY <1>1 DEF PollBegin, Inv, TypeOK, PollInv
  <2>2. Subscribed' = Subscribed
    BY <2>1 DEF Subscribed
  <2>3. pending' \subseteq Federation
    BY <2>1, DepositAssumption DEF Inv, TypeOK
  <2>4. TypeOK'
    BY <2>1, <2>2, <2>3 DEF Inv, TypeOK
  <2>5. RequestInv' /\ HistoryInv' /\ ChannelInv' /\ ReportInv'
    BY <2>1, <2>2 DEF Inv, RequestInv, HistoryInv, ChannelInv, ReportInv, Seen
  <2>6. PollInv'
    BY <2>1 DEF Inv, PollInv
  <2>. QED
    BY <2>4, <2>5, <2>6 DEF Inv
<1>2. ASSUME NEW f \in Federation, BeginFederation(f) PROVE Inv'
  <2>1. Subscribed' = Subscribed
    BY <1>2 DEF BeginFederation, Subscribed
  <2>2. TypeOK'
    BY <1>2, <2>1 DEF BeginFederation, Inv, TypeOK
  <2>3. RequestInv' /\ HistoryInv' /\ ChannelInv' /\ ReportInv'
    BY <1>2, <2>1 DEF BeginFederation, Inv, RequestInv, HistoryInv, ChannelInv, ReportInv, Seen
  <2>4. PollInv'
    <3>1. checking = Nil
      BY <1>2, DepositAssumption DEF BeginFederation, Inv, PollInv, TypeOK
    <3>2. \A o \in todo : FedOf[o] \in pending
      BY <1>2, DepositAssumption DEF BeginFederation, Inv, PollInv, TypeOK
    <3>. QED
      BY <1>2, <3>1, <3>2 DEF BeginFederation, Inv, PollInv
  <2>. QED
    BY <2>2, <2>3, <2>4 DEF Inv
<1>. QED
  BY <1>1, <1>2

\* A deposit that is checked is watched, and there is something in its history.
LEMMA TodoFacts ==
  ASSUME Inv, NEW o \in todo
  PROVE  /\ o \in Op /\ o \in active /\ o # Nil /\ history[o] # <<>> /\ Len(history[o]) \in Nat \ {0}
         /\ history[o] \in Seq(Update)
         /\ polling
<1>1. o \in active /\ o \in Op /\ polling
  BY DEF Inv, TypeOK, PollInv
<1>2. history[o] # <<>> /\ history[o] \in Seq(Update)
  BY <1>1 DEF Inv, TypeOK, RequestInv
<1>3. Len(history[o]) \in Nat \ {0}
  BY <1>2, EmptySeq, LenProperties
<1>. QED
  BY <1>1, <1>2, <1>3, DepositAssumption

\* Subscribing, or failing to.
LEMMA SubscribeInv ==
  ASSUME Inv, NEW o \in Op, Subscribe(o) \/ SubscribeFails(o)
  PROVE  Inv'
<1>. USE DEF requestVars, clientVars
<1>1. o \in todo /\ FedOf[o] = at /\ checking = Nil
  BY DEF Subscribe, SubscribeFails, Checkable
<1>2. CASE Subscribe(o)
  <2>1. PICK n \in Nat : /\ n <= Len(history[o])
                         /\ subscriptions' = [subscriptions EXCEPT ![o] = [sent |-> n, received |-> n]]
    <3>. DEFINE start == IF o \in outcome THEN Len(history[o]) - 1 ELSE 0
    <3>1. start \in Nat /\ start <= Len(history[o])
      BY <1>1, TodoFacts
    <3>2. subscriptions' = [subscriptions EXCEPT ![o] = [sent |-> start, received |-> start]]
      BY <1>2 DEF Subscribe
    <3>. HIDE DEF start
    <3>. QED
      BY <3>1, <3>2
  <2>2. [sent |-> n, received |-> n] \in Subscription /\ [sent |-> n, received |-> n] # Nil
    BY <2>1, DepositAssumption DEF Subscription
  <2>3. /\ subscriptions' \in [Op -> Subscription \cup {Nil}]
        /\ subscriptions'[o] = [sent |-> n, received |-> n]
        /\ \A p \in Op \ {o} : subscriptions'[p] = subscriptions[p]
    BY <2>1, <2>2 DEF Inv, TypeOK
  <2>4. Subscribed' = Subscribed \cup {o}
    BY <2>2, <2>3 DEF Subscribed
  <2>5. \A p \in Subscribed' : /\ subscriptions'[p].received <= subscriptions'[p].sent
                               /\ subscriptions'[p].sent <= Len(history[p])
    <3>1. ASSUME NEW p \in Subscribed, p # o
          PROVE  /\ subscriptions'[p].received <= subscriptions'[p].sent
                 /\ subscriptions'[p].sent <= Len(history[p])
      BY <2>3, <3>1 DEF Inv, TypeOK, Subscribed
    <3>2. /\ subscriptions'[o].received <= subscriptions'[o].sent
          /\ subscriptions'[o].sent <= Len(history[o])
      BY <2>1, <2>3
    <3>. QED
      BY <2>4, <3>1, <3>2
  <2>6. TypeOK'
    BY <1>1, <1>2, <2>3, <2>5 DEF Subscribe, Inv, TypeOK
  <2>7. ChannelInv'
    BY <1>1, <1>2, <2>2, <2>3, <2>4, TodoFacts DEF Subscribe, Inv, ChannelInv, TypeOK
  <2>8. RequestInv' /\ HistoryInv' /\ PollInv' /\ ReportInv'
    BY <1>1, <1>2 DEF Subscribe, Inv, RequestInv, HistoryInv, PollInv, ReportInv, Seen
  <2>. QED
    BY <2>6, <2>7, <2>8 DEF Inv
<1>3. CASE SubscribeFails(o)
  <2>1. Subscribed' = Subscribed
    BY <1>3 DEF SubscribeFails, Subscribed
  <2>2. TypeOK'
    BY <1>1, <1>3, <2>1 DEF SubscribeFails, Inv, TypeOK
  <2>3. RequestInv' /\ HistoryInv' /\ PollInv' /\ ChannelInv' /\ ReportInv'
    BY <1>1, <1>3, <2>1 DEF SubscribeFails, Inv, RequestInv, HistoryInv, PollInv, ChannelInv, ReportInv, Seen
  <2>. QED
    BY <2>2, <2>3 DEF Inv
<1>. QED
  BY <1>2, <1>3

\* One update is received, or a closed channel dropped.  What it finds is confirmed, is
\* checked for the first time in this poll, and was not announced.
LEMMA ReceiveInv ==
  ASSUME Inv, NEW o \in Op, TryReceive(o)
  PROVE  Inv'
<1>. USE DEF requestVars, clientVars
<1>1. o \in todo /\ subscriptions[o] # Nil /\ (checking = Nil \/ checking = o)
  BY DepositAssumption DEF TryReceive, Checkable, Inv, TypeOK, ChannelInv
<1>2. subscriptions[o] \in Subscription /\ o \in Subscribed
  BY <1>1 DEF Inv, TypeOK, Subscribed
<1>3. /\ todo' = todo \ {o} /\ checking' = Nil
      /\ UNCHANGED <<polling, valid, pending, at, completed, timed_out, history, outcome, adding,
                     active, late, published, crashes>>
  BY DEF TryReceive
<1>4. \/ subscriptions' = subscriptions
      \/ subscriptions' = [subscriptions EXCEPT ![o] = Nil]
      \/ /\ subscriptions[o].received < subscriptions[o].sent
         /\ subscriptions' = [subscriptions EXCEPT ![o].received = @ + 1]
  BY DEF TryReceive
<1>5. /\ subscriptions' \in [Op -> Subscription \cup {Nil}]
      /\ Subscribed' \subseteq Subscribed
      /\ \A p \in Subscribed' : /\ subscriptions'[p].received <= subscriptions'[p].sent
                                /\ subscriptions'[p].sent <= Len(history[p])
  <2>1. CASE subscriptions' = subscriptions
    BY <2>1 DEF Inv, TypeOK, Subscribed
  <2>2. CASE subscriptions' = [subscriptions EXCEPT ![o] = Nil]
    BY <2>2 DEF Inv, TypeOK, Subscribed
  <2>3. CASE /\ subscriptions[o].received < subscriptions[o].sent
             /\ subscriptions' = [subscriptions EXCEPT ![o].received = @ + 1]
    <3>1. /\ subscriptions' \in [Op -> Subscription \cup {Nil}]
          /\ subscriptions'[o] = [subscriptions[o] EXCEPT !.received = @ + 1]
          /\ \A p \in Op \ {o} : subscriptions'[p] = subscriptions[p]
      BY <1>2, <2>3 DEF Inv, TypeOK, Subscription
    <3>2. /\ subscriptions'[o].received <= subscriptions'[o].sent
          /\ subscriptions'[o].sent <= Len(history[o])
      BY <1>2, <2>3, <3>1 DEF Inv, TypeOK, Subscription
    <3>. QED
      BY <1>2, <3>1, <3>2 DEF Inv, TypeOK, Subscribed
  <2>. QED
    BY <1>4, <2>1, <2>2, <2>3
<1>6. found' \subseteq found \cup {o} /\ (o \in found' \ found => "confirmed" \in Seen(o))
  <2>1. CASE subscriptions[o].received < subscriptions[o].sent
    <3>1. /\ found' = IF history[o][subscriptions'[o].received] \in {"confirmed", "claimed"}
                      THEN found \cup {o} ELSE found
          /\ subscriptions' = [subscriptions EXCEPT ![o].received = @ + 1]
      BY <2>1 DEF TryReceive
    <3>2. subscriptions'[o].received \in 1 .. Len(history[o])
      <4>1. /\ subscriptions'[o].received = subscriptions[o].received + 1
            /\ subscriptions[o].received \in Nat /\ subscriptions[o].sent \in Nat
            /\ subscriptions[o].sent <= Len(history[o])
        BY <1>2, <3>1 DEF Inv, TypeOK, Subscription
      <4>2. Len(history[o]) \in Nat
        BY <1>1, TodoFacts
      <4>. QED
        BY <2>1, <4>1, <4>2
    <3>3. DOMAIN history[o] = 1 .. Len(history[o])
      BY <1>1, TodoFacts, LenProperties
    <3>4. history[o][subscriptions'[o].received] \in Seen(o)
      BY <3>2, <3>3 DEF Seen
    <3>. QED
      BY <3>1, <3>4 DEF Inv, HistoryInv
  <2>2. CASE ~(subscriptions[o].received < subscriptions[o].sent)
    BY <2>2 DEF TryReceive
  <2>. QED
    BY <2>1, <2>2
<1>7. TypeOK'
  BY <1>1, <1>3, <1>5, <1>6, TodoFacts DEF Inv, TypeOK
<1>8. RequestInv' /\ HistoryInv'
  BY <1>3 DEF Inv, RequestInv, HistoryInv, Seen
<1>9. PollInv'
  BY <1>1, <1>3, <1>6 DEF Inv, PollInv
<1>10. ChannelInv'
  BY <1>3, <1>5 DEF Inv, ChannelInv
<1>11. ReportInv'
  BY <1>3, <1>6 DEF Inv, ReportInv, Seen
<1>. QED
  BY <1>7, <1>8, <1>9, <1>10, <1>11 DEF Inv

\* The end of a federation drops channels only.
LEMMA EndInv ==
  ASSUME Inv, EndFederation
  PROVE  Inv'
<1>. USE DEF requestVars, clientVars
<1>1. /\ subscriptions' \in [Op -> Subscription \cup {Nil}]
      /\ \A o \in Op : subscriptions'[o] \in {subscriptions[o], Nil}
  BY DEF EndFederation, Inv, TypeOK
<1>2. Subscribed' \subseteq Subscribed /\ \A o \in Subscribed' : subscriptions'[o] = subscriptions[o]
  BY <1>1 DEF Subscribed
<1>3. TypeOK'
  BY <1>1, <1>2 DEF EndFederation, Inv, TypeOK
<1>4. RequestInv' /\ HistoryInv' /\ PollInv' /\ ChannelInv' /\ ReportInv'
  BY <1>2 DEF EndFederation, Inv, RequestInv, HistoryInv, PollInv, ChannelInv, ReportInv, Seen
<1>. QED
  BY <1>3, <1>4 DEF Inv

\* What is announced is watched, arrived, and was not announced before.
LEMMA PublishInv ==
  ASSUME Inv, NEW o \in Op, Publish(o)
  PROVE  Inv' /\ o \in active /\ "confirmed" \in Seen(o) /\ published[o] = 0 /\ published'[o] = 1
<1>. USE DEF requestVars, clientVars
<1>1. /\ o \in found /\ o \in active /\ o \notin completed /\ o \in valid
      /\ "confirmed" \in Seen(o) /\ published[o] = 0
  BY DEF Publish, Inv, TypeOK, PollInv, ReportInv
<1>2. /\ published' \in [Op -> Nat] /\ published'[o] = 1
      /\ \A p \in Op \ {o} : published'[p] = published[p]
  BY <1>1 DEF Publish, Inv, TypeOK
<1>3. Subscribed' = Subscribed
  BY DEF Publish, Subscribed
<1>4. TypeOK'
  BY <1>1, <1>2, <1>3 DEF Publish, Inv, TypeOK
<1>5. RequestInv'
  BY <1>1, <1>2 DEF Publish, Inv, RequestInv
<1>6. HistoryInv' /\ PollInv' /\ ChannelInv'
  BY <1>1, <1>3 DEF Publish, Inv, HistoryInv, PollInv, ChannelInv, Seen
<1>7. ReportInv'
  <2>1. \A p \in active : published'[p] # 0 => p \in completed'
    BY <1>1, <1>2 DEF Publish, Inv, TypeOK, ReportInv
  <2>2. \A p \in completed' : published'[p] = 1
    BY <1>1, <1>2 DEF Publish, Inv, TypeOK, ReportInv, PollInv
  <2>3. \A p \in found' : "confirmed" \in Seen(p)'
    BY DEF Publish, Inv, ReportInv, Seen
  <2>. QED
    BY <2>1, <2>2, <2>3 DEF Publish, ReportInv
<1>. QED
  BY <1>1, <1>2, <1>4, <1>5, <1>6, <1>7 DEF Inv

\* The end of a poll: everything was checked, what is done leaves the map with its channel.
LEMMA PollEndInv ==
  ASSUME Inv, PollEnd
  PROVE  Inv'
<1>. USE DEF requestVars, clientVars
<1>. DEFINE done == completed \cup timed_out
<1>1. todo = {} /\ checking = Nil
  BY DepositAssumption DEF PollEnd, Inv, PollInv, TypeOK
<1>2. /\ subscriptions' \in [Op -> Subscription \cup {Nil}]
      /\ \A o \in Op : subscriptions'[o] \in {subscriptions[o], Nil}
      /\ \A o \in done \cap Op : subscriptions'[o] = Nil
  BY DEF PollEnd, Inv, TypeOK
<1>3. /\ Subscribed' \subseteq Subscribed \ done
      /\ \A o \in Subscribed' : subscriptions'[o] = subscriptions[o]
  BY <1>2 DEF Subscribed
<1>4. active' = active \ done
  BY DEF PollEnd
<1>5. TypeOK'
  BY <1>1, <1>2, <1>3, <1>4 DEF PollEnd, Inv, TypeOK
<1>6. RequestInv' /\ HistoryInv' /\ ChannelInv'
  BY <1>1, <1>3, <1>4 DEF PollEnd, Inv, RequestInv, HistoryInv, ChannelInv, Seen
<1>7. PollInv'
  BY <1>1 DEF PollEnd, Inv, PollInv
<1>8. ReportInv'
  BY <1>4 DEF PollEnd, Inv, ReportInv
<1>. QED
  BY <1>5, <1>6, <1>7, <1>8 DEF Inv

LEMMA CrashInv ==
  ASSUME Inv, Crash
  PROVE  Inv'
<1>. USE DEF requestVars, clientVars
<1>1. Subscribed' = {}
  BY DEF Crash, Subscribed
<1>2. TypeOK'
  <2>1. /\ adding' \in [Op -> {"none", "created", "checked", "added", "lost"}]
        /\ subscriptions' \in [Op -> Subscription \cup {Nil}]
        /\ crashes' \in Nat
    BY DEF Crash, Inv, TypeOK
  <2>. QED
    BY <1>1, <2>1 DEF Crash, Inv, TypeOK
<1>3. RequestInv'
  BY DEF Crash, Inv, RequestInv, TypeOK
<1>4. HistoryInv' /\ PollInv' /\ ChannelInv' /\ ReportInv'
  BY <1>1 DEF Crash, Inv, HistoryInv, PollInv, ChannelInv, ReportInv, Seen
<1>. QED
  BY <1>2, <1>3, <1>4 DEF Inv

LEMMA NextInv == Inv /\ [Next]_vars => Inv'
<1>. SUFFICES ASSUME Inv, [Next]_vars PROVE Inv'
  OBVIOUS
<1>1. CASE UNCHANGED vars
  <2>. USE <1>1 DEF vars, clientVars, requestVars, pollVars, Inv
  <2>1. TypeOK'
    BY DEF TypeOK, Subscribed
  <2>2. RequestInv' /\ HistoryInv'
    BY DEF RequestInv, HistoryInv, Seen
  <2>3. PollInv' /\ ChannelInv' /\ ReportInv'
    BY DEF PollInv, ChannelInv, ReportInv, Seen, Subscribed
  <2>. QED
    BY <2>1, <2>2, <2>3
<1>2. CASE Crash
  BY <1>2, CrashInv
<1>3. CASE PollStep
  <2>1. CASE PollIdle
    BY <1>1, <2>1 DEF PollIdle
  <2>. QED
    BY <1>3, <2>1, BeginInv, SubscribeInv, ReceiveInv, PublishInv, EndInv, PollEndInv DEF PollStep
<1>. QED
  BY <1>1, <1>2, <1>3, SettleInv, ClientInv, AddInv DEF Next, Step

\* The inductive invariant of the deposit monitor holds in every reachable state.
THEOREM Invariance == Spec => []Inv
BY InitInv, NextInv, PTL DEF Spec

\* The deposit monitor's state is type correct.
THEOREM TypeCorrect == Spec => []TypeOK
<1>1. Inv => TypeOK
  BY DEF Inv
<1>. QED
  BY <1>1, Invariance, PTL

\* Between two polls only watched deposits have channels.
THEOREM NoneLeftOver == Spec => []NoOrphanSubscription
<1>1. Inv => NoOrphanSubscription
  BY DEF Inv, ChannelInv, NoOrphanSubscription
<1>. QED
  BY <1>1, Invariance, PTL

\* The case in which the comment on subscriptions (deposit_monitor.rs:64) is true.
OneFederation == \A f, g \in Federation : f = g

\* Where there is one federation a subscription goes only with its deposit, whose time
\* may be over, or when its channel is closed: what the clean-up drops is late.
THEOREM PersistsInOneFederation ==
  ASSUME OneFederation
  PROVE  Spec => SubscriptionPersists
<1>1. ASSUME Inv, [Next]_vars, NEW o \in Subscribed, subscriptions'[o] = Nil
      PROVE  o \notin active' \/ o \in timed_out \/ Disconnected(o)
  <2>. USE DEF requestVars, clientVars, pollVars
  <2>1. o \in Op /\ o \in active /\ subscriptions[o] # Nil
        /\ subscriptions \in [Op -> Subscription \cup {Nil}]
    BY <1>1 DEF Inv, ChannelInv, Subscribed, TypeOK
  <2>2. ASSUME NEW p \in Op, Forward(p)
        PROVE  FALSE
    <3>1. subscriptions'[o] = IF o = p THEN [subscriptions[p] EXCEPT !.sent = @ + 1] ELSE subscriptions[o]
      BY <2>1, <2>2 DEF Forward
    <3>2. subscriptions[p] \in Subscription
      BY <2>1, <2>2 DEF Forward
    <3>3. [subscriptions[p] EXCEPT !.sent = @ + 1] \in Subscription
      BY <3>2 DEF Subscription
    <3>. QED
      BY <1>1, <2>1, <3>1, <3>3, DepositAssumption
  <2>3. ASSUME NEW p \in Op, Subscribe(p)
        PROVE  FALSE
    BY <1>1, <2>1, <2>3 DEF Subscribe
  <2>4. ASSUME NEW p \in Op, TryReceive(p)
        PROVE  Disconnected(o)
    <3>1. subscriptions[p] # Nil /\ subscriptions[p] \in Subscription
      BY <1>1, <2>1, <2>4 DEF TryReceive, Inv, ChannelInv
    <3>2. [subscriptions[p] EXCEPT !.received = @ + 1] \in Subscription
      BY <3>1 DEF Subscription
    <3>. QED
      BY <1>1, <2>1, <2>4, <3>2, DepositAssumption DEF TryReceive
  <2>5. CASE EndFederation
    <3>1. o \notin valid
      BY <1>1, <2>1, <2>5, DepositAssumption DEF EndFederation, Retained, OneFederation, Inv, TypeOK
    <3>. QED
      BY <1>1, <2>1, <2>5, <3>1 DEF EndFederation, Inv, PollInv, ChannelInv
  <2>6. CASE PollEnd \/ Crash
    BY <1>1, <2>1, <2>6 DEF PollEnd, Crash
  <2>7. CASE \/ \E p \in Op : \/ \E u \in Update : Settle(p, u)
                              \/ CacheOutcome(p) \/ Expire(p) \/ CreateAddress(p) \/ CheckLimit(p)
                              \/ InsertDeposit(p) \/ SubscribeFails(p) \/ Publish(p)
             \/ PollIdle \/ PollBegin \/ \E f \in Federation : BeginFederation(f)
             \/ UNCHANGED vars
    <3>1. subscriptions' = subscriptions
      BY <2>7 DEF Settle, CacheOutcome, Expire, CreateAddress, CheckLimit, InsertDeposit, SubscribeFails,
                  Publish, PollIdle, PollBegin, BeginFederation, vars
    <3>. QED
      BY <1>1, <2>1, <3>1
  <2>. QED
    BY <1>1, <2>2, <2>3, <2>4, <2>5, <2>6, <2>7 DEF Next, Step, PollStep
<1>2. Inv /\ [Next]_vars =>
        [\A o \in Subscribed : subscriptions'[o] = Nil =>
           o \notin active' \/ o \in timed_out \/ Disconnected(o)]_vars
  BY <1>1
<1>. QED
  BY <1>2, Invariance, PTL DEF Spec, SubscriptionPersists

-----------------------------------------------------------------------------
(* The monitor implements SettlementReporting. *)

Settled  == {o \in Op : "confirmed" \in Seen(o)}
Late     == late \cap active
Reported == {o \in Op : published[o] = 1 /\ adding[o] = "added"}

Mapping == <<Settled, active, Late, Reported>>

\* Most steps leave what the abstract service knows.
LEMMA QuietSteps ==
  ASSUME Inv,
         \/ UNCHANGED vars \/ PollIdle \/ PollBegin \/ EndFederation
         \/ \E f \in Federation : BeginFederation(f)
         \/ \E o \in Op : \/ CacheOutcome(o) \/ Forward(o) \/ CreateAddress(o) \/ CheckLimit(o)
                          \/ Subscribe(o) \/ SubscribeFails(o) \/ TryReceive(o)
  PROVE  Mapping' = Mapping
<1>1. active' = active /\ late' = late /\ published' = published
  BY DEF PollIdle, PollBegin, EndFederation, BeginFederation, CacheOutcome, Forward, CreateAddress,
         CheckLimit, Subscribe, SubscribeFails, TryReceive, vars, clientVars, requestVars
<1>2. \A o \in Op : adding'[o] = "added" <=> adding[o] = "added"
  BY DEF PollIdle, PollBegin, EndFederation, BeginFederation, CacheOutcome, Forward, CreateAddress,
         CheckLimit, Subscribe, SubscribeFails, TryReceive, vars, requestVars, Inv, TypeOK
<1>3. Settled' = Settled
  <2>1. CASE history' = history
    BY <2>1 DEF Settled, Seen
  <2>2. ASSUME NEW o \in Op, CreateAddress(o) PROVE Settled' = Settled
    <3>1. history[o] = <<>> /\ history' = [history EXCEPT ![o] = <<"waiting">>]
      BY <2>2 DEF CreateAddress, Inv, RequestInv
    <3>2. history'[o] = <<"waiting">> /\ \A p \in Op \ {o} : history'[p] = history[p]
      BY <3>1 DEF Inv, TypeOK
    <3>3. Seen(o) = {} /\ Seen(o)' = {"waiting"} /\ \A p \in Op \ {o} : Seen(p)' = Seen(p)
      BY <3>1, <3>2 DEF Seen
    <3>. QED
      BY <3>3 DEF Settled
  <2>3. history' = history \/ \E o \in Op : CreateAddress(o)
    BY DEF PollIdle, PollBegin, EndFederation, BeginFederation, CacheOutcome, Forward, CheckLimit,
           Subscribe, SubscribeFails, TryReceive, vars, clientVars
  <2>. QED
    BY <2>1, <2>2, <2>3
<1>. QED
  BY <1>1, <1>2, <1>3 DEF Mapping, Late, Reported

\* The client settles a deposit, or one of its other states changes.
LEMMA SettleRefines ==
  ASSUME Inv, NEW o \in Op, NEW u \in Update, Settle(o, u)
  PROVE  Reporting!Settle(o) \/ Mapping' = Mapping
<1>1. UNCHANGED <<active, late, published, adding>>
  BY DEF Settle, requestVars
<1>2. Settled' = Settled \/ Settled' = Settled \cup {o}
  BY SettleInv DEF Settled
<1>. QED
  BY <1>1, <1>2 DEF Reporting!Settle, Mapping, Settled, Late, Reported

LEMMA ExpireRefines ==
  ASSUME Inv, NEW o \in Op, Expire(o)
  PROVE  \E S \in SUBSET Op : Reporting!GrowLate(S)
<1>1. UNCHANGED <<active, published, adding, history>> /\ late' = late \cup {o}
  BY DEF Expire, requestVars, clientVars
<1>2. Reporting!GrowLate({o} \cap active)
  BY <1>1 DEF Reporting!GrowLate, Seen
<1>. QED
  BY <1>2

\* A deposit that is added was not announced, and may be late already.
LEMMA InsertRefines ==
  ASSUME Inv, NEW o \in Op, InsertDeposit(o)
  PROVE  \E S, T \in SUBSET Op : Reporting!Watch(S, T)
<1>1. /\ active' = active \cup {o} /\ UNCHANGED <<late, published, history>>
      /\ adding[o] = "checked" /\ adding' = [adding EXCEPT ![o] = "added"] /\ published[o] = 0
  BY DEF InsertDeposit, clientVars, Inv, RequestInv
<1>2. Settled' = Settled /\ Late' = Late \cup ({o} \cap late) /\ Reported' = Reported /\ o \notin Reported
  BY <1>1 DEF Settled, Seen, Late, Reported, Inv, TypeOK
<1>3. Reporting!Watch({o}, {o} \cap late)
  BY <1>1, <1>2 DEF Reporting!Watch, Settled, Late, Reported
<1>. QED
  BY <1>3

LEMMA PublishRefines ==
  ASSUME Inv, NEW o \in Op, Publish(o)
  PROVE  Reporting!Report(o)
<1>1. UNCHANGED <<active, late, history, adding>> /\ published' = [published EXCEPT ![o] = @ + 1]
  BY DEF Publish, requestVars, clientVars
<1>2. o \in active /\ "confirmed" \in Seen(o) /\ published[o] = 0 /\ published'[o] = 1
  BY PublishInv
<1>3. adding[o] = "added"
  BY <1>2 DEF Inv, RequestInv
<1>4. Settled' = Settled /\ Late' = Late /\ Reported' = Reported \cup {o} /\ o \notin Reported
  BY <1>1, <1>2, <1>3 DEF Settled, Seen, Late, Reported, Inv, TypeOK
<1>. QED
  BY <1>1, <1>2, <1>4 DEF Reporting!Report, Settled, Late, Reported

\* Who leaves the map was announced or is late.
LEMMA PollEndRefines ==
  ASSUME Inv, PollEnd
  PROVE  \E S \in SUBSET Op : Reporting!LetGo(S)
<1>. DEFINE done == completed \cup timed_out
<1>1. active' = active \ done /\ UNCHANGED <<late, history, adding, published>>
  BY DEF PollEnd, clientVars
<1>2. done \subseteq active \cap (Reported \cup Late) /\ done \in SUBSET Op
  BY DEF Inv, TypeOK, RequestInv, PollInv, ReportInv, Reported, Late
<1>3. Settled' = Settled /\ Late' = Late \ done /\ Reported' = Reported
  BY <1>1 DEF Settled, Seen, Late, Reported
<1>4. Reporting!LetGo(done)
  BY <1>1, <1>2, <1>3 DEF Reporting!LetGo, Settled, Late, Reported
<1>. QED
  BY <1>2, <1>4

LEMMA CrashRefines ==
  ASSUME Inv, Crash
  PROVE  Reporting!Forget
<1>1. active' = {} /\ UNCHANGED <<late, history, published>> /\ \A o \in Op : adding'[o] # "added"
  BY DEF Crash, clientVars
<1>. QED
  BY <1>1 DEF Reporting!Forget, Seen

\* Every step of the monitor is one of the abstract service, or none.
LEMMA StepRefines ==
  ASSUME Inv, [Next]_vars
  PROVE  [Reporting!Next]_(Reporting!absVars)
<1>1. ASSUME Mapping' = Mapping PROVE UNCHANGED Reporting!absVars
  BY <1>1 DEF Mapping, Settled, Late, Reported, Reporting!absVars
<1>2. CASE Crash
  BY <1>2, CrashRefines DEF Reporting!Next
<1>3. CASE PollStep
  BY <1>1, <1>3, QuietSteps, PublishRefines, PollEndRefines DEF PollStep, Reporting!Next
<1>4. ASSUME NEW o \in Op, NEW u \in Update, Settle(o, u) PROVE [Reporting!Next]_(Reporting!absVars)
  BY <1>1, <1>4, SettleRefines DEF Reporting!Next
<1>5. ASSUME NEW o \in Op,
             \/ CacheOutcome(o) \/ Forward(o) \/ Expire(o) \/ CreateAddress(o) \/ CheckLimit(o)
             \/ InsertDeposit(o)
      PROVE  [Reporting!Next]_(Reporting!absVars)
  BY <1>1, <1>5, QuietSteps, ExpireRefines, InsertRefines DEF Reporting!Next
<1>6. CASE UNCHANGED vars
  BY <1>1, <1>6, QuietSteps
<1>. QED
  BY <1>2, <1>3, <1>4, <1>5, <1>6 DEF Next, Step

\* The deposit monitor implements SettlementReporting: whatever is found, announced and
\* cleaned up in separate steps, and replayed to new subscriptions, a deposit is announced
\* at most once, truly, and let go only announced or late.
THEOREM Refinement == Spec => ImplementsReporting
<1>1. Init => Reporting!Init
  BY DEF Init, Seen, Reporting!Init
<1>2. Inv /\ [Next]_vars => [Reporting!Next]_(Reporting!absVars)
  BY StepRefines
<1>. QED
  BY <1>1, <1>2, Invariance, PTL DEF Spec, ImplementsReporting, Reporting!Spec

=============================================================================
