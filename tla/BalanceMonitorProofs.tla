------------------------ MODULE BalanceMonitorProofs ------------------------
(***************************************************************************)
(* Theorems about the delivery of events, with the balance monitor and     *)
(* requests as publishers, for any endpoints, streams, capacity and        *)
(* retries, and whatever the log leaves out: the log is in order, webhooks *)
(* account for what was published, streams for what they missed, and the   *)
(* monitor for the balances it has seen.                                   *)
(***************************************************************************)
EXTENDS BalanceMonitor, FiniteSetTheorems, SequenceTheorems, TLAPS

-----------------------------------------------------------------------------
(* The inductive invariant *)

\* A source publishes an event of its own, the latest it has.
PublishInv ==
  \A p \in Source :
    /\ step[p] \in {"idle", "gone"} => publishing[p] = 0
    /\ step[p] \in {"sent", "spawned"} => publishing[p] \in Events /\ sent[publishing[p]].source = p
    /\ step[p] = "sent" => \A n \in Events : sent[n].source = p => n <= publishing[p]

\* As long as a source lives, all its events for the log but the one it publishes are in it.
FlightInv ==
  \A n \in Events :
    LET p == sent[n].source
    IN step[p] # "gone" /\ sent[n].content \notin Quiet => (n \in LoggedEvents <=> n # publishing[p])

\* There is no delivery of an event to come.
SpawnInv ==
  \A e \in Endpoint : \A n \in (1..MaxSent) \ Events : delivery[e][n].state = "none"

HeardBy(s)  == {heard[s][i] : i \in DOMAIN heard[s]}
Missed(s)   == ((1 .. cursor[s] - 1) \cap Interested(s)) \ HeardBy(s)

\* A stream has heard what lies before its position, in order, and knows how much of it
\* it may have missed.
StreamInv ==
  \A s \in Stream :
    /\ HeardBy(s) \subseteq 1 .. cursor[s] - 1
    /\ \A i \in 1..Len(heard[s]) - 1 : heard[s][i] < heard[s][i + 1]
    /\ Cardinality(Missed(s)) <= skipped[s]
    /\ skipped[s] + Len(heard[s]) <= cursor[s] - 1

BusInv == DeliveryTypeOK /\ Len(sent) <= MaxSent /\ PublishInv /\ FlightInv /\ LogInOrder

DeliveryInv == BusInv /\ SpawnInv /\ WebhooksAccount /\ StreamInv

-----------------------------------------------------------------------------
\* A sequence over some set is one over any larger set.
LEMMA LargerSeq ==
  ASSUME NEW S, NEW T, S \subseteq T, NEW q \in Seq(S)
  PROVE  q \in Seq(T)
OBVIOUS

\* What is in a sequence after one more is appended.
LEMMA ElementsAppend ==
  ASSUME NEW S, NEW q \in Seq(S), NEW x \in S
  PROVE  {Append(q, x)[i] : i \in DOMAIN Append(q, x)} = {q[i] : i \in DOMAIN q} \cup {x}
<1>. DEFINE t == Append(q, x)
<1>1. /\ DOMAIN q = 1 .. Len(q) /\ Len(q) \in Nat
      /\ DOMAIN t = 1 .. Len(q) + 1
      /\ \A i \in 1 .. Len(q) : t[i] = q[i]
      /\ t[Len(q) + 1] = x
  OBVIOUS
<1>2. DOMAIN t = DOMAIN q \cup {Len(q) + 1}
  BY <1>1
<1>. HIDE DEF t
<1>3. {t[i] : i \in DOMAIN t} = {q[i] : i \in DOMAIN q} \cup {x}
  BY <1>1, <1>2
<1>. QED
  BY <1>3 DEF t

\* Every event has a source.
LEMMA Sources ==
  ASSUME DeliveryTypeOK
  PROVE  \A n \in Events : sent[n].source \in Source
<1>. SUFFICES ASSUME NEW n \in Events PROVE sent[n].source \in Source
  OBVIOUS
<1>1. sent[n] \in [source : Source, content : Content]
  BY ElementOfSeq DEF DeliveryTypeOK, Events
<1>. QED
  BY <1>1

-----------------------------------------------------------------------------
(* Steps that leave parts of the delivery alone *)

\* The bus's invariant is about the bus only.
LEMMA BusQuiet ==
  ASSUME BusInv, UNCHANGED busVars,
         delivery' \in [Endpoint -> [1..MaxSent -> [state : DeliveryState, attempts : 0..MaxAttempts]]],
         arrived' \in [Endpoint -> SUBSET (Events \X (1..MaxAttempts))],
         cursor' \in [Stream -> 1..Len(sent) + 1],
         heard' \in [Stream -> Seq(Events)],
         skipped' \in [Stream -> Nat]
  PROVE  BusInv'
<1>1. sent' = sent /\ step' = step /\ publishing' = publishing /\ logged' = logged
  BY DEF busVars
<1>2. Events' = Events /\ LoggedEvents' = LoggedEvents
  BY <1>1 DEF Events, LoggedEvents
<1>3. DeliveryTypeOK'
  BY <1>1, <1>2 DEF BusInv, DeliveryTypeOK
<1>. QED
  BY <1>1, <1>2, <1>3 DEF BusInv, PublishInv, FlightInv, LogInOrder

\* So is what streams know of the streams and the events.
LEMMA StreamsQuiet ==
  ASSUME StreamInv, UNCHANGED <<sent, streamVars>>
  PROVE  StreamInv'
<1>1. sent' = sent /\ cursor' = cursor /\ heard' = heard /\ skipped' = skipped
  BY DEF streamVars
<1>2. \A s \in Stream : HeardBy(s)' = HeardBy(s) /\ Missed(s)' = Missed(s)
  BY <1>1 DEF HeardBy, Missed, Interested, Events
<1>. QED
  BY <1>1, <1>2 DEF StreamInv

-----------------------------------------------------------------------------
(* publish *)

\* A new event changes nothing of the old ones.
LEMMA SendStep ==
  ASSUME DeliveryInv, NEW p \in Source, NEW c \in Content, Send(p, c)
  PROVE  DeliveryInv'
<1>. DEFINE N == Len(sent) + 1
<1>1. /\ sent \in Seq([source : Source, content : Content]) /\ Len(sent) \in Nat
      /\ DOMAIN sent = Events
      /\ step[p] = "idle" /\ Len(sent) < MaxSent
      /\ step' = [step EXCEPT ![p] = "sent"]
      /\ UNCHANGED <<logged, webhookVars, streamVars>>
  BY DEF Send, DeliveryInv, BusInv, DeliveryTypeOK, Events
<1>2. /\ sent' \in Seq([source : Source, content : Content]) /\ Len(sent') = N
      /\ sent'[N] = [source |-> p, content |-> c]
      /\ \A n \in Events : sent'[n] = sent[n]
  BY <1>1, AppendProperties DEF Send, Events
<1>3. publishing' = [publishing EXCEPT ![p] = N]
  BY <1>2 DEF Send
<1>4. /\ Events' = Events \cup {N} /\ N \notin Events /\ Events' \subseteq 1..MaxSent
      /\ \A n \in Events : n < N
  BY <1>1, <1>2, DeliveryAssumption DEF Events
<1>5. /\ step'[p] = "sent" /\ \A q \in Source \ {p} : step'[q] = step[q]
      /\ publishing'[p] = N /\ \A q \in Source \ {p} : publishing'[q] = publishing[q]
      /\ publishing[p] = 0
  BY <1>1, <1>3 DEF DeliveryInv, BusInv, DeliveryTypeOK, PublishInv
<1>6. LoggedEvents' = LoggedEvents /\ LoggedEvents \subseteq Events
  BY <1>1 DEF LoggedEvents, DeliveryInv, BusInv, DeliveryTypeOK
<1>7. DeliveryTypeOK'
  <2>1. logged' \in Seq(Events')
    BY <1>1, <1>4, LargerSeq DEF DeliveryInv, BusInv, DeliveryTypeOK
  <2>2. \A s \in Stream : heard[s] \in Seq(Events')
    BY <1>4, LargerSeq DEF DeliveryInv, BusInv, DeliveryTypeOK
  <2>3. heard' \in [Stream -> Seq(Events')]
    BY <1>1, <2>2 DEF streamVars, DeliveryInv, BusInv, DeliveryTypeOK
  <2>4. arrived' \in [Endpoint -> SUBSET (Events' \X (1..MaxAttempts))]
    <3>1. Events \X (1..MaxAttempts) \subseteq Events' \X (1..MaxAttempts)
      BY <1>4
    <3>. QED
      BY <1>1, <3>1 DEF webhookVars, DeliveryInv, BusInv, DeliveryTypeOK
  <2>5. cursor' \in [Stream -> 1..Len(sent') + 1]
    BY <1>1, <1>2 DEF streamVars, DeliveryInv, BusInv, DeliveryTypeOK
  <2>6. /\ step' \in [Source -> {"idle", "sent", "spawned", "gone"}]
        /\ publishing' \in [Source -> {0} \cup Events']
    BY <1>1, <1>3, <1>4 DEF DeliveryInv, BusInv, DeliveryTypeOK
  <2>7. /\ delivery' \in [Endpoint -> [1..MaxSent -> [state : DeliveryState, attempts : 0..MaxAttempts]]]
        /\ skipped' \in [Stream -> Nat]
    BY <1>1 DEF webhookVars, streamVars, DeliveryInv, BusInv, DeliveryTypeOK
  <2>. QED
    BY <1>2, <2>1, <2>3, <2>4, <2>5, <2>6, <2>7 DEF DeliveryTypeOK
<1>8. Len(sent') <= MaxSent
  BY <1>1, <1>2, DeliveryAssumption
<1>9. PublishInv'
  BY <1>2, <1>4, <1>5 DEF DeliveryInv, BusInv, PublishInv
<1>10. FlightInv'
  <2>. SUFFICES ASSUME NEW n \in Events', step'[sent'[n].source] # "gone", sent'[n].content \notin Quiet
                PROVE  n \in LoggedEvents <=> n # publishing'[sent'[n].source]
    BY <1>6 DEF FlightInv
  <2>1. CASE n = N
    BY <1>2, <1>4, <1>5, <1>6, <2>1
  <2>2. CASE n \in Events /\ sent[n].source = p
    BY <1>1, <1>2, <1>4, <1>5, <2>2 DEF DeliveryInv, BusInv, FlightInv
  <2>3. CASE n \in Events /\ sent[n].source # p
    <3>1. sent[n].source \in Source
      BY <2>3, Sources DEF DeliveryInv, BusInv
    <3>. QED
      BY <1>2, <1>5, <2>3, <3>1 DEF DeliveryInv, BusInv, FlightInv
  <2>. QED
    BY <1>4, <2>1, <2>2, <2>3
<1>11. LogInOrder'
  <2>1. \A i, j \in DOMAIN logged' :
          i < j /\ sent'[logged'[i]].source = sent'[logged'[j]].source => logged'[i] < logged'[j]
    <3>1. \A i \in DOMAIN logged : logged[i] \in Events
      BY DEF DeliveryInv, BusInv, DeliveryTypeOK
    <3>. QED
      BY <1>1, <1>2, <3>1 DEF DeliveryInv, BusInv, LogInOrder
  <2>2. ASSUME NEW m \in Events', NEW n \in Events', m < n, sent'[m].source = sent'[n].source,
               sent'[m].content \notin Quiet
        PROVE  m \in LoggedEvents
    <3>1. m \in Events
      BY <1>4, <2>2 DEF Events
    <3>2. CASE n \in Events
      BY <1>2, <2>2, <3>1, <3>2 DEF DeliveryInv, BusInv, LogInOrder
    <3>3. CASE n = N
      <4>1. sent[m].source = p /\ m # 0 /\ sent[m].content \notin Quiet
        BY <1>2, <2>2, <3>1, <3>3 DEF Events
      <4>. QED
        BY <1>1, <1>5, <3>1, <4>1 DEF DeliveryInv, BusInv, FlightInv
    <3>. QED
      BY <1>4, <3>2, <3>3
  <2>. QED
    BY <1>6, <2>1, <2>2 DEF LogInOrder
<1>12. \A x : /\ Interested(x)' \cap Events = Interested(x) /\ Interested(x) \subseteq Events
              /\ Interested(x)' \subseteq Events'
  BY <1>2, <1>4 DEF Interested
<1>13. SpawnInv'
  BY <1>1, <1>4 DEF DeliveryInv, SpawnInv, webhookVars
<1>14. \A n \in Events' : Handed(n)' => n \in Events /\ Handed(n)
  <2>1. ASSUME NEW n \in Events', n = N PROVE ~Handed(n)'
    <3>1. n \notin LoggedEvents' /\ step'[sent'[n].source] = "sent"
      BY <1>2, <1>4, <1>5, <1>6, <2>1
    <3>2. \A m \in Events' : ~(m > n)
      BY <1>1, <1>4, <2>1 DEF Events
    <3>. QED
      BY <3>1, <3>2 DEF Handed
  <2>2. ASSUME NEW n \in Events, Handed(n)' PROVE Handed(n)
    <3>1. sent'[n].source = sent[n].source /\ sent[n].source \in Source
      BY <1>2, Sources DEF DeliveryInv, BusInv
    <3>2. CASE sent[n].source = p
      BY <1>1, <3>2 DEF Handed
    <3>3. CASE sent[n].source # p
      <4>1. step'[sent[n].source] = step[sent[n].source] /\ sent'[N].source # sent[n].source
        BY <1>2, <1>5, <3>1, <3>3
      <4>. QED
        BY <1>2, <1>4, <1>6, <2>2, <3>1, <4>1 DEF Handed
    <3>. QED
      BY <3>2, <3>3
  <2>. QED
    BY <1>4, <2>1, <2>2
<1>15. WebhooksAccount'
  <2>. SUFFICES ASSUME NEW e \in Endpoint, NEW n \in Events'
                PROVE  LET d == delivery[e][n]
                       IN /\ n \in Interested(e)' /\ Handed(n)' => d.state # "none"
                          /\ d.state # "none" =>
                               /\ n \in Interested(e)'
                               /\ \/ sent'[n].content \in Quiet
                                  \/ n \in LoggedEvents
                                  \/ \E q \in Source : step'[q] = "spawned" /\ publishing'[q] = n
                          /\ d.state = "delivered" => \E a \in 1..MaxAttempts : <<n, a>> \in arrived[e]
                          /\ d.state = "failed" => d.attempts = MaxAttempts
    BY <1>1, <1>6 DEF WebhooksAccount, webhookVars
  <2>1. CASE n = N
    <3>1. delivery[e][n].state = "none"
      BY <1>1, <1>4, <2>1 DEF DeliveryInv, SpawnInv
    <3>. QED
      BY <1>4, <1>6, <1>14, <2>1, <3>1
  <2>2. CASE n \in Events
    <3>. DEFINE d == delivery[e][n]
    <3>1. /\ n \in Interested(e) /\ Handed(n) => d.state # "none"
          /\ d.state # "none" =>
               /\ n \in Interested(e)
               /\ \/ sent[n].content \in Quiet
                  \/ n \in LoggedEvents
                  \/ \E q \in Source : step[q] = "spawned" /\ publishing[q] = n
          /\ d.state = "delivered" => \E a \in 1..MaxAttempts : <<n, a>> \in arrived[e]
          /\ d.state = "failed" => d.attempts = MaxAttempts
      BY <2>2 DEF DeliveryInv, WebhooksAccount
    <3>2. \A q \in Source : step[q] = "spawned" => step'[q] = "spawned" /\ publishing'[q] = publishing[q]
      BY <1>1, <1>5
    <3>3. sent'[n] = sent[n] /\ (n \in Interested(e)' <=> n \in Interested(e))
      BY <1>2, <1>12, <2>2
    <3>4. Handed(n)' => Handed(n)
      BY <1>14, <2>2 DEF Events
    <3>5. n \in Interested(e)' /\ Handed(n)' => d.state # "none"
      BY <3>1, <3>3, <3>4
    <3>6. (\E q \in Source : step[q] = "spawned" /\ publishing[q] = n)
            => \E q \in Source : step'[q] = "spawned" /\ publishing'[q] = n
      BY <3>2
    <3>7. d.state # "none" =>
            /\ n \in Interested(e)'
            /\ \/ sent'[n].content \in Quiet
               \/ n \in LoggedEvents
               \/ \E q \in Source : step'[q] = "spawned" /\ publishing'[q] = n
      BY <3>1, <3>3, <3>6
    <3>. QED
      BY <3>1, <3>5, <3>7
  <2>. QED
    BY <1>4, <2>1, <2>2
<1>16. StreamInv'
  <2>1. ASSUME NEW s \in Stream
        PROVE  HeardBy(s)' = HeardBy(s) /\ Missed(s)' = Missed(s) /\ cursor'[s] = cursor[s]
               /\ heard'[s] = heard[s] /\ skipped'[s] = skipped[s]
    <3>1. heard'[s] = heard[s] /\ cursor'[s] = cursor[s] /\ skipped'[s] = skipped[s]
      BY <1>1 DEF streamVars
    <3>2. 1 .. cursor[s] - 1 \subseteq Events
      BY <1>1 DEF DeliveryInv, BusInv, DeliveryTypeOK, Events
    <3>. QED
      BY <1>12, <3>1, <3>2 DEF HeardBy, Missed
  <2>. QED
    BY <2>1 DEF DeliveryInv, StreamInv
<1>. QED
  BY <1>7, <1>8, <1>9, <1>10, <1>11, <1>13, <1>15, <1>16 DEF DeliveryInv, BusInv

\* The handlers are spawned: deliveries begin to those who want the event.
LEMMA SpawnStep ==
  ASSUME DeliveryInv, NEW p \in Source, SpawnHandlers(p)
  PROVE  DeliveryInv'
<1>. DEFINE k == publishing[p]
<1>1. /\ step[p] = "sent" /\ step' = [step EXCEPT ![p] = "spawned"]
      /\ UNCHANGED <<sent, publishing, logged, arrived, cursor, heard, skipped>>
      /\ delivery' = [e \in Endpoint |-> IF k \in Interested(e)
                                         THEN [delivery[e] EXCEPT ![k].state = "due"] ELSE delivery[e]]
  BY DEF SpawnHandlers, streamVars
<1>2. k \in Events /\ k \in 1..MaxSent /\ sent[k].source = p
  BY <1>1, DeliveryAssumption DEF DeliveryInv, BusInv, DeliveryTypeOK, PublishInv, Events
<1>3. /\ Events' = Events /\ LoggedEvents' = LoggedEvents
      /\ \A x : Interested(x)' = Interested(x) /\ Interested(x) \subseteq Events
  BY <1>1 DEF Events, LoggedEvents, Interested
<1>4. step'[p] = "spawned" /\ \A q \in Source \ {p} : step'[q] = step[q]
  BY <1>1 DEF DeliveryInv, BusInv, DeliveryTypeOK
<1>5. /\ delivery' \in [Endpoint -> [1..MaxSent -> [state : DeliveryState, attempts : 0..MaxAttempts]]]
      /\ \A e \in Endpoint : /\ \A n \in 1..MaxSent : n # k => delivery'[e][n] = delivery[e][n]
                             /\ k \in Interested(e) => delivery'[e][k].state = "due"
                             /\ k \notin Interested(e) => delivery'[e] = delivery[e]
  <2>. DEFINE D == [state : DeliveryState, attempts : 0..MaxAttempts]
  <2>1. delivery \in [Endpoint -> [1..MaxSent -> D]] /\ "due" \in DeliveryState
    BY DEF DeliveryInv, BusInv, DeliveryTypeOK, DeliveryState
  <2>2. ASSUME NEW e \in Endpoint
        PROVE  /\ delivery'[e] \in [1..MaxSent -> D]
               /\ \A n \in 1..MaxSent : n # k => delivery'[e][n] = delivery[e][n]
               /\ k \in Interested(e) => delivery'[e][k].state = "due"
               /\ k \notin Interested(e) => delivery'[e] = delivery[e]
    <3>1. delivery[e] \in [1..MaxSent -> D] /\ delivery[e][k] \in D
      BY <1>2, <2>1
    <3>2. [delivery[e][k] EXCEPT !.state = "due"] \in D
      BY <2>1, <3>1
    <3>3. [delivery[e] EXCEPT ![k].state = "due"] = [delivery[e] EXCEPT ![k] = [delivery[e][k] EXCEPT !.state = "due"]]
      BY <3>1
    <3>4. CASE k \in Interested(e)
      <4>1. delivery'[e] = [delivery[e] EXCEPT ![k] = [delivery[e][k] EXCEPT !.state = "due"]]
        BY <1>1, <3>3, <3>4
      <4>. QED
        BY <1>2, <3>1, <3>2, <3>4, <4>1
    <3>5. CASE k \notin Interested(e)
      BY <1>1, <3>1, <3>5
    <3>. QED
      BY <3>4, <3>5
  <2>3. delivery' \in [Endpoint -> [1..MaxSent -> D]]
    <3>1. DOMAIN delivery' = Endpoint /\ delivery' = [e \in Endpoint |-> delivery'[e]]
      BY <1>1
    <3>. QED
      BY <2>2, <3>1
  <2>. QED
    BY <2>2, <2>3
<1>6. BusInv'
  <2>1. DeliveryTypeOK'
    BY <1>1, <1>3, <1>5 DEF DeliveryInv, BusInv, DeliveryTypeOK
  <2>2. PublishInv'
    BY <1>1, <1>2, <1>3, <1>4 DEF DeliveryInv, BusInv, PublishInv
  <2>3. FlightInv'
    <3>1. \A n \in Events : sent[n].source \in Source
      BY Sources DEF DeliveryInv, BusInv
    <3>. QED
      BY <1>1, <1>3, <1>4, <3>1 DEF DeliveryInv, BusInv, FlightInv
  <2>4. LogInOrder' /\ Len(sent') <= MaxSent
    BY <1>1, <1>3 DEF DeliveryInv, BusInv, LogInOrder
  <2>. QED
    BY <2>1, <2>2, <2>3, <2>4 DEF BusInv
<1>7. SpawnInv'
  BY <1>2, <1>3, <1>5 DEF DeliveryInv, SpawnInv
<1>8. \A n \in Events \ {k} : Handed(n)' => Handed(n)
  <2>. SUFFICES ASSUME NEW n \in Events, n # k, Handed(n)' PROVE Handed(n)
    OBVIOUS
  <2>1. sent[n].source \in Source
    BY Sources DEF DeliveryInv, BusInv
  <2>2. CASE sent[n].source = p
    <3>1. n < k
      <4>1. n <= k
        BY <1>1, <2>2 DEF DeliveryInv, BusInv, PublishInv
      <4>. QED
        BY <1>2, <4>1 DEF Events
    <3>. QED
      BY <1>2, <2>2, <3>1 DEF Handed
  <2>3. CASE sent[n].source # p
    <3>1. step'[sent[n].source] = step[sent[n].source]
      BY <1>4, <2>1, <2>3
    <3>. QED
      BY <1>1, <1>3, <3>1 DEF Handed
  <2>. QED
    BY <2>2, <2>3
<1>9. WebhooksAccount'
  <2>. SUFFICES ASSUME NEW e \in Endpoint, NEW n \in Events
                PROVE  LET d == delivery'[e][n]
                       IN /\ n \in Interested(e) /\ Handed(n)' => d.state # "none"
                          /\ d.state # "none" =>
                               /\ n \in Interested(e)
                               /\ \/ sent[n].content \in Quiet
                                  \/ n \in LoggedEvents
                                  \/ \E q \in Source : step'[q] = "spawned" /\ publishing[q] = n
                          /\ d.state = "delivered" => \E a \in 1..MaxAttempts : <<n, a>> \in arrived[e]
                          /\ d.state = "failed" => d.attempts = MaxAttempts
    BY <1>1, <1>3 DEF WebhooksAccount
  <2>1. CASE n = k /\ k \in Interested(e)
    BY <1>4, <1>5, <2>1
  <2>2. CASE ~(n = k /\ k \in Interested(e))
    <3>1. n \in 1..MaxSent
      BY DeliveryAssumption DEF DeliveryInv, BusInv, DeliveryTypeOK, Events
    <3>2. delivery'[e][n] = delivery[e][n]
      BY <1>5, <2>2, <3>1
    <3>3. \A q \in Source : step[q] = "spawned" => step'[q] = "spawned"
      BY <1>4
    <3>4. n \in Interested(e) /\ Handed(n)' => Handed(n)
      BY <1>8, <2>2
    <3>. QED
      BY <3>2, <3>3, <3>4 DEF DeliveryInv, WebhooksAccount
  <2>. QED
    BY <2>1, <2>2
<1>10. StreamInv'
  BY <1>1, StreamsQuiet DEF DeliveryInv, streamVars
<1>. QED
  BY <1>6, <1>7, <1>9, <1>10 DEF DeliveryInv

\* The event of a source goes to the log when all before it did, if it is one for the log.
LEMMA CriticalStep ==
  ASSUME DeliveryInv, NEW p \in Source, HandleCritical(p)
  PROVE  DeliveryInv'
<1>. DEFINE k == publishing[p]
<1>1. /\ step[p] = "spawned" /\ step' = [step EXCEPT ![p] = "idle"]
      /\ publishing' = [publishing EXCEPT ![p] = 0]
      /\ sent[k].content \in Quiet => logged' = logged
      /\ sent[k].content \notin Quiet => logged' = Append(logged, k)
      /\ UNCHANGED <<sent, delivery, arrived, cursor, heard, skipped>>
  BY DEF HandleCritical, webhookVars, streamVars
<1>2. /\ k \in Events /\ sent[k].source = p /\ k # 0
      /\ logged \in Seq(Events) /\ Len(logged) \in Nat /\ DOMAIN logged = 1 .. Len(logged)
  BY <1>1 DEF DeliveryInv, BusInv, DeliveryTypeOK, PublishInv, Events
<1>3. /\ Events' = Events
      /\ \A x : Interested(x)' = Interested(x) /\ Interested(x) \subseteq Events
  BY <1>1 DEF Events, Interested
<1>4. /\ step'[p] = "idle" /\ \A q \in Source \ {p} : step'[q] = step[q]
      /\ publishing'[p] = 0 /\ \A q \in Source \ {p} : publishing'[q] = publishing[q]
  BY <1>1 DEF DeliveryInv, BusInv, DeliveryTypeOK
<1>5. ASSUME sent[k].content \notin Quiet
      PROVE  /\ logged' \in Seq(Events) /\ DOMAIN logged' = 1 .. Len(logged) + 1
             /\ logged'[Len(logged) + 1] = k
             /\ \A i \in 1 .. Len(logged) : logged'[i] = logged[i]
             /\ LoggedEvents' = LoggedEvents \cup {k}
             /\ k \notin LoggedEvents
  <2>1. logged' = Append(logged, k)
    BY <1>1, <1>5
  <2>2. /\ logged' \in Seq(Events) /\ DOMAIN logged' = 1 .. Len(logged) + 1
        /\ logged'[Len(logged) + 1] = k
        /\ \A i \in 1 .. Len(logged) : logged'[i] = logged[i]
    BY <1>2, <2>1, AppendProperties
  <2>3. LoggedEvents' = LoggedEvents \cup {k}
    BY <1>2, <2>1, ElementsAppend DEF LoggedEvents
  <2>4. k \notin LoggedEvents
    BY <1>1, <1>2, <1>5 DEF DeliveryInv, BusInv, FlightInv
  <2>. QED
    BY <2>2, <2>3, <2>4
<1>6. /\ sent[k].content \in Quiet => LoggedEvents' = LoggedEvents
      /\ LoggedEvents \subseteq LoggedEvents' /\ LoggedEvents' \subseteq LoggedEvents \cup {k}
      /\ logged' \in Seq(Events)
  <2>1. ASSUME sent[k].content \in Quiet PROVE LoggedEvents' = LoggedEvents /\ logged' = logged
    BY <1>1, <2>1 DEF LoggedEvents
  <2>. QED
    BY <1>2, <1>5, <2>1
<1>7. \A n \in Events : sent[n].source \in Source
  BY Sources DEF DeliveryInv, BusInv
<1>8. BusInv'
  <2>1. DeliveryTypeOK'
    BY <1>1, <1>3, <1>6 DEF DeliveryInv, BusInv, DeliveryTypeOK
  <2>2. PublishInv'
    BY <1>1, <1>3, <1>4 DEF DeliveryInv, BusInv, PublishInv
  <2>3. FlightInv'
    <3>. SUFFICES ASSUME NEW n \in Events, step'[sent[n].source] # "gone", sent[n].content \notin Quiet
                  PROVE  n \in LoggedEvents' <=> n # publishing'[sent[n].source]
      BY <1>1, <1>3 DEF FlightInv
    <3>1. CASE sent[n].source = p
      <4>1. n \in LoggedEvents <=> n # k
        BY <1>1, <3>1 DEF DeliveryInv, BusInv, FlightInv
      <4>2. n # 0
        BY DEF Events
      <4>3. n \in LoggedEvents'
        BY <1>5, <1>6, <4>1
      <4>. QED
        BY <1>4, <3>1, <4>2, <4>3
    <3>2. CASE sent[n].source # p
      <4>1. n # k /\ sent[n].source \in Source \ {p}
        BY <1>2, <1>7, <3>2
      <4>2. n \in LoggedEvents <=> n # publishing[sent[n].source]
        BY <1>4, <4>1 DEF DeliveryInv, BusInv, FlightInv
      <4>. QED
        BY <1>4, <1>6, <4>1, <4>2
    <3>. QED
      BY <3>1, <3>2
  <2>4. LogInOrder'
    <3>1. ASSUME NEW i \in DOMAIN logged', NEW j \in DOMAIN logged', i < j,
                 sent[logged'[i]].source = sent[logged'[j]].source
          PROVE  logged'[i] < logged'[j]
      <4>1. CASE sent[k].content \in Quiet
        BY <1>1, <3>1, <4>1 DEF DeliveryInv, BusInv, LogInOrder
      <4>2. CASE sent[k].content \notin Quiet
        <5>1. i \in DOMAIN logged /\ logged'[i] = logged[i] /\ logged[i] \in Events
          BY <1>2, <1>5, <3>1, <4>2
        <5>2. CASE j \in DOMAIN logged
          BY <1>2, <1>5, <3>1, <4>2, <5>1, <5>2 DEF DeliveryInv, BusInv, LogInOrder
        <5>3. CASE j = Len(logged) + 1
          <6>1. logged'[j] = k /\ sent[logged[i]].source = sent[k].source /\ logged[i] # k
            BY <1>5, <3>1, <4>2, <5>1, <5>3 DEF LoggedEvents
          <6>2. ~(k < logged[i])
            BY <1>2, <1>5, <4>2, <5>1, <6>1 DEF DeliveryInv, BusInv, LogInOrder
          <6>. QED
            BY <1>2, <5>1, <6>1, <6>2 DEF Events
        <5>. QED
          BY <1>2, <1>5, <4>2, <5>2, <5>3
      <4>. QED
        BY <4>1, <4>2
    <3>2. \A m, n \in Events :
            m < n /\ sent[m].source = sent[n].source /\ sent[m].content \notin Quiet => m \in LoggedEvents'
      BY <1>6 DEF DeliveryInv, BusInv, LogInOrder
    <3>. QED
      BY <1>1, <1>3, <3>1, <3>2 DEF LogInOrder
  <2>5. Len(sent') <= MaxSent
    BY <1>1 DEF DeliveryInv, BusInv
  <2>. QED
    BY <2>1, <2>2, <2>3, <2>4, <2>5 DEF BusInv
<1>9. SpawnInv'
  BY <1>1, <1>3 DEF DeliveryInv, SpawnInv
<1>10. \A n \in Events : Handed(n)' => Handed(n)
  <2>. SUFFICES ASSUME NEW n \in Events, Handed(n)' PROVE Handed(n)
    OBVIOUS
  <2>1. CASE sent[n].source = p
    BY <1>1, <2>1 DEF Handed
  <2>2. CASE sent[n].source # p
    <3>1. n # k /\ step'[sent[n].source] = step[sent[n].source]
      BY <1>2, <1>4, <1>7, <2>2
    <3>. QED
      BY <1>1, <1>3, <1>6, <3>1 DEF Handed
  <2>. QED
    BY <2>1, <2>2
<1>11. WebhooksAccount'
  <2>. SUFFICES ASSUME NEW e \in Endpoint, NEW n \in Events
                PROVE  LET d == delivery[e][n]
                       IN /\ n \in Interested(e) /\ Handed(n)' => d.state # "none"
                          /\ d.state # "none" =>
                               /\ n \in Interested(e)
                               /\ \/ sent[n].content \in Quiet
                                  \/ n \in LoggedEvents'
                                  \/ \E q \in Source : step'[q] = "spawned" /\ publishing'[q] = n
                          /\ d.state = "delivered" => \E a \in 1..MaxAttempts : <<n, a>> \in arrived[e]
                          /\ d.state = "failed" => d.attempts = MaxAttempts
    BY <1>1, <1>3 DEF WebhooksAccount
  <2>1. n = k => sent[n].content \in Quiet \/ n \in LoggedEvents'
    BY <1>5
  <2>2. \A q \in Source : step[q] = "spawned" /\ publishing[q] = n
          => n = k \/ (step'[q] = "spawned" /\ publishing'[q] = n)
    BY <1>4
  <2>3. Handed(n)' => Handed(n)
    BY <1>10
  <2>. QED
    BY <1>6, <2>1, <2>2, <2>3 DEF DeliveryInv, WebhooksAccount
<1>12. StreamInv'
  BY <1>1, StreamsQuiet DEF DeliveryInv, streamVars
<1>. QED
  BY <1>8, <1>9, <1>11, <1>12 DEF DeliveryInv

\* A request that is dropped takes its event with it, and publishes no other.
LEMMA DropStep ==
  ASSUME DeliveryInv, NEW p \in Source, DropRequest(p)
  PROVE  DeliveryInv'
<1>1. /\ step[p] \in {"idle", "sent"} /\ step' = [step EXCEPT ![p] = "gone"]
      /\ publishing' = [publishing EXCEPT ![p] = 0]
      /\ UNCHANGED <<sent, logged, delivery, arrived, cursor, heard, skipped>>
  BY DEF DropRequest, webhookVars, streamVars
<1>2. /\ Events' = Events /\ LoggedEvents' = LoggedEvents
      /\ \A x : Interested(x)' = Interested(x)
  BY <1>1 DEF Events, LoggedEvents, Interested
<1>3. /\ step'[p] = "gone" /\ \A q \in Source \ {p} : step'[q] = step[q]
      /\ publishing'[p] = 0 /\ \A q \in Source \ {p} : publishing'[q] = publishing[q]
  BY <1>1 DEF DeliveryInv, BusInv, DeliveryTypeOK
<1>4. \A n \in Events : sent[n].source \in Source
  BY Sources DEF DeliveryInv, BusInv
<1>5. DeliveryTypeOK' /\ Len(sent') <= MaxSent /\ PublishInv' /\ LogInOrder'
  BY <1>1, <1>2, <1>3 DEF DeliveryInv, BusInv, DeliveryTypeOK, PublishInv, LogInOrder
<1>6. FlightInv'
  BY <1>1, <1>2, <1>3, <1>4 DEF DeliveryInv, BusInv, FlightInv
<1>7. SpawnInv'
  BY <1>1, <1>2 DEF DeliveryInv, SpawnInv
<1>8. WebhooksAccount'
  <2>1. \A q \in Source : step[q] = "spawned" => step'[q] = "spawned" /\ publishing'[q] = publishing[q]
    BY <1>1, <1>3
  <2>2. \A n \in Events : Handed(n)' => Handed(n)
    BY <1>1, <1>2, <1>3, <1>4 DEF Handed
  <2>. QED
    BY <1>1, <1>2, <2>1, <2>2 DEF DeliveryInv, WebhooksAccount
<1>9. StreamInv'
  BY <1>1, StreamsQuiet DEF DeliveryInv, streamVars
<1>. QED
  BY <1>5, <1>6, <1>7, <1>8, <1>9 DEF DeliveryInv, BusInv

-----------------------------------------------------------------------------
(* deliver_webhook *)

\* A delivery that goes on, or an attempt that arrives.
LEMMA DeliveryChange ==
  ASSUME DeliveryInv, NEW e \in Endpoint, NEW n \in Events,
         NEW d \in [state : DeliveryState, attempts : 0..MaxAttempts],
         delivery' = [delivery EXCEPT ![e] = [@ EXCEPT ![n] = d]],
         d.state = "none" <=> delivery[e][n].state = "none",
         d.state = "delivered" => \E a \in 1..MaxAttempts : <<n, a>> \in arrived'[e],
         d.state = "failed" => d.attempts = MaxAttempts,
         arrived' \in [Endpoint -> SUBSET (Events \X (1..MaxAttempts))],
         \A x \in Endpoint : arrived[x] \subseteq arrived'[x],
         UNCHANGED <<busVars, streamVars>>
  PROVE  DeliveryInv'
<1>. DEFINE D == [state : DeliveryState, attempts : 0..MaxAttempts]
<1>1. /\ sent' = sent /\ step' = step /\ publishing' = publishing /\ logged' = logged
      /\ cursor' = cursor /\ heard' = heard /\ skipped' = skipped /\ UNCHANGED busVars
  BY DEF busVars, streamVars
<1>2. /\ Events' = Events /\ LoggedEvents' = LoggedEvents
      /\ \A x : Interested(x)' = Interested(x)
  BY <1>1 DEF Events, LoggedEvents, Interested
<1>3. Events \subseteq 1..MaxSent
  BY DeliveryAssumption DEF DeliveryInv, BusInv, DeliveryTypeOK, Events
<1>4. /\ delivery' \in [Endpoint -> [1..MaxSent -> D]] /\ delivery'[e][n] = d
      /\ \A x \in Endpoint, m \in 1..MaxSent : <<x, m>> # <<e, n>> => delivery'[x][m] = delivery[x][m]
  <2>1. delivery \in [Endpoint -> [1..MaxSent -> D]] /\ n \in 1..MaxSent /\ d \in D
    BY <1>3 DEF DeliveryInv, BusInv, DeliveryTypeOK
  <2>. HIDE DEF D
  <2>. QED
    BY <2>1
<1>5. BusInv'
  BY <1>1, <1>4, BusQuiet DEF DeliveryInv, BusInv, DeliveryTypeOK
<1>6. \A x \in Endpoint, m \in 1..MaxSent : delivery'[x][m].state = "none" <=> delivery[x][m].state = "none"
  BY <1>4
<1>7. SpawnInv'
  BY <1>2, <1>6 DEF DeliveryInv, SpawnInv
<1>8. WebhooksAccount'
  <2>1. ASSUME NEW x \in Endpoint, NEW m \in Events
        PROVE  /\ delivery'[x][m].state = "delivered" => \E a \in 1..MaxAttempts : <<m, a>> \in arrived'[x]
               /\ delivery'[x][m].state = "failed" => delivery'[x][m].attempts = MaxAttempts
    <3>1. CASE x = e /\ m = n
      BY <1>4, <3>1
    <3>2. CASE ~(x = e /\ m = n)
      <4>1. /\ delivery[x][m].state = "delivered" => \E a \in 1..MaxAttempts : <<m, a>> \in arrived[x]
            /\ delivery[x][m].state = "failed" => delivery[x][m].attempts = MaxAttempts
        BY Zenon DEF DeliveryInv, WebhooksAccount
      <4>2. <<x, m>> # <<e, n>> /\ m \in 1..MaxSent
        BY <1>3, <3>2
      <4>3. delivery'[x][m] = delivery[x][m] /\ arrived[x] \subseteq arrived'[x]
        BY <1>4, <4>2
      <4>. QED
        BY <4>1, <4>3
    <3>. QED
      BY <3>1, <3>2
  <2>2. ASSUME NEW x \in Endpoint, NEW m \in Events
        PROVE  /\ m \in Interested(x) /\ Handed(m) => delivery'[x][m].state # "none"
               /\ delivery'[x][m].state # "none" =>
                    /\ m \in Interested(x)
                    /\ \/ sent[m].content \in Quiet
                       \/ m \in LoggedEvents
                       \/ \E p \in Source : step[p] = "spawned" /\ publishing[p] = m
    <3>1. /\ m \in Interested(x) /\ Handed(m) => delivery[x][m].state # "none"
          /\ delivery[x][m].state # "none" =>
               /\ m \in Interested(x)
               /\ \/ sent[m].content \in Quiet
                  \/ m \in LoggedEvents
                  \/ \E p \in Source : step[p] = "spawned" /\ publishing[p] = m
      BY Zenon DEF DeliveryInv, WebhooksAccount
    <3>2. delivery'[x][m].state = "none" <=> delivery[x][m].state = "none"
      BY <1>3, <1>6
    <3>. QED
      BY <3>1, <3>2, Zenon
  <2>3. \A m \in Events : Handed(m)' = Handed(m)
    BY <1>1, <1>2 DEF Handed
  <2>. QED
    BY <1>1, <1>2, <2>1, <2>2, <2>3 DEF WebhooksAccount
<1>9. StreamInv'
  BY <1>1, StreamsQuiet DEF DeliveryInv, streamVars
<1>. QED
  BY <1>5, <1>7, <1>8, <1>9 DEF DeliveryInv

LEMMA WebhookStep ==
  ASSUME DeliveryInv, NEW e \in Endpoint, NEW n \in Events,
         Deliver(e, n) \/ \E a \in 1..MaxAttempts, accepted \in BOOLEAN : Arrive(e, n, a, accepted)
  PROVE  DeliveryInv'
<1>. DEFINE D == [state : DeliveryState, attempts : 0..MaxAttempts]
            d == delivery[e][n]
<1>1. /\ delivery \in [Endpoint -> [1..MaxSent -> D]] /\ n \in 1..MaxSent
      /\ delivery[e] \in [1..MaxSent -> D] /\ d \in D
      /\ d.state \in DeliveryState /\ d.attempts \in 0..MaxAttempts /\ MaxAttempts \in Nat
      /\ arrived \in [Endpoint -> SUBSET (Events \X (1..MaxAttempts))]
  <2>1. delivery \in [Endpoint -> [1..MaxSent -> D]] /\ n \in 1..MaxSent
    BY DeliveryAssumption DEF DeliveryInv, BusInv, DeliveryTypeOK, Events
  <2>2. delivery[e] \in [1..MaxSent -> D] /\ d \in D
    BY <2>1
  <2>. QED
    BY <2>1, <2>2, DeliveryAssumption DEF DeliveryInv, BusInv, DeliveryTypeOK
<1>2. \A s \in DeliveryState :
        /\ [state |-> s, attempts |-> d.attempts] \in D
        /\ SetDelivery(e, n, s) =>
             delivery' = [delivery EXCEPT ![e] = [@ EXCEPT ![n] = [state |-> s, attempts |-> d.attempts]]]
  <2>. SUFFICES ASSUME NEW s \in DeliveryState
                PROVE  /\ [state |-> s, attempts |-> d.attempts] \in D
                       /\ SetDelivery(e, n, s) =>
                            delivery' = [delivery EXCEPT ![e] = [@ EXCEPT ![n] = [state |-> s, attempts |-> d.attempts]]]
    OBVIOUS
  <2>1. [d EXCEPT !.state = s] = [state |-> s, attempts |-> d.attempts]
    BY <1>1
  <2>2. [delivery EXCEPT ![e][n].state = s] = [delivery EXCEPT ![e] = [delivery[e] EXCEPT ![n].state = s]]
    BY <1>1
  <2>3. [delivery[e] EXCEPT ![n].state = s] = [delivery[e] EXCEPT ![n] = [d EXCEPT !.state = s]]
    BY <1>1
  <2>4. SetDelivery(e, n, s) =>
          delivery' = [delivery EXCEPT ![e] = [delivery[e] EXCEPT ![n] = [state |-> s, attempts |-> d.attempts]]]
    BY <2>1, <2>2, <2>3 DEF SetDelivery
  <2>. QED
    BY <1>1, <2>4
<1>3. CASE Attempt(e, n)
  <2>. DEFINE b == [state |-> "waiting", attempts |-> d.attempts + 1]
  <2>1. /\ d.state = "due" /\ d.attempts < MaxAttempts
        /\ delivery' = [delivery EXCEPT ![e] = [@ EXCEPT ![n] = b]]
        /\ UNCHANGED <<arrived, busVars, streamVars>>
    BY <1>1, <1>3 DEF Attempt
  <2>2. b \in D /\ b.state = "waiting"
    BY <1>1, <2>1 DEF DeliveryState
  <2>. HIDE DEF b
  <2>. QED
    BY <1>1, <2>1, <2>2, DeliveryChange
<1>4. CASE GiveUp(e, n)
  <2>. DEFINE b == [state |-> "failed", attempts |-> d.attempts]
  <2>1. /\ d.state = "due" /\ d.attempts >= MaxAttempts
        /\ SetDelivery(e, n, "failed")
        /\ UNCHANGED <<arrived, busVars, streamVars>>
    BY <1>4 DEF GiveUp
  <2>2. b \in D /\ b.state = "failed" /\ b.attempts = MaxAttempts
        /\ delivery' = [delivery EXCEPT ![e] = [@ EXCEPT ![n] = b]]
    BY <1>1, <1>2, <2>1 DEF DeliveryState
  <2>. HIDE DEF b
  <2>. QED
    BY <1>1, <2>1, <2>2, DeliveryChange
<1>5. CASE AttemptFails(e, n)
  <2>. DEFINE b == [state |-> "due", attempts |-> d.attempts]
  <2>1. /\ d.state = "waiting"
        /\ SetDelivery(e, n, "due")
        /\ UNCHANGED <<arrived, busVars, streamVars>>
    BY <1>5 DEF AttemptFails
  <2>2. b \in D /\ b.state = "due"
        /\ delivery' = [delivery EXCEPT ![e] = [@ EXCEPT ![n] = b]]
    BY <1>1, <1>2, <2>1 DEF DeliveryState
  <2>. HIDE DEF b
  <2>. QED
    BY <1>1, <2>1, <2>2, DeliveryChange
<1>6. ASSUME NEW a \in 1..MaxAttempts, NEW accepted \in BOOLEAN, Arrive(e, n, a, accepted)
      PROVE  DeliveryInv'
  <2>1. /\ arrived' \in [Endpoint -> SUBSET (Events \X (1..MaxAttempts))]
        /\ \A x \in Endpoint : arrived[x] \subseteq arrived'[x]
        /\ <<n, a>> \in arrived'[e]
        /\ UNCHANGED <<busVars, streamVars>>
    BY <1>1, <1>6 DEF Arrive
  <2>2. CASE SetDelivery(e, n, "delivered") /\ d.state = "waiting"
    <3>. DEFINE b == [state |-> "delivered", attempts |-> d.attempts]
    <3>1. b \in D /\ b.state = "delivered"
          /\ delivery' = [delivery EXCEPT ![e] = [@ EXCEPT ![n] = b]]
      BY <1>1, <1>2, <2>2 DEF DeliveryState
    <3>. HIDE DEF b
    <3>. QED
      BY <1>1, <2>1, <2>2, <3>1, DeliveryChange
  <2>3. CASE UNCHANGED delivery
    <3>1. delivery' = [delivery EXCEPT ![e] = [@ EXCEPT ![n] = d]]
      BY <1>1, <2>3
    <3>2. /\ d.state = "delivered" => \E c \in 1..MaxAttempts : <<n, c>> \in arrived'[e]
          /\ d.state = "failed" => d.attempts = MaxAttempts
      BY <2>1 DEF DeliveryInv, WebhooksAccount
    <3>. QED
      BY <1>1, <2>1, <3>1, <3>2, DeliveryChange
  <2>. QED
    BY <1>6, <2>2, <2>3 DEF Arrive
<1>. QED
  BY <1>3, <1>4, <1>5, <1>6 DEF Deliver

-----------------------------------------------------------------------------
(* The event streams *)

\* What a stream may have missed is among the events before its position.
LEMMA MissedFinite ==
  ASSUME DeliveryTypeOK, NEW s \in Stream
  PROVE  IsFiniteSet(Missed(s)) /\ Cardinality(Missed(s)) \in Nat
<1>1. cursor[s] - 1 \in Int
  BY DEF DeliveryTypeOK
<1>2. IsFiniteSet(1 .. cursor[s] - 1)
  BY <1>1, FS_Interval
<1>3. Missed(s) \subseteq 1 .. cursor[s] - 1
  BY DEF Missed
<1>. QED
  BY <1>2, <1>3, FS_Subset, FS_CardinalityType

\* Only the stream that reads moves.
LEMMA StreamStep ==
  ASSUME DeliveryInv, NEW s \in Stream, Read(s) \/ Lag(s)
  PROVE  DeliveryInv'
<1>. DEFINE c == cursor[s]
            L == Len(heard[s])
<1>1. /\ UNCHANGED <<busVars, webhookVars>>
      /\ sent' = sent /\ step' = step /\ publishing' = publishing /\ logged' = logged
      /\ delivery' = delivery /\ arrived' = arrived
  BY DEF Read, Lag, busVars, webhookVars
<1>2. /\ Events' = Events /\ LoggedEvents' = LoggedEvents
      /\ \A x : Interested(x)' = Interested(x) /\ Interested(x) \subseteq Events
  BY <1>1 DEF Events, LoggedEvents, Interested
<1>3. /\ c \in 1..Len(sent) + 1 /\ Len(sent) \in Nat /\ Oldest \in 1..Len(sent) + 1 /\ Events = 1..Len(sent)
      /\ heard[s] \in Seq(Events) /\ L \in Nat /\ DOMAIN heard[s] = 1 .. L
      /\ skipped[s] \in Nat
  BY DeliveryAssumption DEF DeliveryInv, BusInv, DeliveryTypeOK, Events, Oldest
<1>4. /\ HeardBy(s) \subseteq 1 .. c - 1
      /\ \A i \in 1..L - 1 : heard[s][i] < heard[s][i + 1]
      /\ Cardinality(Missed(s)) <= skipped[s]
      /\ skipped[s] + L <= c - 1
      /\ IsFiniteSet(Missed(s)) /\ Cardinality(Missed(s)) \in Nat
  BY MissedFinite DEF DeliveryInv, BusInv, StreamInv
<1>5. /\ cursor'[s] \in 1..Len(sent) + 1 /\ heard'[s] \in Seq(Events) /\ skipped'[s] \in Nat
      /\ \A t \in Stream \ {s} : cursor'[t] = cursor[t] /\ heard'[t] = heard[t] /\ skipped'[t] = skipped[t]
      /\ HeardBy(s)' \subseteq 1 .. cursor'[s] - 1
      /\ \A i \in 1..Len(heard'[s]) - 1 : heard'[s][i] < heard'[s][i + 1]
      /\ Cardinality(Missed(s)') <= skipped'[s]
      /\ skipped'[s] + Len(heard'[s]) <= cursor'[s] - 1
  <2>1. CASE Read(s)
    <3>1. /\ c \in Events /\ cursor'[s] = c + 1 /\ skipped' = skipped
          /\ \A t \in Stream \ {s} : cursor'[t] = cursor[t] /\ heard'[t] = heard[t]
          /\ c \in Interested(s) => heard'[s] = Append(heard[s], c)
          /\ c \notin Interested(s) => heard'[s] = heard[s]
      <4>1. /\ c \in Oldest .. Len(sent) /\ cursor' = [cursor EXCEPT ![s] = c + 1] /\ skipped' = skipped
            /\ c \in Interested(s) => heard' = [heard EXCEPT ![s] = Append(heard[s], c)]
            /\ c \notin Interested(s) => heard' = heard
        BY <2>1 DEF Read
      <4>2. c \in Events
        BY <1>3, <4>1
      <4>3. cursor \in [Stream -> 1..Len(sent) + 1] /\ heard \in [Stream -> Seq(Events)]
        BY DEF DeliveryInv, BusInv, DeliveryTypeOK
      <4>4. cursor'[s] = c + 1 /\ \A t \in Stream \ {s} : cursor'[t] = cursor[t]
        BY <4>1, <4>3
      <4>. QED
        BY <4>1, <4>2, <4>3, <4>4
    <3>0. heard[s] \in Seq(Events) /\ c \in Events /\ L \in Nat /\ DOMAIN heard[s] = 1 .. L
      BY <1>3, <3>1
    <3>2. 1 .. cursor'[s] - 1 = (1 .. c - 1) \cup {c}
      BY <1>3, <3>1
    <3>3. Missed(s)' = Missed(s)
      <4>1. CASE c \in Interested(s)
        <5>1. HeardBy(s)' = HeardBy(s) \cup {c}
          <6>1. heard'[s] = Append(heard[s], c)
            BY <3>1, <4>1
          <6>. QED
            BY <3>0, <6>1, ElementsAppend DEF HeardBy
        <5>2. c \notin 1 .. c - 1
          BY <1>3
        <5>. QED
          BY <1>2, <3>2, <5>1, <5>2 DEF Missed
      <4>2. CASE c \notin Interested(s)
        BY <1>2, <3>1, <3>2, <4>2 DEF Missed, HeardBy
      <4>. QED
        BY <4>1, <4>2
    <3>4. CASE c \in Interested(s)
      <4>0. heard'[s] = Append(heard[s], c)
        BY <3>1, <3>4
      <4>1. /\ heard'[s] \in Seq(Events) /\ Len(heard'[s]) = L + 1 /\ heard'[s][L + 1] = c
            /\ \A i \in 1 .. L : heard'[s][i] = heard[s][i]
        BY <3>0, <4>0, AppendProperties
      <4>2. HeardBy(s)' = HeardBy(s) \cup {c}
        BY <3>0, <4>0, ElementsAppend DEF HeardBy
      <4>3. \A i \in 1 .. L : heard[s][i] \in HeardBy(s)
        BY <1>3 DEF HeardBy
      <4>4. \A i \in 1 .. L : heard[s][i] < c /\ heard[s][i] \in Nat
        BY <1>3, <1>4, <4>3
      <4>5. \A i \in 1 .. L : heard'[s][i] < heard'[s][i + 1]
        <5>. SUFFICES ASSUME NEW i \in 1 .. L PROVE heard'[s][i] < heard'[s][i + 1]
          OBVIOUS
        <5>1. CASE i = L
          BY <1>3, <4>1, <4>4, <5>1
        <5>2. CASE i # L
          <6>1. i \in 1 .. L - 1 /\ i + 1 \in 1 .. L
            BY <1>3, <5>2
          <6>. QED
            BY <1>4, <4>1, <6>1
        <5>. QED
          BY <5>1, <5>2
      <4>6. HeardBy(s)' \subseteq 1 .. cursor'[s] - 1
        BY <1>4, <3>2, <4>2
      <4>7. cursor'[s] \in 1..Len(sent) + 1 /\ skipped'[s] \in Nat /\ skipped'[s] + Len(heard'[s]) <= cursor'[s] - 1
        <5>1. cursor'[s] = c + 1 /\ skipped'[s] = skipped[s] /\ Len(heard'[s]) = L + 1 /\ c \in 1..Len(sent)
          BY <1>3, <3>1, <4>1
        <5>2. skipped[s] \in Nat /\ L \in Nat /\ skipped[s] + L <= c - 1 /\ Len(sent) \in Nat
          BY <1>3, <1>4
        <5>. HIDE DEF c, L
        <5>. QED
          BY <5>1, <5>2
      <4>8. Cardinality(Missed(s)') <= skipped'[s]
        BY <1>4, <3>1, <3>3
      <4>9. \A i \in 1..Len(heard'[s]) - 1 : heard'[s][i] < heard'[s][i + 1]
        <5>1. Len(heard'[s]) - 1 = L
          <6>. HIDE DEF L
          <6>. QED
            BY <1>3, <4>1
        <5>. QED
          BY <4>5, <5>1, Zenon
      <4>. QED
        BY <3>1, <4>1, <4>6, <4>7, <4>8, <4>9
    <3>5. CASE c \notin Interested(s)
      <4>1. heard'[s] = heard[s] /\ HeardBy(s)' = HeardBy(s)
        BY <3>1, <3>5 DEF HeardBy
      <4>. QED
        BY <1>3, <1>4, <3>1, <3>2, <3>3, <4>1
    <3>. QED
      BY <3>4, <3>5
  <2>2. CASE Lag(s)
    <3>1. /\ c < Oldest /\ cursor'[s] = Oldest /\ skipped'[s] = skipped[s] + (Oldest - c)
          /\ heard' = heard
          /\ \A t \in Stream \ {s} : cursor'[t] = cursor[t] /\ skipped'[t] = skipped[t]
      BY <2>2 DEF Lag, DeliveryInv, BusInv, DeliveryTypeOK
    <3>2. HeardBy(s)' = HeardBy(s)
      BY <3>1 DEF HeardBy
    <3>3. 1 .. cursor'[s] - 1 = (1 .. c - 1) \cup (c .. Oldest - 1)
      BY <1>3, <3>1
    <3>4. Missed(s)' \subseteq Missed(s) \cup (c .. Oldest - 1)
      BY <1>2, <3>2, <3>3 DEF Missed
    <3>5. IsFiniteSet(c .. Oldest - 1) /\ Cardinality(c .. Oldest - 1) = Oldest - c
      <4>1. c \in Int /\ Oldest - 1 \in Int /\ ~(c > Oldest - 1) /\ (Oldest - 1) - c + 1 = Oldest - c
        BY <1>3, <3>1
      <4>. QED
        BY <4>1, FS_Interval
    <3>6. /\ IsFiniteSet(Missed(s) \cup (c .. Oldest - 1))
          /\ Cardinality(Missed(s) \cup (c .. Oldest - 1)) <= Cardinality(Missed(s)) + (Oldest - c)
      <4>1. IsFiniteSet(Missed(s) \cap (c .. Oldest - 1)) /\ Cardinality(Missed(s) \cap (c .. Oldest - 1)) \in Nat
        BY <1>4, FS_Subset, FS_CardinalityType
      <4>2. /\ IsFiniteSet(Missed(s) \cup (c .. Oldest - 1))
            /\ Cardinality(Missed(s) \cup (c .. Oldest - 1))
                 = Cardinality(Missed(s)) + Cardinality(c .. Oldest - 1)
                   - Cardinality(Missed(s) \cap (c .. Oldest - 1))
        BY <1>4, <3>5, FS_Union
      <4>. QED
        BY <1>3, <1>4, <3>5, <4>1, <4>2
    <3>7. Cardinality(Missed(s)') <= Cardinality(Missed(s)) + (Oldest - c)
      <4>1. /\ Cardinality(Missed(s)') <= Cardinality(Missed(s) \cup (c .. Oldest - 1))
            /\ Cardinality(Missed(s)') \in Nat
            /\ Cardinality(Missed(s) \cup (c .. Oldest - 1)) \in Nat
        BY <3>4, <3>6, FS_Subset, FS_CardinalityType
      <4>. QED
        BY <1>3, <1>4, <3>6, <4>1
    <3>8. Cardinality(Missed(s)') \in Nat
      BY <3>4, <3>6, FS_Subset, FS_CardinalityType
    <3>9. /\ cursor'[s] \in 1..Len(sent) + 1 /\ skipped'[s] \in Nat
          /\ skipped'[s] + L <= cursor'[s] - 1 /\ Cardinality(Missed(s)') <= skipped'[s]
      <4>1. c \in Nat /\ Oldest \in Nat /\ Oldest <= Len(sent) + 1 /\ c >= 1 /\ Oldest >= 1
        BY <1>3
      <4>2. skipped'[s] \in Nat /\ skipped'[s] + L <= Oldest - 1
        <5>1. skipped[s] \in Nat /\ L \in Nat /\ skipped[s] + L <= c - 1
          BY <1>3, <1>4
        <5>2. c < Oldest /\ skipped'[s] = skipped[s] + (Oldest - c)
          BY <3>1
        <5>. HIDE DEF c, L
        <5>. QED
          BY <4>1, <5>1, <5>2
      <4>3. Cardinality(Missed(s)') <= skipped'[s]
        BY <1>3, <1>4, <3>1, <3>7, <3>8, <4>1
      <4>. QED
        BY <1>3, <3>1, <4>2, <4>3
    <3>10. HeardBy(s)' \subseteq 1 .. cursor'[s] - 1
      BY <1>4, <3>2, <3>3
    <3>. QED
      BY <1>3, <1>4, <3>1, <3>9, <3>10
  <2>. QED
    BY <2>1, <2>2
<1>6. /\ cursor' \in [Stream -> 1..Len(sent) + 1] /\ heard' \in [Stream -> Seq(Events)]
      /\ skipped' \in [Stream -> Nat]
  <2>1. /\ cursor' = [t \in Stream |-> cursor'[t]] /\ heard' = [t \in Stream |-> heard'[t]]
        /\ skipped' = [t \in Stream |-> skipped'[t]]
    BY DEF Read, Lag, DeliveryInv, BusInv, DeliveryTypeOK
  <2>2. \A t \in Stream : cursor'[t] \in 1..Len(sent) + 1 /\ heard'[t] \in Seq(Events) /\ skipped'[t] \in Nat
    BY <1>5 DEF DeliveryInv, BusInv, DeliveryTypeOK
  <2>. QED
    BY <2>1, <2>2
<1>7. BusInv'
  <2>1. /\ delivery' \in [Endpoint -> [1..MaxSent -> [state : DeliveryState, attempts : 0..MaxAttempts]]]
        /\ arrived' \in [Endpoint -> SUBSET (Events \X (1..MaxAttempts))]
        /\ BusInv
    BY <1>1 DEF DeliveryInv, BusInv, DeliveryTypeOK
  <2>. QED
    BY <1>1, <1>6, <2>1, BusQuiet
<1>8. SpawnInv' /\ WebhooksAccount'
  <2>1. SpawnInv'
    BY <1>1, <1>2 DEF DeliveryInv, SpawnInv
  <2>2. \A n : Handed(n)' = Handed(n)
    BY <1>1, <1>2 DEF Handed
  <2>3. WebhooksAccount'
    BY <1>1, <1>2, <2>2 DEF DeliveryInv, WebhooksAccount
  <2>. QED
    BY <2>1, <2>3
<1>9. StreamInv'
  <2>. SUFFICES ASSUME NEW t \in Stream
                PROVE  /\ HeardBy(t)' \subseteq 1 .. cursor'[t] - 1
                       /\ \A i \in 1..Len(heard'[t]) - 1 : heard'[t][i] < heard'[t][i + 1]
                       /\ Cardinality(Missed(t)') <= skipped'[t]
                       /\ skipped'[t] + Len(heard'[t]) <= cursor'[t] - 1
    BY DEF StreamInv
  <2>1. CASE t = s
    BY <1>5, <2>1
  <2>2. CASE t # s
    <3>1. cursor'[t] = cursor[t] /\ heard'[t] = heard[t] /\ skipped'[t] = skipped[t]
      BY <1>5, <2>2
    <3>2. HeardBy(t)' = HeardBy(t) /\ Missed(t)' = Missed(t)
      BY <1>2, <3>1 DEF HeardBy, Missed
    <3>. QED
      BY <3>1, <3>2 DEF DeliveryInv, StreamInv
  <2>. QED
    BY <2>1, <2>2
<1>. QED
  BY <1>7, <1>8, <1>9 DEF DeliveryInv

-----------------------------------------------------------------------------
(* The monitor and the requests as publishers *)

MonitorTypeOK ==
  /\ balance \in [Federation -> 0..MaxBalance]
  /\ last \in [Federation -> 0..MaxBalance \cup {Nil}]
  /\ checking \in BOOLEAN
  /\ todo \subseteq Federation
  /\ changes \in Seq([federation : Federation, msat : 0..MaxBalance])
  /\ told \in [Federation -> 0..MaxBalance \cup {Nil}]
  /\ moves \in 0..MaxMoves

\* The monitor keeps its state in order, and what it has to publish is an event.
LEMMA MonitorStepType ==
  ASSUME MonitorTypeOK, [Next]_vars
  PROVE  MonitorTypeOK'
<1>. DEFINE Change == [federation : Federation, msat : 0..MaxBalance]
<1>1. ASSUME NEW f \in Federation, NEW b \in 0..MaxBalance, Move(f, b)
      PROVE  MonitorTypeOK'
  <2>1. moves' \in 0..MaxMoves
    BY <1>1, BalanceAssumption DEF Move, MonitorTypeOK
  <2>. QED
    BY <1>1, <2>1 DEF Move, monitorVars, MonitorTypeOK
<1>2. CASE CheckBegin
  BY <1>2 DEF CheckBegin, MonitorTypeOK
<1>3. ASSUME NEW f \in Federation, CheckFederation(f)
      PROVE  MonitorTypeOK'
  <2>1. [federation |-> f, msat |-> balance[f]] \in Change
    BY DEF MonitorTypeOK
  <2>2. changes' \in Seq(Change)
    <3>1. /\ changes \in Seq(Change)
          /\ changes' = changes \/ changes' = Append(changes, [federation |-> f, msat |-> balance[f]])
      BY <1>3 DEF CheckFederation, MonitorTypeOK
    <3>. HIDE DEF Change
    <3>. QED
      BY <2>1, <3>1
  <2>. QED
    BY <1>3, <2>2 DEF CheckFederation, MonitorTypeOK
<1>4. CASE PublishChange
  <2>1. Head(changes) \in Change /\ Tail(changes) \in Seq(Change)
    BY <1>4, HeadTailProperties DEF PublishChange, MonitorTypeOK
  <2>2. told' \in [Federation -> 0..MaxBalance \cup {Nil}]
    BY <1>4, <2>1 DEF PublishChange, MonitorTypeOK
  <2>. QED
    BY <1>4, <2>1, <2>2 DEF PublishChange, MonitorTypeOK
<1>5. CASE CheckEnd
  BY <1>5 DEF CheckEnd, MonitorTypeOK
<1>6. UNCHANGED <<monitorVars, balance, moves>> => MonitorTypeOK'
  BY DEF monitorVars, MonitorTypeOK
<1>7. ASSUME NEW p \in Request, NEW c \in Content, Announce(p, c)
      PROVE  MonitorTypeOK'
  BY <1>6, <1>7 DEF Announce
<1>8. UNCHANGED vars => UNCHANGED <<monitorVars, balance, moves>>
  BY DEF vars
<1>. QED
  BY <1>1, <1>2, <1>3, <1>4, <1>5, <1>6, <1>7, <1>8 DEF Next, MonitorStep

\* A step of the whole is one of the delivery, or leaves it alone.
LEMMA DeliveryStep ==
  ASSUME DeliveryInv, MonitorTypeOK, [Next]_vars
  PROVE  DeliveryInv'
<1>1. UNCHANGED deliveryVars => DeliveryInv'
  <2>. SUFFICES ASSUME UNCHANGED deliveryVars PROVE DeliveryInv'
    OBVIOUS
  <2>1. /\ sent' = sent /\ step' = step /\ publishing' = publishing /\ logged' = logged
        /\ delivery' = delivery /\ arrived' = arrived
        /\ cursor' = cursor /\ heard' = heard /\ skipped' = skipped
    BY DEF deliveryVars, busVars, webhookVars, streamVars
  <2>2. /\ Events' = Events /\ LoggedEvents' = LoggedEvents
        /\ \A x : Interested(x)' = Interested(x)
    BY <2>1 DEF Events, LoggedEvents, Interested
  <2>3. BusInv'
    BY <2>1, <2>2 DEF DeliveryInv, BusInv, DeliveryTypeOK, PublishInv, FlightInv, LogInOrder
  <2>4. SpawnInv'
    BY <2>1, <2>2 DEF DeliveryInv, SpawnInv
  <2>5. \A n : Handed(n)' = Handed(n)
    BY <2>1, <2>2 DEF Handed
  <2>6. WebhooksAccount'
    BY <2>1, <2>2, <2>5 DEF DeliveryInv, WebhooksAccount
  <2>7. StreamInv'
    BY <2>1, StreamsQuiet DEF DeliveryInv, streamVars
  <2>. QED
    BY <2>3, <2>4, <2>6, <2>7 DEF DeliveryInv
<1>2. CASE PublishChange
  <2>1. Head(changes) \in Content /\ Monitor \in Source
    BY <1>2, HeadTailProperties, BalanceAssumption, DeliveryAssumption DEF PublishChange, MonitorTypeOK
  <2>. QED
    BY <1>2, <2>1, SendStep DEF PublishChange
<1>3. ASSUME NEW p \in Request, NEW c \in Content, Announce(p, c)
      PROVE  DeliveryInv'
  BY <1>3, SendStep, DeliveryAssumption DEF Announce
<1>4. CASE DeliveryNext
  BY <1>4, SpawnStep, CriticalStep, DropStep, WebhookStep, StreamStep DEF DeliveryNext
<1>5. ASSUME \/ \E f \in Federation, b \in 0..MaxBalance : Move(f, b)
             \/ CheckBegin \/ (\E f \in Federation : CheckFederation(f)) \/ CheckEnd
             \/ UNCHANGED vars
      PROVE  UNCHANGED deliveryVars
  BY <1>5 DEF Move, CheckBegin, CheckFederation, CheckEnd, vars
<1>. QED
  BY <1>1, <1>2, <1>3, <1>4, <1>5 DEF Next, MonitorStep

\* Nothing has been published at the start.
LEMMA InitDelivery == Init => DeliveryInv /\ MonitorTypeOK
<1>. SUFFICES ASSUME Init PROVE DeliveryInv /\ MonitorTypeOK
  OBVIOUS
<1>1. /\ sent = <<>> /\ Len(sent) = 0 /\ Events = {} /\ logged = <<>> /\ DOMAIN logged = {}
      /\ step = [p \in Source |-> "idle"] /\ publishing = [p \in Source |-> 0]
      /\ cursor = [s \in Stream |-> 1] /\ heard = [s \in Stream |-> <<>>] /\ skipped = [s \in Stream |-> 0]
      /\ arrived = [e \in Endpoint |-> {}]
      /\ delivery = [e \in Endpoint |-> [n \in 1..MaxSent |-> [state |-> "none", attempts |-> 0]]]
  BY DEF Init, DeliveryInit, Events
<1>2. <<>> \in Seq(Events) /\ Len(<<>>) = 0 /\ DOMAIN <<>> = {}
  OBVIOUS
<1>3. DeliveryTypeOK
  <2>1. [state |-> "none", attempts |-> 0] \in [state : DeliveryState, attempts : 0..MaxAttempts]
    BY DeliveryAssumption DEF DeliveryState
  <2>. QED
    BY <1>1, <1>2, <2>1 DEF DeliveryTypeOK
<1>4. Len(sent) <= MaxSent /\ PublishInv /\ FlightInv /\ LogInOrder
  BY <1>1, DeliveryAssumption DEF PublishInv, FlightInv, LogInOrder
<1>5. SpawnInv /\ WebhooksAccount
  BY <1>1 DEF SpawnInv, WebhooksAccount
<1>6. StreamInv
  <2>. SUFFICES ASSUME NEW s \in Stream
                PROVE  /\ HeardBy(s) \subseteq 1 .. cursor[s] - 1
                       /\ \A i \in 1..Len(heard[s]) - 1 : heard[s][i] < heard[s][i + 1]
                       /\ Cardinality(Missed(s)) <= skipped[s]
                       /\ skipped[s] + Len(heard[s]) <= cursor[s] - 1
    BY DEF StreamInv
  <2>1. cursor[s] = 1 /\ heard[s] = <<>> /\ skipped[s] = 0 /\ Len(heard[s]) = 0 /\ DOMAIN heard[s] = {}
    BY <1>1, <1>2
  <2>2. HeardBy(s) = {} /\ Missed(s) = {}
    BY <2>1 DEF HeardBy, Missed
  <2>3. Cardinality(Missed(s)) = 0
    BY <2>2, FS_EmptySet
  <2>. QED
    BY <2>1, <2>2, <2>3
<1>7. MonitorTypeOK
  <2>1. <<>> \in Seq([federation : Federation, msat : 0..MaxBalance])
    OBVIOUS
  <2>2. 0 \in 0..MaxBalance /\ 0 \in 0..MaxMoves
    BY BalanceAssumption
  <2>. QED
    BY <2>1, <2>2 DEF Init, MonitorTypeOK
<1>. QED
  BY <1>3, <1>4, <1>5, <1>6, <1>7 DEF DeliveryInv, BusInv

\* A stream's account is what its invariant says of the events before its position.
LEMMA InvAccounts == DeliveryInv => StreamAccounts
<1>. SUFFICES ASSUME DeliveryInv, NEW s \in Stream
              PROVE  LET passed == {n \in Events : n < cursor[s]}
                         missed == (passed \cap Interested(s)) \ {heard[s][i] : i \in DOMAIN heard[s]}
                     IN /\ Cardinality(missed) <= skipped[s]
                        /\ skipped[s] + Len(heard[s]) <= Cardinality(passed)
                        /\ \A i \in 1..Len(heard[s]) - 1 : heard[s][i] < heard[s][i + 1]
  BY DEF StreamAccounts
<1>1. cursor[s] \in 1..Len(sent) + 1 /\ Len(sent) \in Nat
  BY DEF DeliveryInv, BusInv, DeliveryTypeOK
<1>2. {n \in Events : n < cursor[s]} = 1 .. cursor[s] - 1
  BY <1>1 DEF Events
<1>3. Cardinality(1 .. cursor[s] - 1) = cursor[s] - 1
  <2>1. cursor[s] - 1 \in Nat /\ 1 \in Int
    BY <1>1
  <2>. QED
    BY <2>1, FS_Interval
<1>. QED
  BY <1>2, <1>3 DEF DeliveryInv, StreamInv, Missed, HeardBy

\* However publishers overlap, requests are dropped, streams lag and endpoints fail: the
\* log tells the story of each publisher in order, without a gap but for what it leaves
\* out on purpose, webhooks account for what was published, and a stream for all it was
\* not sent.
THEOREM DeliveryAccounts == FairSpec => [](TypeOK /\ LogInOrder /\ WebhooksAccount /\ StreamAccounts)
<1>1. DeliveryInv /\ MonitorTypeOK => TypeOK /\ LogInOrder /\ WebhooksAccount /\ StreamAccounts
  BY InvAccounts DEF DeliveryInv, BusInv, MonitorTypeOK, TypeOK
<1>2. DeliveryInv /\ MonitorTypeOK /\ [Next]_vars => (DeliveryInv /\ MonitorTypeOK)'
  BY DeliveryStep, MonitorStepType
<1>. QED
  BY <1>1, <1>2, InitDelivery, PTL DEF FairSpec

\* The log tells the story of each publisher in order, and misses only events that are not
\* for the log and the last of a request that was dropped.
THEOREM LogIsInOrder == FairSpec => []LogInOrder
BY DeliveryAccounts, PTL

\* What has come to the handlers is delivered to whoever wants it, or about to be, with a
\* true outcome, be it in the log or not.
THEOREM WebhooksAddUp == FairSpec => []WebhooksAccount
BY DeliveryAccounts, PTL

\* A stream was sent what it asked for, or knows at least how much it missed.
THEOREM StreamsAddUp == FairSpec => []StreamAccounts
BY DeliveryAccounts, PTL
-----------------------------------------------------------------------------
(* What the monitor tells of balances *)

\* A change of the federation is still to be published.
Awaits(f) == \E i \in DOMAIN changes : changes[i].federation = f

\* A check collects at most one change of each federation it has visited, with the
\* balance it stored, and ends when all are published.  Of a federation without one the
\* monitor has said something if it has seen it, and with a threshold of one msat or
\* none exactly what it has seen.
CheckInv ==
  /\ ~checking => todo = {} /\ changes = <<>> /\ step[Monitor] = "idle"
  /\ \A i \in DOMAIN changes :
       changes[i].federation \notin todo /\ changes[i].msat = last[changes[i].federation]
  /\ \A i, j \in DOMAIN changes : changes[i].federation = changes[j].federation => i = j
  /\ \A f \in Federation : ~Awaits(f) =>
       /\ last[f] = Nil <=> told[f] = Nil
       /\ Threshold <= 1 => told[f] = last[f]

\* What is noted as told is what the latest event of the monitor says.
SaidInv ==
  \A f \in Federation :
    /\ SaidOf(f) = {} <=> told[f] = Nil
    /\ \A n \in SaidOf(f) : (\A m \in SaidOf(f) : m <= n) => sent[n].content.msat = told[f]

\* What a step of the bus does to the events and to a monitor that is not publishing.
LEMMA BusSteps ==
  ASSUME DeliveryNext
  PROVE  sent' = sent /\ (step[Monitor] = "idle" => step'[Monitor] = step[Monitor])
<1>1. ASSUME NEW p \in Source, SpawnHandlers(p) \/ HandleCritical(p) \/ DropRequest(p)
      PROVE  sent' = sent /\ (step[Monitor] = "idle" => step'[Monitor] = step[Monitor])
  <2>1. sent' = sent /\ \E u : step' = [step EXCEPT ![p] = u]
    BY <1>1 DEF SpawnHandlers, HandleCritical, DropRequest
  <2>2. step[Monitor] = "idle" => p # Monitor
    BY <1>1, BalanceAssumption DEF SpawnHandlers, HandleCritical, DropRequest
  <2>. QED
    BY <2>1, <2>2
<1>2. ASSUME NEW e \in Endpoint, NEW n \in Events,
             Deliver(e, n) \/ \E a \in 1..MaxAttempts, accepted \in BOOLEAN : Arrive(e, n, a, accepted)
      PROVE  UNCHANGED busVars
  BY <1>2 DEF Deliver, Attempt, GiveUp, AttemptFails, Arrive
<1>3. ASSUME NEW s \in Stream, Read(s) \/ Lag(s)
      PROVE  UNCHANGED busVars
  BY <1>3 DEF Read, Lag
<1>. QED
  BY <1>1, <1>2, <1>3 DEF DeliveryNext, busVars

\* What the others do, and what the bus does, leaves the monitor where it is.
LEMMA OthersStep ==
  ASSUME CheckInv, UNCHANGED monitorVars, step[Monitor] = "idle" => step'[Monitor] = "idle"
  PROVE  CheckInv'
<1>1. /\ last' = last /\ checking' = checking /\ todo' = todo /\ changes' = changes
      /\ told' = told
  BY DEF monitorVars
<1>2. \A f : Awaits(f)' = Awaits(f)
  BY <1>1 DEF Awaits
<1>. QED
  BY <1>1, <1>2 DEF CheckInv

\* A visit that finds a change appends it, and there was none of that federation.
LEMMA VisitStep ==
  ASSUME MonitorTypeOK, CheckInv, NEW f \in Federation, CheckFederation(f)
  PROVE  CheckInv'
<1>. DEFINE Change == [federation : Federation, msat : 0..MaxBalance]
            b == balance[f]
            c == [federation |-> f, msat |-> b]
<1>1. /\ f \in todo /\ checking /\ checking' = checking
      /\ todo' = todo \ {f}
      /\ last' = [last EXCEPT ![f] = b]
      /\ changes' = IF Changed(f) THEN Append(changes, c) ELSE changes
      /\ told' = told
  BY DEF CheckFederation, CheckInv
<1>2. /\ last'[f] = b /\ \A g \in Federation \ {f} : last'[g] = last[g]
      /\ b \in 0..MaxBalance /\ b # Nil /\ c \in Change /\ c.federation = f /\ c.msat = b
  BY <1>1, BalanceAssumption DEF MonitorTypeOK
<1>3. /\ changes \in Seq(Change) /\ DOMAIN changes = 1..Len(changes) /\ Len(changes) \in Nat
      /\ \A i \in DOMAIN changes : changes[i].federation \in Federation \ {f}
  <2>1. changes \in Seq(Change)
    BY DEF MonitorTypeOK
  <2>2. /\ DOMAIN changes = 1..Len(changes) /\ Len(changes) \in Nat
        /\ \A i \in DOMAIN changes : changes[i] \in Change
    <3>. HIDE DEF Change
    <3>. QED
      BY <2>1
  <2>3. \A i \in DOMAIN changes : changes[i].federation \in Federation
    BY <2>2
  <2>4. \A i \in DOMAIN changes : changes[i].federation # f
    BY <1>1 DEF CheckInv
  <2>. QED
    BY <2>1, <2>2, <2>3, <2>4
<1>4. ~Awaits(f)
  BY <1>3 DEF Awaits
<1>5. CASE Changed(f)
  <2>1. /\ changes' \in Seq(Change) /\ DOMAIN changes' = 1..Len(changes) + 1
        /\ changes'[Len(changes) + 1] = c
        /\ \A i \in DOMAIN changes : changes'[i] = changes[i]
    <3>. HIDE DEF Change, c
    <3>. QED
      BY <1>1, <1>2, <1>3, <1>5, AppendProperties
  <2>2. \A i \in DOMAIN changes' : i \in DOMAIN changes \/ i = Len(changes) + 1
    BY <1>3, <2>1
  <2>3. \A i \in DOMAIN changes' :
          changes'[i].federation \notin todo' /\ changes'[i].msat = last'[changes'[i].federation]
    <3>. SUFFICES ASSUME NEW i \in DOMAIN changes'
                  PROVE  changes'[i].federation \notin todo' /\ changes'[i].msat = last'[changes'[i].federation]
      OBVIOUS
    <3>1. CASE i \in DOMAIN changes
      <4>1. changes'[i] = changes[i] /\ changes[i].federation \in Federation \ {f}
        BY <1>3, <2>1, <3>1
      <4>. QED
        BY <1>1, <1>2, <3>1, <4>1 DEF CheckInv
    <3>2. CASE i = Len(changes) + 1
      BY <1>1, <1>2, <2>1, <3>2
    <3>. QED
      BY <2>2, <3>1, <3>2
  <2>4. \A i, j \in DOMAIN changes' : changes'[i].federation = changes'[j].federation => i = j
    <3>1. \A i \in DOMAIN changes : changes'[i].federation # f
      BY <1>3, <2>1
    <3>2. changes'[Len(changes) + 1].federation = f
      BY <1>2, <2>1
    <3>. QED
      BY <2>1, <2>2, <3>1, <3>2 DEF CheckInv
  <2>5. \A g \in Federation : ~Awaits(g)' => g # f /\ ~Awaits(g)
    <3>1. Awaits(f)'
      BY <1>2, <1>3, <2>1 DEF Awaits
    <3>2. \A g \in Federation : Awaits(g) => Awaits(g)'
      BY <1>3, <2>1 DEF Awaits
    <3>. QED
      BY <3>1, <3>2
  <2>. QED
    BY <1>1, <1>2, <2>3, <2>4, <2>5 DEF CheckInv
<1>6. CASE ~Changed(f)
  <2>1. changes' = changes /\ \A g : Awaits(g)' = Awaits(g)
    BY <1>1, <1>6 DEF Awaits
  <2>2. last[f] # Nil /\ (Threshold <= 1 => last[f] = b)
    <3>1. last[f] # Nil /\ last[f] \in 0..MaxBalance /\ ~(Distance(b, last[f]) >= Threshold)
      BY <1>6 DEF Changed, MonitorTypeOK
    <3>. QED
      BY <1>2, <3>1, BalanceAssumption DEF Distance
  <2>3. \A i \in DOMAIN changes :
          changes[i].federation \notin todo' /\ changes[i].msat = last'[changes[i].federation]
    BY <1>1, <1>2, <1>3 DEF CheckInv
  <2>. QED
    BY <1>1, <1>2, <1>4, <2>1, <2>2, <2>3 DEF CheckInv
<1>. QED
  BY <1>5, <1>6

\* What is published is the balance stored of its federation, and none is left of it.
LEMMA PublishStep ==
  ASSUME MonitorTypeOK, CheckInv, PublishChange
  PROVE  CheckInv'
<1>. DEFINE Change == [federation : Federation, msat : 0..MaxBalance]
            c == Head(changes)
            f == c.federation
<1>1. /\ checking /\ checking' = checking /\ todo' = todo /\ changes # <<>> /\ last' = last
      /\ told' = [told EXCEPT ![f] = c.msat]
      /\ changes' = Tail(changes)
  BY DEF PublishChange
<1>2. /\ changes \in Seq(Change) /\ Len(changes) \in Nat \ {0} /\ DOMAIN changes = 1..Len(changes)
      /\ c = changes[1] /\ c \in Change /\ f \in Federation /\ 1 \in DOMAIN changes
  <2>1. changes \in Seq(Change) /\ changes # <<>>
    BY <1>1 DEF MonitorTypeOK
  <2>2. /\ Len(changes) \in Nat \ {0} /\ DOMAIN changes = 1..Len(changes)
        /\ c = changes[1] /\ c \in Change /\ 1 \in DOMAIN changes
    <3>. HIDE DEF Change
    <3>. QED
      BY <2>1, HeadTailProperties
  <2>3. f \in Federation
    BY <2>2
  <2>. QED
    BY <2>1, <2>2, <2>3
<1>3. /\ DOMAIN changes' = 1 .. Len(changes) - 1
      /\ \A i \in DOMAIN changes' : i + 1 \in DOMAIN changes /\ changes'[i] = changes[i + 1]
  <2>1. /\ Tail(changes) \in Seq(Change) /\ Len(Tail(changes)) = Len(changes) - 1
        /\ \A i \in 1 .. Len(Tail(changes)) : Tail(changes)[i] = changes[i + 1]
    BY <1>1, <1>2, HeadTailProperties
  <2>2. DOMAIN Tail(changes) = 1 .. Len(Tail(changes))
    BY <2>1
  <2>. QED
    BY <1>1, <1>2, <2>1, <2>2
<1>4. told'[f] = last[f] /\ last[f] # Nil /\ \A g \in Federation \ {f} : told'[g] = told[g]
  <2>1. c.msat = last[f] /\ c.msat \in 0..MaxBalance
    BY <1>2 DEF CheckInv
  <2>. QED
    BY <1>1, <1>2, <2>1, BalanceAssumption DEF MonitorTypeOK
<1>5. \A i \in DOMAIN changes' :
        changes'[i].federation \notin todo' /\ changes'[i].msat = last'[changes'[i].federation]
  BY <1>1, <1>3 DEF CheckInv
<1>6. \A i, j \in DOMAIN changes' : changes'[i].federation = changes'[j].federation => i = j
  <2>. SUFFICES ASSUME NEW i \in DOMAIN changes', NEW j \in DOMAIN changes',
                       changes'[i].federation = changes'[j].federation
                PROVE  i = j
    OBVIOUS
  <2>1. i + 1 = j + 1
    BY <1>3 DEF CheckInv
  <2>. QED
    BY <1>2, <1>3, <2>1
<1>7. \A g \in Federation : ~Awaits(g)' => g = f \/ ~Awaits(g)
  <2>. SUFFICES ASSUME NEW g \in Federation, g # f, Awaits(g) PROVE Awaits(g)'
    OBVIOUS
  <2>1. PICK i \in DOMAIN changes : changes[i].federation = g
    BY DEF Awaits
  <2>2. i # 1 /\ i \in 1..Len(changes)
    BY <1>2, <2>1
  <2>3. i - 1 \in DOMAIN changes' /\ (i - 1) + 1 = i
    BY <1>2, <1>3, <2>2
  <2>4. changes'[i - 1] = changes[i]
    BY <1>3, <2>3
  <2>. QED
    BY <2>1, <2>3, <2>4 DEF Awaits
<1>. QED
  BY <1>1, <1>4, <1>5, <1>6, <1>7 DEF CheckInv

\* No step of the whole disturbs what a check owes.
LEMMA CheckStep ==
  ASSUME MonitorTypeOK, CheckInv, [Next]_vars
  PROVE  CheckInv'
<1>1. CASE UNCHANGED vars \/ \E f \in Federation, b \in 0..MaxBalance : Move(f, b)
  BY <1>1, OthersStep DEF Move, vars, deliveryVars, busVars
<1>2. CASE CheckBegin
  <2>1. /\ ~checking /\ checking' /\ changes = <<>> /\ changes' = <<>> /\ last' = last /\ told' = told
        /\ \A f : Awaits(f)' = Awaits(f)
    BY <1>2 DEF CheckBegin, CheckInv, Awaits
  <2>2. DOMAIN changes' = {}
    BY <2>1
  <2>. QED
    BY <2>1, <2>2 DEF CheckInv
<1>3. CASE CheckEnd
  <2>1. /\ changes = <<>> /\ todo = {} /\ step[Monitor] = "idle" /\ step' = step
        /\ UNCHANGED <<last, todo, changes, told>>
        /\ \A f : Awaits(f)' = Awaits(f)
    BY <1>3 DEF CheckEnd, Awaits, deliveryVars, busVars
  <2>. QED
    BY <2>1 DEF CheckInv
<1>4. ASSUME NEW p \in Request, NEW c \in Content, Announce(p, c)
      PROVE  CheckInv'
  <2>1. p # Monitor /\ UNCHANGED monitorVars /\ step' = [step EXCEPT ![p] = "sent"]
    BY <1>4, BalanceAssumption DEF Announce, Send
  <2>2. step'[Monitor] = step[Monitor]
    BY <2>1
  <2>. QED
    BY <2>1, <2>2, OthersStep
<1>5. CASE DeliveryNext /\ UNCHANGED <<monitorVars, balance, moves>>
  BY <1>5, BusSteps, OthersStep
<1>. QED
  BY <1>1, <1>2, <1>3, <1>4, <1>5, VisitStep, PublishStep DEF Next, MonitorStep

\* An event more is the last of its federation, if it is the monitor's.
LEMMA SaidStep ==
  ASSUME DeliveryInv, MonitorTypeOK, SaidInv, [Next]_vars
  PROVE  SaidInv'
<1>. PICK N : N = Len(sent) + 1
  OBVIOUS
<1>0. /\ sent \in Seq([source : Source, content : Content]) /\ Len(sent) \in Nat
      /\ Events = 1..Len(sent)
  BY DEF DeliveryInv, BusInv, DeliveryTypeOK, Events
<1>1. ASSUME NEW p \in Source, NEW c \in Content, Send(p, c)
      PROVE  /\ Events' = Events \cup {N} /\ N \notin Events /\ \A n \in Events : n <= N /\ ~(N <= n)
             /\ sent'[N] = [source |-> p, content |-> c]
             /\ \A n \in Events : sent'[n] = sent[n]
  <2>1. /\ sent' \in Seq([source : Source, content : Content]) /\ Len(sent') = N
        /\ sent'[N] = [source |-> p, content |-> c]
        /\ \A n \in 1..Len(sent) : sent'[n] = sent[n]
    BY <1>0, <1>1, AppendProperties DEF Send
  <2>2. Events' = 1..N
    BY <2>1 DEF Events
  <2>. QED
    BY <1>0, <2>1, <2>2
<1>2. ASSUME sent' = sent, told' = told PROVE SaidInv'
  <2>1. \A f : SaidOf(f)' = SaidOf(f)
    BY <1>2 DEF SaidOf, Events
  <2>. QED
    BY <1>2, <2>1 DEF SaidInv
<1>3. ASSUME NEW p \in Request, NEW c \in Content, Announce(p, c)
      PROVE  SaidInv'
  <2>1. p \in Source /\ p # Monitor /\ Send(p, c) /\ told' = told
    BY <1>3, DeliveryAssumption, BalanceAssumption DEF Announce, monitorVars
  <2>2. \A f : SaidOf(f)' = SaidOf(f)
    <3>1. /\ Events' = Events \cup {N} /\ sent'[N].source # Monitor
          /\ \A n \in Events : sent'[n] = sent[n]
      <4>1. /\ Events' = Events \cup {N}
            /\ sent'[N] = [source |-> p, content |-> c]
            /\ \A n \in Events : sent'[n] = sent[n]
        BY <1>1, <1>3, <2>1
      <4>. QED
        BY <2>1, <4>1
    <3>. QED
      BY <3>1 DEF SaidOf
  <2>3. \A f : \A n \in SaidOf(f) : sent'[n] = sent[n]
    BY <1>1, <2>1 DEF SaidOf
  <2>. QED
    BY <2>1, <2>2, <2>3 DEF SaidInv
<1>4. CASE PublishChange
  <2>. PICK c, f : c = Head(changes) /\ f = c.federation
    OBVIOUS
  <2>1. /\ c \in Content /\ Monitor \in Source /\ Send(Monitor, c)
        /\ f \in Federation /\ c.msat \in 0..MaxBalance /\ c.msat # Nil
        /\ told' = [told EXCEPT ![f] = c.msat]
    <3>. DEFINE Change == [federation : Federation, msat : 0..MaxBalance]
    <3>1. Send(Monitor, c) /\ told' = [told EXCEPT ![f] = c.msat]
      BY <1>4 DEF PublishChange
    <3>2. changes \in Seq(Change) /\ changes # <<>>
      BY <1>4 DEF PublishChange, MonitorTypeOK
    <3>3. c \in Change
      <4>. HIDE DEF Change
      <4>. QED
        BY <3>2, HeadTailProperties
    <3>4. c \in Content /\ Monitor \in Source
      BY <3>3, BalanceAssumption, DeliveryAssumption
    <3>5. f \in Federation /\ c.msat \in 0..MaxBalance
      BY <3>3
    <3>6. c.msat # Nil
      BY <3>5, BalanceAssumption
    <3>. QED
      BY <3>1, <3>4, <3>5, <3>6
  <2>2. SaidOf(f)' = SaidOf(f) \cup {N} /\ \A g \in Federation \ {f} : SaidOf(g)' = SaidOf(g)
    <3>1. /\ Events' = Events \cup {N} /\ sent'[N].source = Monitor /\ sent'[N].content = c
          /\ \A n \in Events : sent'[n] = sent[n]
      <4>1. /\ Events' = Events \cup {N}
            /\ sent'[N] = [source |-> Monitor, content |-> c]
            /\ \A n \in Events : sent'[n] = sent[n]
        BY <1>1, <2>1
      <4>. QED
        BY <4>1
    <3>. QED
      BY <3>1 DEF SaidOf
  <2>3. told'[f] = c.msat /\ \A g \in Federation \ {f} : told'[g] = told[g]
    BY <2>1 DEF MonitorTypeOK
  <2>4. \A g \in Federation : SaidOf(g) \subseteq Events
    BY DEF SaidOf
  <2>5. \A n \in SaidOf(f)' : (\A m \in SaidOf(f)' : m <= n) => sent'[n].content.msat = told'[f]
    <3>1. \A n \in SaidOf(f) : ~(N <= n)
      BY <1>1, <2>1, <2>4
    <3>2. sent'[N].content.msat = told'[f]
      <4>1. sent'[N] = [source |-> Monitor, content |-> c]
        BY <1>1, <2>1
      <4>. QED
        BY <2>3, <4>1
    <3>. QED
      BY <2>2, <3>1, <3>2
  <2>6. \A g \in Federation \ {f} :
          /\ SaidOf(g)' = {} <=> told'[g] = Nil
          /\ \A n \in SaidOf(g)' : (\A m \in SaidOf(g)' : m <= n) => sent'[n].content.msat = told'[g]
    <3>1. \A g \in Federation : \A n \in SaidOf(g) : sent'[n] = sent[n]
      BY <1>1, <2>1, <2>4
    <3>. QED
      BY <2>2, <2>3, <3>1 DEF SaidInv
  <2>7. SaidOf(f)' # {} /\ told'[f] # Nil
    BY <2>1, <2>2, <2>3
  <2>. QED
    BY <2>5, <2>6, <2>7 DEF SaidInv
<1>5. ASSUME \/ \E f \in Federation, b \in 0..MaxBalance : Move(f, b)
             \/ CheckBegin \/ (\E f \in Federation : CheckFederation(f)) \/ CheckEnd
             \/ UNCHANGED vars
             \/ DeliveryNext /\ UNCHANGED <<monitorVars, balance, moves>>
      PROVE  sent' = sent /\ told' = told
  BY <1>5, BusSteps DEF Move, CheckBegin, CheckFederation, CheckEnd, vars, deliveryVars, busVars, monitorVars
<1>. QED
  BY <1>2, <1>3, <1>4, <1>5 DEF Next, MonitorStep

\* What the monitor tells of balances adds up and reaches the deliveries, whoever else
\* publishes, and however often a balance moves between the visit and the event.
THEOREM BalancesAddUp == FairSpec => []BalancesAccount
<1>. DEFINE I == DeliveryInv /\ MonitorTypeOK /\ CheckInv /\ SaidInv
<1>1. Init => I
  <2>. SUFFICES ASSUME Init PROVE CheckInv /\ SaidInv
    BY InitDelivery
  <2>1. /\ ~checking /\ todo = {} /\ changes = <<>> /\ step = [p \in Source |-> "idle"]
        /\ last = [f \in Federation |-> Nil] /\ told = [f \in Federation |-> Nil]
        /\ Events = {} /\ DOMAIN changes = {}
    BY DEF Init, DeliveryInit, Events
  <2>2. step[Monitor] = "idle"
    BY <2>1, BalanceAssumption
  <2>. QED
    BY <2>1, <2>2 DEF CheckInv, SaidInv, SaidOf
<1>2. I /\ [Next]_vars => I'
  BY DeliveryStep, MonitorStepType, CheckStep, SaidStep
<1>3. I => BalancesAccount
  <2>. SUFFICES ASSUME I, NEW f \in Federation
                PROVE  /\ \A n \in SaidOf(f) : (\A m \in SaidOf(f) : m <= n) => sent[n].content.msat = told[f]
                       /\ ~checking => /\ \A e \in Endpoint : \A n \in SaidOf(f) \cap Interested(e) :
                                            delivery[e][n].state # "none"
                                       /\ SaidOf(f) = {} <=> last[f] = Nil
                                       /\ Threshold <= 1 => told[f] = last[f]
    BY DEF BalancesAccount
  <2>1. ASSUME ~checking PROVE ~Awaits(f) /\ step[Monitor] = "idle"
    BY <2>1 DEF CheckInv, Awaits
  <2>2. ASSUME ~checking, NEW e \in Endpoint, NEW n \in SaidOf(f) \cap Interested(e)
        PROVE  delivery[e][n].state # "none"
    <3>1. n \in Events /\ n \in Interested(e) /\ sent[n].source = Monitor
      BY <2>2 DEF SaidOf
    <3>2. Handed(n)
      BY <2>1, <2>2, <3>1 DEF Handed
    <3>. QED
      BY <3>1, <3>2 DEF DeliveryInv, WebhooksAccount
  <2>. QED
    BY <2>1, <2>2 DEF CheckInv, SaidInv
<1>. QED
  BY <1>1, <1>2, <1>3, PTL DEF FairSpec
=============================================================================
