--------------------------- MODULE EventDelivery ---------------------------
(***************************************************************************)
(* The event bus of fmcd (src/events/mod.rs) and what hangs on it: the     *)
(* logging handler, which is critical and runs before publish returns, the *)
(* webhook notifier (src/webhooks/notifier.rs), which is spawned and tries *)
(* each endpoint up to max_attempts times, and the event streams of the    *)
(* REST API (src/api/rest/ln/stream.rs), which read a broadcast channel    *)
(* that forgets its oldest events.                                         *)
(*                                                                         *)
(* Publishers run concurrently, and a request handler may be dropped while *)
(* it publishes.  An event is its position in the broadcast order; all that *)
(* is kept of it is who published it and what it is.  Nothing of this      *)
(* survives the process, so there is no crash here.  Left out: the metrics *)
(* handler, which only counts, backoff delays, payloads and signatures.    *)
(***************************************************************************)
EXTENDS Integers, Sequences, FiniteSets

CONSTANTS
  Source,       \* tasks and request handlers that publish
  Request,      \* those that go away with their caller
  Content,      \* event types with what they carry
  Quiet,        \* those the logging handler passes over: it is built without debug events
  Endpoint,     \* webhook endpoints that are enabled
  Wants,        \* the contents each endpoint, and each stream, is interested in
  MaxAttempts,  \* retry_config.max_attempts
  Stream,       \* open event streams of the REST API
  Capacity,     \* capacity of the broadcast channel
  MaxSent       \* bound on the number of events

ASSUME DeliveryAssumption ==
  /\ Request \subseteq Source
  /\ Quiet \subseteq Content
  /\ Wants \in [Endpoint \cup Stream -> SUBSET Content]
  /\ MaxAttempts \in Nat
  /\ Capacity \in Nat \ {0}
  /\ MaxSent \in Nat

VARIABLES
  sent,        \* every event in the order of the broadcast channel
  step,        \* where each source is: "idle", "sent", "spawned" in publish, or "gone"
  publishing,  \* the event it publishes, 0 for none
  logged,      \* the events the logging handler has written, oldest first
  delivery,    \* deliver_webhook, per endpoint and event
  arrived,     \* the attempts that reached each endpoint, as <<event, attempt>>
  cursor,      \* the next event each stream reads
  heard,       \* what each stream has passed on
  skipped      \* how many events it was told it has missed

busVars     == <<sent, step, publishing, logged>>
webhookVars == <<delivery, arrived>>
streamVars  == <<cursor, heard, skipped>>
deliveryVars == <<busVars, webhookVars, streamVars>>

\* A delivery that is "due" has an attempt to make or to give up; one that is
\* "waiting" has made it and has no answer yet.
DeliveryState == {"none", "due", "waiting", "delivered", "failed"}

Events == 1..Len(sent)

Interested(x) == {n \in Events : sent[n].content \in Wants[x]}

-----------------------------------------------------------------------------
(* publish *)

\* The event goes to the broadcast channel, whether anybody listens or not.
\* Bound: MaxSent.
Send(p, c) ==
  /\ step[p] = "idle"
  /\ Len(sent) < MaxSent
  /\ sent' = Append(sent, [source |-> p, content |-> c])
  /\ publishing' = [publishing EXCEPT ![p] = Len(sent')]
  /\ step' = [step EXCEPT ![p] = "sent"]
  /\ UNCHANGED <<logged, webhookVars, streamVars>>

\* Slip: publish takes the way out that is meant for a bus without handlers.
SpawnNothing(p) ==
  /\ step[p] = "sent"
  /\ step' = [step EXCEPT ![p] = "idle"]
  /\ publishing' = [publishing EXCEPT ![p] = 0]
  /\ UNCHANGED <<sent, logged, webhookVars, streamVars>>

\* Slip: an endpoint gets what it did not subscribe to.
SpawnForAll(p) ==
  /\ step[p] = "sent"
  /\ step' = [step EXCEPT ![p] = "spawned"]
  /\ delivery' = [e \in Endpoint |->
                    [delivery[e] EXCEPT ![publishing[p]].state = "due"]]
  /\ UNCHANGED <<sent, publishing, logged, arrived, streamVars>>

\* The handlers are read; the webhook notifier is spawned, and with it a delivery
\* to every endpoint that should receive the event.
SpawnHandlers(p) ==
  /\ step[p] = "sent"
  /\ step' = [step EXCEPT ![p] = "spawned"]
  /\ delivery' = [e \in Endpoint |->
                    IF publishing[p] \in Interested(e)
                    THEN [delivery[e] EXCEPT ![publishing[p]].state = "due"]
                    ELSE delivery[e]]
  /\ UNCHANGED <<sent, publishing, logged, arrived, streamVars>>

\* The critical handler has run, and publish returns.  The handler writes what is not
\* meant for debugging only.
HandleCritical(p) ==
  /\ step[p] = "spawned"
  /\ logged' = IF sent[publishing[p]].content \in Quiet THEN logged
               ELSE Append(logged, publishing[p])
  /\ step' = [step EXCEPT ![p] = "idle"]
  /\ publishing' = [publishing EXCEPT ![p] = 0]
  /\ UNCHANGED <<sent, webhookVars, streamVars>>

\* The caller of a request goes away at an await: before an event, after it, or
\* while publish waits for the lock of the handlers.
DropRequest(p) ==
  /\ p \in Request
  /\ step[p] \in {"idle", "sent"}
  /\ step' = [step EXCEPT ![p] = "gone"]
  /\ publishing' = [publishing EXCEPT ![p] = 0]
  /\ UNCHANGED <<sent, logged, webhookVars, streamVars>>

-----------------------------------------------------------------------------
(* deliver_webhook *)

SetDelivery(e, n, s) == delivery' = [delivery EXCEPT ![e][n].state = s]

\* Slip: the retries come on top of the first attempt.
AttemptOnceMore(e, n) ==
  /\ delivery[e][n].state = "due"
  /\ delivery[e][n].attempts <= MaxAttempts
  /\ delivery' = [delivery EXCEPT ![e][n] =
                    [state |-> "waiting", attempts |-> @.attempts + 1]]
  /\ UNCHANGED <<arrived, busVars, streamVars>>

\* Slip: the loop looks for an attempt beyond the last.
GiveUpBeyond(e, n) ==
  /\ delivery[e][n].state = "due"
  /\ delivery[e][n].attempts > MaxAttempts
  /\ SetDelivery(e, n, "failed")
  /\ UNCHANGED <<arrived, busVars, streamVars>>

\* The loop makes the next attempt ...
Attempt(e, n) ==
  /\ delivery[e][n].state = "due"
  /\ delivery[e][n].attempts < MaxAttempts
  /\ delivery' = [delivery EXCEPT ![e][n] =
                    [state |-> "waiting", attempts |-> @.attempts + 1]]
  /\ UNCHANGED <<arrived, busVars, streamVars>>

\* ... or ends with an error; with no attempt allowed it ends before the first.
GiveUp(e, n) ==
  /\ delivery[e][n].state = "due"
  /\ delivery[e][n].attempts >= MaxAttempts
  /\ SetDelivery(e, n, "failed")
  /\ UNCHANGED <<arrived, busVars, streamVars>>

\* Slip: an attempt that was sent counts as delivered.
AttemptDone(e, n) ==
  /\ delivery[e][n].state = "waiting"
  /\ SetDelivery(e, n, "delivered")
  /\ UNCHANGED <<arrived, busVars, streamVars>>

\* The attempt fails: an error status, a broken connection, no answer in time.  The
\* request may have arrived all the same, or may yet.
AttemptFails(e, n) ==
  /\ delivery[e][n].state = "waiting"
  /\ SetDelivery(e, n, "due")
  /\ UNCHANGED <<arrived, busVars, streamVars>>

\* An attempt reaches the endpoint, perhaps after the notifier has stopped waiting
\* for it, and is answered with success or without.
Arrive(e, n, a, accepted) ==
  /\ a \in 1..delivery[e][n].attempts
  /\ <<n, a>> \notin arrived[e]
  /\ arrived' = [arrived EXCEPT ![e] = @ \cup {<<n, a>>}]
  /\ IF /\ accepted
        /\ delivery[e][n].state = "waiting"
        /\ delivery[e][n].attempts = a
     THEN SetDelivery(e, n, "delivered")
     ELSE UNCHANGED delivery
  /\ UNCHANGED <<busVars, streamVars>>

-----------------------------------------------------------------------------
(* handle_global_event_stream *)

\* The oldest event the channel still holds.
Oldest == IF Len(sent) > Capacity THEN Len(sent) - Capacity + 1 ELSE 1

\* recv yields the next event; it is passed on if it concerns the stream.
Read(s) ==
  /\ cursor[s] \in Oldest..Len(sent)
  /\ cursor' = [cursor EXCEPT ![s] = @ + 1]
  /\ heard' = IF cursor[s] \in Interested(s)
              THEN [heard EXCEPT ![s] = Append(@, cursor[s])] ELSE heard
  /\ UNCHANGED <<skipped, busVars, webhookVars>>

\* Slip: the stream goes on without a word.
LagSilently(s) ==
  /\ cursor[s] < Oldest
  /\ cursor' = [cursor EXCEPT ![s] = Oldest]
  /\ UNCHANGED <<skipped, heard, busVars, webhookVars>>

\* recv yields Lagged: the stream warns of what it has missed and goes on with the
\* oldest event there is.
Lag(s) ==
  /\ cursor[s] < Oldest
  /\ skipped' = [skipped EXCEPT ![s] = @ + (Oldest - cursor[s])]
  /\ cursor' = [cursor EXCEPT ![s] = Oldest]
  /\ UNCHANGED <<heard, busVars, webhookVars>>

-----------------------------------------------------------------------------
\* The streams are there before the first event: a later one is like a channel with
\* fewer events.
DeliveryInit ==
  /\ sent = <<>>
  /\ step = [p \in Source |-> "idle"]
  /\ publishing = [p \in Source |-> 0]
  /\ logged = <<>>
  /\ delivery = [e \in Endpoint |-> [n \in 1..MaxSent |-> [state |-> "none", attempts |-> 0]]]
  /\ arrived = [e \in Endpoint |-> {}]
  /\ cursor = [s \in Stream |-> 1]
  /\ heard = [s \in Stream |-> <<>>]
  /\ skipped = [s \in Stream |-> 0]

Deliver(e, n) == Attempt(e, n) \/ GiveUp(e, n) \/ AttemptFails(e, n)

DeliveryNext ==
  \/ \E p \in Source : SpawnHandlers(p) \/ HandleCritical(p) \/ DropRequest(p)
  \/ \E e \in Endpoint, n \in Events :
       \/ Deliver(e, n)
       \/ \E a \in 1..MaxAttempts, accepted \in BOOLEAN : Arrive(e, n, a, accepted)
  \/ \E s \in Stream : Read(s) \/ Lag(s)

\* The runtime schedules the publishers, and a webhook request ends: its client has a
\* timeout.
DeliveryFairness ==
  /\ \A p \in Source : WF_deliveryVars(SpawnHandlers(p)) /\ WF_deliveryVars(HandleCritical(p))
  /\ \A e \in Endpoint, n \in 1..MaxSent : WF_deliveryVars(n \in Events /\ Deliver(e, n))

-----------------------------------------------------------------------------
(* What delivery must keep true *)

DeliveryTypeOK ==
  /\ sent \in Seq([source : Source, content : Content])
  /\ step \in [Source -> {"idle", "sent", "spawned", "gone"}]
  /\ publishing \in [Source -> {0} \cup Events]
  /\ logged \in Seq(Events)
  /\ delivery \in [Endpoint -> [1..MaxSent -> [state : DeliveryState, attempts : 0..MaxAttempts]]]
  /\ arrived \in [Endpoint -> SUBSET (Events \X (1..MaxAttempts))]
  /\ cursor \in [Stream -> 1..Len(sent) + 1]
  /\ heard \in [Stream -> Seq(Events)]
  /\ skipped \in [Stream -> Nat]

LoggedEvents == {logged[i] : i \in DOMAIN logged}

\* The log tells the story of each publisher in order, however publishers overlap, and
\* without a gap but for the events the handler does not write: the next event is not
\* sent before publish has been through the log with the last one, so only an event its
\* request was dropped with is missing, and none follows that.
LogInOrder ==
  /\ \A i, j \in DOMAIN logged :
       i < j /\ sent[logged[i]].source = sent[logged[j]].source => logged[i] < logged[j]
  /\ \A m, n \in Events :
       m < n /\ sent[m].source = sent[n].source /\ sent[m].content \notin Quiet
         => m \in LoggedEvents

\* The event is known to have come as far as the handlers: it is in the log, or its
\* source has gone on from it.
Handed(n) ==
  \/ n \in LoggedEvents
  \/ \E m \in Events : m > n /\ sent[m].source = sent[n].source
  \/ step[sent[n].source] \in {"idle", "spawned"}

\* Webhooks account for what is published: an event that has come to the handlers is on
\* its way to every endpoint that wants it, in the log or not, and if it is one for the
\* log no endpoint hears of it unless the log holds it or is about to.  A delivery is
\* called a success only if the endpoint has the event, and a failure only after all
\* its attempts; answers that come late change neither.
WebhooksAccount ==
  \A e \in Endpoint, n \in Events :
    LET d == delivery[e][n]
    IN /\ n \in Interested(e) /\ Handed(n) => d.state # "none"
       /\ d.state # "none" =>
            /\ n \in Interested(e)
            /\ \/ sent[n].content \in Quiet
               \/ n \in LoggedEvents
               \/ \E p \in Source : step[p] = "spawned" /\ publishing[p] = n
       /\ d.state = "delivered" => \E a \in 1..MaxAttempts : <<n, a>> \in arrived[e]
       /\ d.state = "failed" => d.attempts = MaxAttempts

\* A stream can account for every event before its position: each was passed on, was
\* not for it, or is counted in a warning.
StreamAccounts ==
  \A s \in Stream :
    LET passed == {n \in Events : n < cursor[s]}
        missed == (passed \cap Interested(s)) \ {heard[s][i] : i \in DOMAIN heard[s]}
    IN /\ Cardinality(missed) <= skipped[s]
       /\ skipped[s] + Len(heard[s]) <= Cardinality(passed)
       /\ \A i \in 1..Len(heard[s]) - 1 : heard[s][i] < heard[s][i + 1]

\* Every delivery comes to an end.
DeliveryEnds ==
  \A e \in Endpoint, n \in 1..MaxSent :
    n \in Events /\ delivery[e][n].state # "none"
      ~> delivery[e][n].state \in {"delivered", "failed"}
=============================================================================
