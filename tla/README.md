# A TLA+ model of fmcd

`fmcd` is a daemon that holds a fedimint client for each of several federations and
offers them to a server-side application over REST, WebSocket, webhooks and event
streams. This directory models the parts of it that decide whether money that moved is
told of, once and truly, and whether what was promised survives a crash, and how a
process gets from its command line and disk to a server its callers can rely on. The reference
is the Rust code under `src/src/`; line numbers are those of that tree. The fedimint
client, the HTTP server and the disk are external: they are modelled by what fmcd's code
relies on.

* [1. The system](#1-the-system)
* [2. The modules](#2-the-modules)
* [3. What the runs check](#3-what-the-runs-check)
* [4. Where the code and its comments part](#4-where-the-code-and-its-comments-part)
* [5. What is proved](#5-what-is-proved)
* [6. What is not modelled](#6-what-is-not-modelled)
* [7. Plan](#7-plan)

To repeat a run: `tlc -workers 2 -config lifecycle_claims.cfg MCPaymentLifecycle`, and to
repeat a proof: `tlapm PaymentLifecycleProofs.tla`.

## 1. The system

### Parts, their state and their operations

| Part | State it keeps | Operations | Talks to |
|---|---|---|---|
| Payment lifecycle manager (`core/services/payment_lifecycle.rs`) | `active_operations`, a map under a read-write lock | `track_*` / `add_operation`; a poll every few seconds; recovery in `start` | reads operation logs and update streams of the clients; publishes on the bus |
| Deposit monitor (`core/services/deposit_monitor.rs`) | `active_deposits`, `subscriptions` | `add_deposit`; a poll, federation by federation; one forwarder task per subscription | the clients; the bus |
| Balance monitor (`core/services/balance_monitor.rs`) | `last_balances` | a check every minute | the clients; the bus |
| Federation registry (`core/multimint/`) | clients in memory; saved configurations and one database per client on disk | `register_new`, `load_clients`, lookups | everybody asks it for clients |
| Request handlers of the core (`core/mod.rs`) | their own stack; a spawned follower per invoice | `create_invoice`, `create_deposit_address`, `withdraw_onchain`, `pay_invoice`, `join_federation` | all of the above |
| Payment and invoice trackers (`core/operations/payment.rs`), resolver (`api/resolvers/payment.rs`) | state of one payment | `initiate`, `succeed`, drop; `created`, `paid`, `expired` | the bus |
| Event bus (`events/mod.rs`) | the list of handlers, a broadcast channel of capacity 1000 | `publish`, `register_handler`, `subscribe` | log, metrics, webhooks, streams |
| Webhook notifier (`webhooks/notifier.rs`) | none but tasks under way | `notify`, `deliver_webhook` | remote endpoints |
| Status and streams (`api/rest/ln/status.rs`, `stream.rs`) | a position per open stream | status by operation, stream of one operation, stream of all events | the clients; the bus |
| Configuration (`config.rs`) | `fmcd.conf`, a temporary file while it is written | `load_or_create`, overridden by the command line | `main` |
| Entry point (`bin/main.rs`) | the seed of all clients, drawn once and stored (`multimint/mod.rs` 293) | start, configured join, serve | all of the above |
| WebSocket sessions (`api/websockets.rs`) | a loop per connection | read, handle, reply | the core |
| Rate limit (`observability/correlation.rs`) | a count and a window per correlation id | one check per REST request | in front of every handler but health and metrics |
| Everything else | credentials, metrics, health | | |

`bin/main.rs` makes the configuration (111-149), stores or loads the seed and loads the
clients (152), joins the federation of the configured invite code (155-168), refuses to go
on without a client, starts the services (recovery included), and serves, in one of two
modes: REST, where every request has a future of its own, or WebSocket, where a session
handles one message after the other.

### What is hard about it

* **Interleaving.** Handlers, poll tasks, followers and forwarders share maps whose locks
  are released between reading and writing. The lifecycle manager polls a clone of its map
  while handlers insert; `add_operation` checks a limit under one lock and inserts under
  another; `register_new` builds a client between two locks.
* **Vanishing handlers.** When a caller disconnects the server drops the handler's future
  at whatever await it sits in. What follows never runs, what it started goes on. A
  WebSocket session, by contrast, notices that its caller is gone only between two messages.
* **Crashes.** Only the configuration file, the seed, client databases and the list of
  saved invite codes survive. A first start writes five times before it serves; between two
  durable steps anything may be lost, and the next start must make sense of what is there.
* **Replay and caching.** An update stream of the client replays from the start, unless
  the outcome of the operation is cached, in which case it yields that alone. Who drains a
  stream how far decides what the next one sees.
* **Several tellers.** An invoice is announced by its follower and by the lifecycle
  manager, a withdrawal by its handler and by the manager, each from a stream of its own.
* **Limits and time.** Operations expire, recovery reads one page of a log, a lagging
  stream loses events, a webhook gives up.

### What makes each part correct

* Lifecycle manager: a claim that the client makes while an operation is tracked is
  reported, once, truly; nothing is dropped that is neither claimed nor late; nothing is
  tracked for ever; recovery picks up what is pending.
* Deposit monitor: a deposit is announced at most once and, if claimed in time, at all;
  channels live as long as their deposits and no longer. Who awaits a deposit is told.
* Registry: what a join answered is true and stays true across a crash.
* Start: no password, setting or seed that was in use is lost; what serves is what was
  configured.
* Sessions: every message is replied to, in order, and takes effect in that order.
* Rate limit: it bounds bursts, and turns away nobody who keeps below it.
* Payment flow: no success is told that is not one, no money moves unannounced, nobody who
  waits for a payment that was made is forgotten.
* Invoices and withdrawals: who tells of an end tells the one the operation came to, and it
  is told. A request that gives up on a withdrawal is the exception (section 4).
* Bus, webhooks, streams: log, endpoints and streams each account for what was published;
  deliveries end, with a true outcome.
* Balance monitor: a balance that has moved is announced as it stands, to who wants it.

`PROJECT.json` lists the hazards one by one, each at its line, with the properties aimed
at it.

## 2. The modules

| Module | Models | Used by |
|---|---|---|
| `PaymentLifecycle` | the lifecycle manager, the handlers that register, the poll, crash, recovery, start | |
| `SettlementReporting` | abstract: what a user may rely on about claims | refined by `PaymentLifecycle`, taken as the manager by `SettlementRequests` |
| `PaymentLifecycleProofs`, `PaymentLifecycleRefinement` | proofs about `PaymentLifecycle` | |
| `DepositMonitorProofs`, `AwaitedDepositsProofs`, `DaemonProofs`, `PaymentFlowProofs`, `SettlementRequestsProofs`, `BalanceMonitorProofs` | proofs about these modules and those they extend | |
| `SettlementRequests` | `create_invoice`, `withdraw_onchain`, the followers, status and operation stream | |
| `DepositMonitor` | the deposit monitor | refines `SettlementReporting`; extended by `AwaitedDeposits` |
| `RateLimit` | the rate limit on correlation ids | extended by `AwaitedDeposits` |
| `AwaitedDeposits` | await-deposit behind the rate limit, next to the monitor | |
| `MultiMint` | the registry | extended by `Daemon` |
| `ServedFederations` | abstract: what a user may rely on about the federations that are served | refined by `MultiMint` and `Daemon` |
| `ConfigStore` | the configuration file and what main makes of it | extended by `Daemon` |
| `Daemon` | a start, from the configuration over seed, registry and configured join to the server | |
| `PaymentFlow` | `pay_invoice_with_resolver` with resolver and tracker | extended by `PaymentSessions` |
| `InvoicePayments` | abstract: what a caller and a listener may rely on about the payment of an invoice | refined by `PaymentFlow` and `PaymentSessions` |
| `PaymentSessions` | that flow reached over REST or from the loop of a WebSocket session | |
| `EventDelivery` | bus, log, webhooks, global stream | extended by `BalanceMonitor` |
| `BalanceMonitor` | the balance monitor and requests as publishers on that bus | |
| `MC...` | instances for TLC: what each constant is in the runs | |

Definitions whose comment begins with "Slip:" are not part of any specification. Each is a
plausible mistake in one definition; `PROJECT.json` names the property that finds it.

### PaymentLifecycle

Maps become functions from operations to records or `Nil`; the record has the fields of
`PaymentOperation` the code decides on. A request is `CreateOperation` (the client makes
the operation), `PassLimit` or `RejectAtLimit` (`add_operation` under the read lock) and
`InsertOperation` (under the write lock), or `DropHandler` in between. A poll is
`PollBegin` (clone the map, put aside what is late), one `Process...` per operation
(reads a stream, publishes), `WriteBack` (copies the flags into the map under the write
lock), and `PollEnd` (removes what is completed or late). What the poll can see of an
operation is `Observable` where the code drains the stream for 100 ms, and `FirstItem`
where it takes one item. `Crash` forgets everything but the client side; `Restart` loads
some of the federations, `RecoverFederation` reads the last page of a log, classifies
entries by metadata, and inserts them; `StartServing` ends `start`. Amounts are "known"
or not, since a receive of unknown amount is not announced. Outgoing payments are never
registered (`track_lightning_pay` has no caller) but appear when recovery finds them.

### SettlementRequests

An invoice or withdrawal is made, begun (`InvoiceCreated`, `WithdrawalInitiated`),
registered, and followed: an invoice by a spawned task (`SpawnFollower`), a withdrawal by
the request (`Subscribe`). The follower tells one end, or gives up (`GiveUp`, after which it
has "quit"): silently for an invoice, and for a withdrawal with the same `WithdrawalFailed`
event as a failure (`core/mod.rs` 948-964), whatever becomes of it. The manager is
an instance of `SettlementReporting`, with `Report` for invoices, `Repeat` for
withdrawals whose outcome is cached, and late or finished operations let go. `GetStatus`
answers with the first item of a stream, `SendUpdate` passes on what a stream yields. Its
timeout event changes nothing else and is left out (see section 4).

### DepositMonitor

A client's states are a sequence per deposit; a subscription is two positions in it, what
its forwarder has sent and what the poll has received. The poll visits federations one
by one (`BeginFederation`, `EndFederation`) under the lock of all subscriptions, and
subscribes (`Subscribe`, `SubscribeFails`) and receives one update (`TryReceive`) per
deposit. The clean-up at the end of a federation, which retains only that federation's
subscriptions, is `Retained`. What was found is then announced one event at a time
(`Publish`), so that additions, clocks and crashes fall between two announcements, and
leaves the map at `PollEnd`. `Step` is everything but `Crash`.

The monitor refines the same abstract service as the lifecycle manager: settled are the
deposits that reached the chain, reported those announced exactly once since the start.

### RateLimit and AwaitedDeposits

`limiter` is the map of `check_rate_limit`, with ages in ticks in place of instants.
`Live` is what `retain` leaves, `Admit` and `Refuse` are the two results; the branch that
resets a window (141) cannot be reached after `retain`. `recent` is a history of what was
admitted at each age. In `AwaitedDeposits` a request that awaits a deposit (`Ask`, `Hear`,
`StopAsking`; `await_deposit.rs`) has a position of its own in the deposit's states. It may
get no stream at all (`Reject`): `get_client`, `get_first_module` and `subscribe_deposit`
end it with an error of their own (33-37, 82, 93) which says nothing of the deposit, so
"rejected" is kept apart from "refused", the answer of a stream. With a
correlation id it passes the middleware first (`AskNamed`, `Refused`), without one it does
not (`AskUnnamed`); the monitor goes on next to it (`Monitor`).

### MultiMint

`register_new` is `LookUp` (the lock is released), `Build`, `Open` or `JoinFederation`
(a database is initialised or not), `Insert` and `Save`, each of the fallible steps with
its failure, and `DropRequest` at every await. `Load` is `load_clients` at start, which
skips clients it cannot open.

### ConfigStore and Daemon

`phase` is where `main` is. `ReadFile` is `load_from_file` with both of its outcomes,
`WriteTemp` and `Rename` are the two halves of `save_to_file`, which runs up to twice
(`default`, then `password`), `WriteFails` is any error in them, `DrawPassword` and
`Override` are what follows. `MisreadFile` is a good file that cannot be read just then:
`load_or_create` takes every error for a corrupted file. `ChangeFile` is an operator, or a
mishap, while the daemon does not write. `promised` is a history: what was last written by
hand, or what the last start went on with.

`Daemon` puts these before `ChooseSeed` and `StoreSeed` (`load_or_generate_mnemonic`),
`OpenRegistry` (`Load` of `MultiMint`), `JoinConfigured` (the same `register_new` as a
request's, with `main` waiting for it) and `Serve`. Only then do requests join.
`seedOf` records with which secret each client database was initialised. `Kill` and `Stop`
end a start anywhere, by a signal or an error of `main`.

### PaymentFlow

A request is resolved, initiated, ready, awaiting and answered; a client makes attempts at
an invoice, a new one only after a refund, so requests for one invoice share attempts and,
through the payment id, events. `RejectAmount` comes after the resolution, as in the code
(`core/mod.rs` 1027), and `Succeed` publishes before `Answer` returns.

### PaymentSessions

A process runs in one mode. In REST mode requests take the steps of `PaymentFlow`, and may
be dropped. In WebSocket mode a connection is opened, and its loop reads a message (`Read`),
takes the handler's steps (`Advance`, `LoseStream`), replies (`Reply`, `ReplyFails`), and
only then looks at the socket again (`Close`). `Leave` is the caller going away. A message
that is no request, or fails authentication, is replied to at once, with the id it had or
none. Sending to a caller that has left may go either way.

### EventDelivery and BalanceMonitor

An event is its position in the broadcast order. `publish` is `Send` (broadcast),
`SpawnHandlers` (webhook deliveries become due) and `HandleCritical` (the log, awaited).
`Quiet` is what the logging handler passes over, as it is built without debug events
(`core/mod.rs` 213): balance events (`logging.rs` 156-171). `Handed` says that an event is
known to have come as far as the handlers. A
request may be dropped before the handlers are read, not after: the critical handler does
not suspend. A delivery is attempted (`Attempt`), fails (`AttemptFails`) or is accepted
(`Arrive`); an attempt that the notifier has stopped waiting for may still arrive. A
stream is a cursor into the channel, which keeps the last `Capacity` events: `Read`
passes on or filters out, `Lag` warns and jumps. The monitor visits each federation,
stores the balance it sees, and publishes what changed enough, one `PublishChange` at a
time, waiting for each `publish` to return. A request announces `Story`, event by event, as
`PaymentTracker` announces a payment and its success.

## 3. What the runs check

Twelve runs, nine of which pass. State counts are distinct states.

| Run | Instance | Properties | What it shows |
|---|---|---|---|
| `lifecycle_claims` (562,078) | a receive and a deposit of one federation, limit 1, two handlers, timeout 1 of 3 ticks, one crash | `ReportedOnce`, `OnlyTrueReports`, `ClaimedMeansReported`, `RecoversRecent`, `ImplementsReporting` | through every interleaving of polls, registrations, disconnects, expiry and recovery, claims are reported once, truly, and the manager implements `SettlementReporting` |
| `lifecycle_bound` (1,437,373) | three operations, two handlers, limit 1 and page 1 | `OvershootBounded` | the limit is exceeded, by at most the handlers between the two locks, or by a page of recovered operations |
| `lifecycle_fair` (12,037) | a receive and a payment in two federations, thin and misleading metadata, one crash | `ClaimInv`, `SettledIsReported`, `NothingWatchedForEver` | a claim is reported in the end whatever the clock does, everything is let go when time passes, and a payment taken for a receive is never reported as one |
| `settlement_requests` (437,256) | an invoice and a withdrawal, one crash | `EndsAgree`, `NotTakenBack`, `EndIsTold` | follower, manager, status and stream tell the end the operation came to, but for the withdrawal a request gives up on and calls failed; nobody hears of an end before the begin, and an end is told |
| `deposit_two_federations` (494,594) | two deposits in two federations, one crash | `NoOrphanSubscription`, `ImplementsReporting` | although each federation drops the other's subscriptions, no announcement is repeated, none is false, nothing is let go in silence, and no channel is left over |
| `deposit_fair` (96,338) | one deposit, a caller that awaits it under a limit of 2 requests in 2 ticks, one crash | `LimitHolds`, `AnswersAreTrue`, `SubscriptionPersists`, `ArrivalIsAnswered`, `DepositIsSettled` | in one federation the subscription persists, a claimed deposit is announced, a late one let go, who awaits one that arrives is told, who is refused by his stream asked for one that failed, and the limit admits no more than it should and refuses no others |
| `registry_joins` (556,969) | two joins of one federation by different codes, one of another, one of them configured; three starts, two crashes with the registry open, two edits, damages or misreadings of the file | `PromiseIsKept`, `OneSeed`, `ServesAsConfigured`, `ImplementsService` | starts cut short anywhere and joins that race, fail or crash keep password, settings, seed, saved list and clients consistent, and the registry implements `ServedFederations` |
| `pay_requests` (127,075) | two REST requests for one invoice, and a session that sends a third, a message that is none, and an lnurl; one crash, both modes | `OnlyTrueSuccess`, `HandledInTurn`, `ImplementsPayments`, `AwaitedIsAnswered`, `MessagesAreAnswered` | requests that share a payment are each answered truly, nothing is paid unannounced or twice (`InvoicePayments`), and a session handles and answers its messages in order whatever becomes of them |
| `balance_events` (302,462) | the monitor of one federation and a request with two events on one bus, an endpoint with two attempts that wants balances and what has succeeded, a stream of payments on a channel of capacity 2 | `LogInOrder`, `WebhooksAccount`, `StreamAccounts`, `BalancesAccount`, `DeliveryEnds`, `JumpIsTold` | the log tells the request's story in order and without a gap, webhook and stream account for what they want of both publishers, deliveries end, a moved balance is announced, and delivered, as it stands |
| `deposit_subscriptions`, `deposit_failed`, `registry_update` | | one each | violated: see section 4 |

`lifecycle_claims`, `deposit_two_federations`, `registry_joins`, `pay_requests`,
`balance_events` and `settlement_requests` also check the type invariant of their module.
`SnapshotCurrent`, `ClientAvailable`, `LeavesOnlyWhenDone`, `OnDiskFirst`,
`JoinedIsDurable`, `AnswerStaysTrue` and `EventsAccount` are stated and proved, and not run
for their own sake: the first two are parts of the inductive invariant, the second of which
says why the branch of the poll without a client (`payment_lifecycle.rs` 534) is dead; the
next follows for announced operations from `ImplementsReporting`, the fourth from
`OneSeed`, the next two from `ImplementsService`; the last says what `ImplementsPayments`
says of the events, in one state.

### Bounds, and why they are enough

* *Lifecycle.* Two operations of one federation suffice for every pairing of
  registration, poll and removal, since the code treats operations one by one and couples
  them only by the count in the limit; three are used where the count matters, because
  with limit 1 and two handlers the third is the first that must be turned away. Times
  only matter relative to `Timeout`; the horizon leaves room for an operation created at
  tick 1 to expire. One crash covers recovery; a second repeats it from a state of the
  same shape. Events per operation are counted up to 2, one more than allowed. The symmetry of
  the receives is used in a run with invariants only.
* *Deposits.* Two federations are what the shared map of subscriptions needs; more than
  one deposit in a federation adds only iterations of the same loop.
* *Awaited deposits.* One caller suffices, as requests share nothing but the limit. A limit
  of 2 with a window of 2 ticks is the least in which a burst can exceed the limit, and does.
* *Registry and starts.* Two codes for one federation and one for another are all the ways
  in which two joins can collide; two crashes allow a crash after a load. Three starts are
  a first one cut short, a second that finishes it, and a third on what that left. Two
  changes of the file allow an edit and its loss. The command lines are a plain one, one
  that overrides everything and one without authentication; the files left by others are
  with a password and without, with a code that does not parse, damaged, and none.
* *Payments.* Three requests for one invoice let one pay, one join in and one come after a
  refund. The lnurl is turned away after its resolution whatever it resolves to. One
  session with three messages has one that takes long, one that cannot be handled, and one
  that fails behind them; sessions share nothing but invoices, which the REST requests and a
  crash into the other mode bring in.
* *Requests.* Operations do not affect each other here; one of each kind is there because
  the kinds end differently.
* *Delivery.* Three events and a capacity of 2 make a stream lag with something left to
  read. They are two of the request and one of the monitor, or the other way round, since
  two things may come from outside (`MaxOutside`): the two events of the request, in which
  a gap of the log would show, or one of them and a move. The first visit always tells.
  Two attempts are the least with a retry. The monitor's threshold is 2 of balances up to 2,
  so moves below and at it both occur.

### Fairness

* Lifecycle: the poll task, recovery and the end of `start` are scheduled (weakly fair);
  the drain of a live stream does not stop early for ever (strongly fair `Learn`, since
  polls come and go). Nothing is assumed of the clock, of handlers or of clients.
* Deposits: the poll and the forwarders are scheduled; a client does not refuse
  subscriptions for ever (strongly fair, as it is enabled once a poll).
* Awaited deposits: a request reads what its stream yields (weakly fair `Hear`). Nothing is
  assumed of the clock or the limiter.
* Payments: a handler whose payment ended reads that off its stream and answers.
* Sessions: the loop of a session and the handler it runs are scheduled, which includes
  that the network answers what a handler asks of it, and payments come to an end. Both
  are assumptions on the outside: a payment that hangs holds up its session.
* Requests: a follower reads what its stream yields; the manager reports what it watches,
  which is `SettledIsReported` of `PaymentLifecycle`.
* Bus and balances: tasks are scheduled; a webhook request ends, because the client has a
  timeout (`notifier.rs` 556).

Deadlock is not checked in `registry_joins` and `pay_requests`, where the system rests once
every request is answered and no start is left. Elsewhere the periodic tasks never rest, or
the clients and requests may still act, and deadlock is checked.

## 4. Where the code and its comments part

Three runs show a comment to be violated by what the code does.

* `deposit_subscriptions`: "Persistent subscriptions to avoid recreating them on each
  poll" (`deposit_monitor.rs` 64). With two federations each visit of one retains only
  its own (488), so both are recreated at every poll. As each new subscription replays
  from the start and a visit reads one update, a late state may go unseen for long; that
  nothing is announced twice is checked by `ImplementsReporting`.
* `deposit_failed`: "Will be removed from active_deposits by caller"
  (`deposit_monitor.rs` 456). Nothing passes the failed deposit to the caller; it stays
  until its timeout, and its failure is read again at every other poll.
* `registry_update`: "If the client already exists, it will be updated."
  (`multimint/mod.rs` 184). A join of a known federation returns its id and looks no further.

Met while modelling, and visible in the models, but not given a run of their own:

* The per-federation limit is checked and used under different locks, and recovery does
  not check it (`payment_lifecycle.rs` 262-299, 449-480): `OvershootBounded` states by how
  much it is exceeded.
* Recovery sees the last 100 entries of a log and skips those with a cached outcome, so a
  claim that was cached just before a crash is not reported after it.
* Withdrawals, like payments, are looked at through the first item of a stream only
  (`payment_lifecycle.rs` 977). Unless somebody else drained the stream, that is the start
  of a replay: a withdrawal whose handler was dropped is not announced. One whose outcome
  is cached is announced at every poll until it times out.
* A status request also answers with the first item (`status.rs` 71), so it never says
  "pending": it says "created" until an outcome is cached.
* The stream of one operation sends a timeout event and goes on (`stream.rs` 141-160).
* An invoice is announced as paid twice, under its invoice id and under its operation id,
  and the stream of one operation makes up a third id (`stream.rs` 109).
* Any lnurl payment fails: the resolver demands an amount, and the handler then refuses an
  amount together with an invoice that carries one (`core/mod.rs` 1027).
* `PaymentTracker::fail` is never called, so no failed payment is announced as one. Neither
  this nor the refusal of lnurls breaks a property: nothing in the code promises the event,
  and what does not get through moves no money.
* A withdrawal whose stream ends without an outcome is announced by the ordinary
  `WithdrawalFailed` and answered with an error (`core/mod.rs` 948-975), though it goes on.
  If it succeeds and the outcome is cached, the manager announces `WithdrawalSucceeded`
  (`payment_lifecycle.rs` 996-1005): a listener hears that one withdrawal failed and then
  succeeded. `EndsAgree` names this case (`GivenUp`) and shows that there is no other.
* `await-deposit` ends with an error for a deposit in any state when it gets no stream
  (`await_deposit.rs` 33-37), and only the text of the error tells it from a failed deposit,
  which is an internal error too.
* Balance events are never in the log, as the logging handler is built without debug events
  (`core/mod.rs` 213, `logging.rs` 156-171; the test at `logging.rs` 483 expects it). Webhooks
  and streams get them.
* When saving a configuration fails, the join fails but the client stays, and a later join
  answers that all is well (`multimint/mod.rs` 212-217).
* `max_attempts` of a webhook counts the first attempt too, though it is described as a
  number of retries (`notifier.rs` 24).
* The balance monitor compares with the balance it saw last, not the one it told last, so a
  balance that drifts in steps below the threshold is never announced.
* A withdrawal whose subscription fails after `withdraw()` is answered with an error and
  goes on (`core/mod.rs` 877).
* Webhooks of two events run side by side, so with retries the later may arrive first
  (`notifier.rs` 356).
* The health handlers take their state from an `Extension` (`health/checks.rs` 118, 205,
  230) that no layer of `main` adds: `/health`, `/health/live` and `/health/ready` cannot
  succeed as they are served, although README.md:87 lists the first and :148 probes it. If
  they ran, the federation check could not fail (364-375 asks nothing of the federation).
* "If config file is corrupted, recreate it" (`config.rs` 157) is also what happens to a
  file that cannot be read or lacks permissions, and takes password and settings with it;
  `MisreadFile` withdraws the promise for that reason.
* "When None, authentication is disabled" (`config.rs` 22): a file without a password gets
  one drawn; only `--no-auth` disables authentication.
* A password given by the command line or environment is not stored, and one is drawn and
  stored beside it.
* A temporary file is renamed without being synced (`config.rs` 100-104), so its atomicity
  holds against a dying process, not against a power failure.
* "Try to extract the id from the request" (`websockets.rs` 187) looks at the top level of
  the message; in an authenticated one the request is nested in `payload`, so the id is
  never found.
* Only the upgrade of a WebSocket passes the middleware: its messages are not limited. A
  limit of 0 admits one request per window (`correlation.rs` 153). Two windows that meet
  let through up to one less than twice the limit.
* An invite code that fails to join ends the start (`main.rs` 158), though other federations
  were loaded and could be served.

## 5. What is proved

Proofs are checked by TLAPS for every value of the constants, from the named assumptions
of the modules concerned: `ConstantsAssumption` (`PaymentLifecycle`: types of the constants,
`Nil` apart from what it stands in for, at least one handler, events counted to at least 2),
`MultiMintAssumption`, `ConfigAssumption` and `DaemonAssumption`, `DepositAssumption`,
`RateLimitAssumption` and `AwaitedAssumption`, `PaymentFlowAssumption` and
`SessionsAssumption`, `SettlementAssumption`, `DeliveryAssumption` and `BalanceAssumption`.
They give types and keep stand-in values apart. Three say more: requests of `PaymentFlow` are
finitely many, since the proof counts them, no request of `PaymentSessions` is sent as two
messages, and limit and window of `RateLimit` are not 0 (a limit of 0 admits a request all
the same, see section 4). No other proof asks for finite sets; where operations, events,
deposits or admissions are counted, their finiteness is part of the invariant.

Every safety property, action property and refinement that the passing runs check is proved.

**The lifecycle manager** (`PaymentLifecycleProofs`). `Spec => []Inv`, and from it type
correctness, `ReportedOnce`, `OnlyTrueReports`, `ClaimedMeansReported`, `SnapshotCurrent`
and `ClientAvailable`. None of the properties is inductive. `ReportedOnce` needs to know
that an operation whose claim is out is either gone for good, or marked in the map, or
about to be marked by the `WriteBack` that follows (`ReportInv`). "Gone for good" needs
that a registration comes before everything else and only once (`HandlerInv`). "Marked"
needs that the poll works on a copy that agrees with the map (`SnapshotCurrent`), which
holds because handlers insert only operations that are in neither (`HandlerInv`) and only
the poll writes flags and removes (`PollInv`). Finally a federation's log holds its own
operations, all of them created (`LogInv`), so that recovery brings back none whose handler
is still on its way. There is one lemma per action or group of actions; under each, one
step per part of the invariant it can disturb.

`OvershootBounded` counts (`LimitInv`): what is between the two locks of `add_operation` is
at most `Handlers`, and per federation it adds up, with what is tracked, to less than
`MaxOps + Handlers`. A handler that passes the limit saw fewer than `MaxOps` tracked and is
itself one of the handlers; an insertion moves an operation from one set to the other.
Recovery breaks the sum, but only while no handler runs, and fills the map with no more
than a page. `RecoversRecent` follows from `RecoveryInv`: what must come back of a
federation whose log was read is tracked. Nothing removes it before the server serves, and
an operation only ceases to be pending or grows old.

**Refinement** (`PaymentLifecycleRefinement`). `Spec => ImplementsReporting`: under the
mapping settled, watching, late and reported of `PaymentLifecycle`, every step is one of
`SettlementReporting` or a stutter. Registration and recovery are `Watch`, a tick is
`GrowLate`, publishing a claim is `Report`, the end of a poll is `LetGo`, and a crash is
`Forget`. The same module proves `LeavesOnlyWhenDone` and `ClaimInv`.

**The registry** (`DaemonProofs`). `RegistryInv`, and from it `OnDiskFirst`,
`JoinedIsDurable` and, step by step, `AnswerStaysTrue`. The registry implements
`ServedFederations` (`RegistryServes`): `Insert` is its `Serve`, a `LookUp` that finds the
federation its `AnswerFound`, `Save` its `AnswerJoined`, and everything between is invisible.
The steps that need the invariant are those that come late in a join. `Save` answers for a
federation that is served, though the client was put into memory under a lock given back
since; that holds because nobody takes a client out again but a crash, which takes the
request with it (`RequestInv`). A failed `SaveFails` must be invisible for the same reason.

**The start of the daemon** (`DaemonProofs`). Every step of the daemon is one of the
registry or leaves it alone (`RunsTheRegistry`), so `RegistryInv`, `JoinedIsDurable`,
`AnswerStaysTrue` and the promise of `ServedFederations` (`DaemonServes`) hold of it too.
`PromiseIsKept` is a property of a file in two states, before and after a rename, and needs
to know what the configuration in memory owes to the file in each phase (`FileInv`): a
default is written only when nothing was promised, and a password is added only to a
configuration that holds all that was. `OneSeed` needs that a running process holds the
secret that is on disk. `ServesAsConfigured` needs to follow the join of `main` through all
its steps: it may fail, which ends the start, but once it has answered its federation is
served, and no other join takes it away.

**The deposit monitor** (`DepositMonitorProofs`). `Inv` has five parts: a deposit is watched
only while it counts as added (`RequestInv`); a claimed one was confirmed (`HistoryInv`);
what a poll has checked, found, announced and put aside as late are kept apart (`PollInv`);
only watched deposits have channels (`ChannelInv`); and a watched deposit that was announced
is about to leave the map (`ReportInv`). The last is why no replay announces it again. From
these follow `NoOrphanSubscription` and, step by step, that the monitor implements
`SettlementReporting` too: `Publish` is its `Report` and `PollEnd` its `LetGo`. In one
federation, and only there, `SubscriptionPersists` follows as well
(`PersistsInOneFederation`); the run `deposit_subscriptions` shows what two do.

**Awaited deposits and the rate limit** (`AwaitedDepositsProofs`). The steps of
`AwaitedDeposits` are steps of the monitor or leave it alone (`CallersLeaveItAlone`), so all
that is proved of the monitor holds with callers and the rate limit around it, down to
`SettlementReporting` (`DeskReports`).

`LimitHolds` is about a sum over a window of any length. No induction over the window is
needed, since a step changes the sum in one place: admissions are kept as a set of pairs of
an age and a number (`Requests`), an admission adds one pair, a tick moves all of them by a
bijection and drops those of the highest age, and two sets of ages hold together at most
what each holds. The invariant (`EntryInv`) is what makes the limit work at all. While a
window runs, its count is of exactly the requests that are no older than it, the first of
which opened it, and fewer than the limit are older. The latter is the state in which the
window before ended: a window runs to its full age, when its first request leaves the sum,
and what is left of at most the limit is one less. So an id reaches one less than the limit
of the old window, and the limit of the new; and the count, by which an id is refused, is
never more than what was admitted.

`AnswersAreTrue` is about requests that were given a stream; one that was not is rejected
before it could be told anything of the deposit. It needs of the client that an end is its
last word (`EndIsLast`), and of the request that it has not read past what it waits for
(`AskInv`): one that waits while the deposit has ended has an update left to read, be it
the cached outcome alone. So the end of the stream, which the handler takes for a failure,
is never what answers it.

**Payments and sessions** (`PaymentFlowProofs`). `EventsAccount` compares numbers of requests
with numbers of events. `CountInv` does so for every stage on the way: the requests that
announced a payment and those told of its success, as finite sets, against what was
published. `AttemptInv` adds that only the last attempt at an invoice is not refunded. With
them the flow implements `InvoicePayments` (`FlowKeepsPromise`): `Initiate` is its `Announce`,
`Pay` its `Start` or, for an invoice that is paid already, invisible, the client's `Settle`
its `End`, `Succeed` its `Tell` and `Answer` its `Answer`. `Start` wants an announcement, and
has that of the request itself, by `CountInv`. `Tell` wants the money of the invoice spent,
while the request looks at one attempt: if that has succeeded it is the last, by `AttemptInv`.
`Tell` also wants an announcement without a telling, which is the request's own again,
whichever requests of the invoice have failed, told or disappeared. Disappearing, in a crash or
with a caller, is invisible because the promise is of events and answers, which stand.

The steps of sessions are steps of the flow or move no request (`SessionsRunTheFlow`), so
all of this holds of sessions (`SessionsKeepPromise`). That messages take effect in their
order needs `BegunInv` (what has begun was read) and `LoopInv` (the loop reads on only
after it has replied).

**Requests** (`SettlementRequestsProofs`). `EndsAgree` is about everybody who tells of an
end: what manager, status and streams tell is what the operation came to, whatever a
follower said, and the follower tells the same, but that it may call a withdrawal failed on
which it has quit. `ClientInv` says what there is to know of an operation at its client,
`ToldInv` how far a request and its follower have told, `WatchInv` that what the manager
watches was begun by this process or one before it, and `TellInv` that each has the end
from the client, unless it has quit. `NotTakenBack` follows step by step. The module takes
its manager from `SettlementReporting`, action by action; that it does no more to it than
the specification allows, and leaves it alone otherwise, is `ManagerIsKept`. With
`Refinement` in `PaymentLifecycleRefinement` this justifies the composition as far as
claims go: what the requests rely on is what the manager is proved to do. What the manager
does for withdrawals is not part of `SettlementReporting`; it is modelled in
`SettlementRequests` from the code.

**Delivery** (`BalanceMonitorProofs`). `LogInOrder` rests on `FlightInv`: all events of a
source that is alive and not `Quiet` are logged, but for the one it is publishing; a source
that was dropped sends no more. `WebhooksAccount` speaks first of deliveries, which are spawned
before the event is logged or left out, and needs that there are none for an event to come
(`SpawnInv`). `StreamAccounts` is a count (`StreamInv`): what a
stream missed is at most what its warnings add up to, which together with what it heard is
at most its position. All of it is proved for any `Quiet` and any `Wants`. The monitor is one
of the sources, and its steps add nothing to this.

What the monitor tells of balances is `BalancesAccount`: the last event about a federation
bears the balance noted as told; between two checks all its events are with the deliveries
of those who want them, there is one of each federation it has seen, and with a threshold of one
msat or none the last of them is exact. A visit stores the balance, and the event goes out
only after all other visits. That nothing is lost between them is `CheckInv`: a check holds
at most one change of a federation, of one it has visited, with the balance that is stored.
`SaidInv` ties that to the events on the bus, and `WebhooksAccount` to the deliveries. With a
larger threshold, as in the run, which leaves that clause to the proof, the last event may be
off by more than the threshold, since a balance is stored at every visit and small moves add
up untold.

**Model-checked only.** Liveness under fairness, which the prover does not reach:
`SettledIsReported`, `NothingWatchedForEver`, `DepositIsSettled`, `ArrivalIsAnswered`,
`AwaitedIsAnswered`, `MessagesAreAnswered`, `EndIsTold`, `DeliveryEnds`, `JumpIsTold`.

## 6. What is not modelled

* The fedimint client, beyond what fmcd sees of it: the states of an operation, the cached
  outcome, the operation log, balances.
* Amounts, fees, gateways, preimages, correlation ids, wording.
* `stop()` and a second `start()` of the services. `stop_monitoring_services` has no
  caller, and does not stop the lifecycle manager.
* Ecash endpoints, admin queries, authentication, health checks, metrics, database
  instrumentation, errors: they keep no state that the modelled parts read, or hand over
  to the client at once.
* An edit of `fmcd.conf` while a start reads or writes it, which the start overwrites
  unseen; power failures; the settings that only configure the server (address, port,
  webhooks), which `load_or_create` carries along with the invite code.
* In sessions, methods other than paying. They take the same loop; what they do is in the
  modules of their handlers.
* `webhooks/invoice.rs`, `remove_deposit` and other code that nothing calls.

## 7. Plan

Done, in this order: `PaymentLifecycle` with its abstract specification, the proofs, the
registry, deposits, payments, the bus, balances, the requests over the abstract manager;
then the start of the daemon over the registry, sessions over payments, awaited deposits
behind the rate limit, the abstract specifications `InvoicePayments` and `ServedFederations`,
the refinement of the abstract specifications by everything that stands on them, and proofs
of the safety properties of all of these.

Next:

1. *Compositions.* `DepositMonitor` and `PaymentLifecycle` both announce a deposit, and both
   are proved to refine `SettlementReporting`; a module with two instances of it can state
   what their events have in common. `SettlementRequests` can publish through
   `EventDelivery`, to state what a stream filtered by invoice id is told.
2. *Abstract specifications.* For `EventDelivery`: what log, webhooks and streams owe to a
   sequence of events.
3. *Models.* Stop and start of services, once something calls them.
