--------------------------- MODULE AwaitedDeposits ---------------------------
(***************************************************************************)
(* await-deposit behind the middleware of the REST server: a caller that   *)
(* asks again and again under one correlation id runs into the rate limit  *)
(* of RateLimit, while the monitor of DepositMonitor goes on.  A request   *)
(* without a correlation id is not limited (src/bin/main.rs puts the       *)
(* middleware around all routes but /health and /metrics).                 *)
(***************************************************************************)
EXTENDS DepositMonitor, RateLimit

CONSTANT Awaited  \* the deposits somebody may ask await-deposit about

ASSUME AwaitedAssumption == Awaited \subseteq Op

VARIABLES
  asking,  \* "none", "rejected", "waiting", "told" or "refused", per request of await-deposit
  heard    \* how many of the deposit's updates the request has read

askVars  == <<asking, heard>>
deskVars == <<vars, askVars, limitVars>>

-----------------------------------------------------------------------------
(* await-deposit: a request follows a stream of its own *)

\* The request subscribes: to all updates, or to the cached outcome.
Ask(o) ==
  /\ o \in Awaited
  /\ history[o] # <<>>
  /\ asking[o] = "none"
  /\ asking' = [asking EXCEPT ![o] = "waiting"]
  /\ heard' = [heard EXCEPT ![o] = IF o \in outcome THEN Len(history[o]) - 1 ELSE 0]

\* The request gets no stream: there is no client of that federation, the client has no
\* wallet module, or the module refuses to subscribe.  It ends with that error, which
\* says nothing of the deposit.
Reject(o) ==
  /\ o \in Awaited
  /\ asking[o] = "none"
  /\ asking' = [asking EXCEPT ![o] = "rejected"]
  /\ UNCHANGED heard

\* Slip: the claim is no answer to who asked for an arrival.
AnswerConfirmed(u) ==
  CASE u = "confirmed"             -> "told"
    [] u = "failed"                -> "refused"
    [] u \in {"waiting", "claimed"} -> "waiting"

\* Slip: a confirmed deposit is awaited until it is claimed.
AnswerClaimed(u) ==
  CASE u = "claimed"                  -> "told"
    [] u = "failed"                   -> "refused"
    [] u \in {"waiting", "confirmed"} -> "waiting"

Answer(u) ==
  CASE u \in {"confirmed", "claimed"} -> "told"
    [] u = "failed"                   -> "refused"
    [] u = "waiting"                  -> "waiting"

\* The next update; the end of the stream is an error.
Hear(o) ==
  /\ asking[o] = "waiting"
  /\ IF heard[o] < Len(history[o])
       THEN /\ heard' = [heard EXCEPT ![o] = @ + 1]
            /\ asking' = [asking EXCEPT ![o] = Answer(history[o][heard'[o]])]
       ELSE /\ Ended(o)
            /\ asking' = [asking EXCEPT ![o] = "refused"]
            /\ UNCHANGED heard

\* Whoever asked goes away, with or without the answer, and may ask again.
StopAsking(o) ==
  /\ asking[o] # "none"
  /\ asking' = [asking EXCEPT ![o] = "none"]
  /\ heard' = [heard EXCEPT ![o] = 0]

-----------------------------------------------------------------------------
\* The handler runs only if the middleware lets the request through.
AskNamed(i, o) == Admit(i) /\ (Ask(o) \/ Reject(o)) /\ UNCHANGED vars

AskUnnamed(o) == (Ask(o) \/ Reject(o)) /\ UNCHANGED <<vars, limitVars>>

Read(o) == Hear(o) /\ UNCHANGED <<vars, limitVars>>

Leave(o) == StopAsking(o) /\ UNCHANGED <<vars, limitVars>>

Refused(i) == Refuse(i) /\ UNCHANGED <<vars, askVars>>

Elapse == Tick /\ UNCHANGED <<vars, askVars>>

\* The clients, the requests for addresses and the monitor pass the desk by.
Monitor == Step /\ UNCHANGED <<askVars, limitVars>>

\* The requests are gone, and the limiter is in memory only.
Restart ==
  /\ Crash
  /\ asking' = [o \in Op |-> "none"]
  /\ heard' = [o \in Op |-> 0]
  /\ limiter' = [i \in Id |-> NoEntry]
  /\ recent' = [i \in Id |-> [a \in Age |-> 0]]

DeskInit ==
  /\ Init
  /\ LimitInit
  /\ asking = [o \in Op |-> "none"]
  /\ heard = [o \in Op |-> 0]

DeskNext ==
  \/ \E i \in Id, o \in Op : AskNamed(i, o)
  \/ \E o \in Op : AskUnnamed(o) \/ Read(o) \/ Leave(o)
  \/ \E i \in Id : Refused(i)
  \/ Elapse
  \/ Monitor
  \/ Restart

DeskSpec == DeskInit /\ [][DeskNext]_deskVars

\* What DepositMonitor assumes, and that a request reads what its stream yields; nothing
\* of the limiter.
FairDesk ==
  /\ DeskSpec
  /\ Fairness
  /\ \A o \in Op : WF_deskVars(Read(o))

-----------------------------------------------------------------------------
\* An answer is true: who is told that a deposit arrived may rely on it, and who was given
\* a stream is not refused but for a deposit that failed, not because the stream, all of
\* the updates or the cached outcome alone, ended before he read what he waits for.  Who
\* is rejected before that, for want of a stream, is told nothing of the deposit.
AnswersAreTrue ==
  \A o \in Op :
    /\ asking[o] = "told" => "confirmed" \in Seen(o)
    /\ asking[o] = "refused" => "failed" \in Seen(o)

\* Who awaits a deposit that arrives is told so, unless he leaves before or the deposit
\* fails: a stream that holds the cached outcome alone, and ends, still says what
\* became of a deposit that was claimed.
ArrivalIsAnswered ==
  \A o \in Op : asking[o] = "waiting" /\ "confirmed" \in Seen(o)
                ~> asking[o] \in {"told", "none"} \/ "failed" \in Seen(o)
=============================================================================
