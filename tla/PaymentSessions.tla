--------------------------- MODULE PaymentSessions ---------------------------
(***************************************************************************)
(* The two ways a payment request reaches the flow of PaymentFlow.  In     *)
(* mode "rest" (src/bin/main.rs) every request is an HTTP request of its   *)
(* own, dropped with its caller.  In mode "ws" it is a message of a        *)
(* WebSocket session (src/api/websockets.rs), whose loop reads a message,  *)
(* handles it to its end and replies, before it looks at the socket again. *)
(*                                                                         *)
(* So a caller that leaves is noticed only between two messages, and by a  *)
(* reply that cannot be sent.  Sending to a connection that is gone may    *)
(* still succeed.  Methods other than paying, and frames that are not      *)
(* text, which the loop skips, are left out.                               *)
(***************************************************************************)
EXTENDS PaymentFlow

CONSTANTS
  Connection,  \* WebSocket connections
  Garbled,     \* messages that fail authentication, or are no request
  Messages     \* what each connection sends

\* Positions in the sessions: a request comes in one message at most.
Position  == UNION {{c} \X DOMAIN Messages[c] : c \in Connection}
Message(p) == Messages[p[1]][p[2]]

ASSUME SessionsAssumption ==
  /\ Messages \in [Connection -> Seq(Request \cup Garbled)]
  /\ Garbled \cap Request = {}
  /\ Nil \notin Request \cup Garbled
  /\ \A p, q \in Position : Message(p) \in Request /\ Message(p) = Message(q) => p = q

VARIABLES
  mode,     \* "rest" or "ws", for the life of the process
  session,  \* "none", "open", "left" by the caller, "closed" by the loop, or "lost"
  read,     \* how many messages of a connection the loop has read
  replies   \* the ids of its replies, Nil where there is none

sessionVars == <<mode, session, read, replies>>
allVars     == <<vars, sessionVars>>

InSession == {Message(p) : p \in Position} \cap Request
Busy(c)   == Len(replies[c]) < read[c]

\* The messages that were read and not replied to.
InHand(c) == {Messages[c][k] : k \in (Len(replies[c]) + 1) .. read[c]}

-----------------------------------------------------------------------------
(* handle_socket *)

Open(c) ==
  /\ mode = "ws"
  /\ session[c] = "none"
  /\ session' = [session EXCEPT ![c] = "open"]
  /\ UNCHANGED <<vars, mode, read, replies>>

\* Slip: every message is handled in a task of its own.
ReadAhead(c) ==
  /\ session[c] \in {"open", "left"}
  /\ read[c] < Len(Messages[c])
  /\ read' = [read EXCEPT ![c] = @ + 1]
  /\ UNCHANGED <<vars, mode, session, replies>>

\* What the caller sent before it left may still be read.
Read(c) ==
  /\ session[c] \in {"open", "left"}
  /\ ~Busy(c)
  /\ read[c] < Len(Messages[c])
  /\ read' = [read EXCEPT ![c] = @ + 1]
  /\ UNCHANGED <<vars, mode, session, replies>>

InLoop(r) == \E c \in Connection : r \in InHand(c) /\ session[c] \in {"open", "left"}

\* match_method: the handler runs in the loop, and nobody drops it.
Advance(r) ==
  /\ InLoop(r)
  /\ HandlerAdvances(r)
  /\ UNCHANGED sessionVars

LoseStream(r) ==
  /\ InLoop(r)
  /\ StreamFails(r)
  /\ UNCHANGED sessionVars

\* The id a reply carries: the one of the request; a message that is none has its id
\* only if the error could find it.
ReplyId(m) == IF m \in Request THEN {m} ELSE {m, Nil}

Handled(m) == m \in Request => stage[m] \in {"answered", "rejected", "failed"}

\* Slip: the error of a handler is the error of the loop.
ReplyOrEnd(c) ==
  /\ Busy(c)
  /\ session[c] \in {"open", "left"}
  /\ LET m == Messages[c][Len(replies[c]) + 1]
     IN /\ Handled(m)
        /\ IF m \in Request /\ stage[m] # "answered"
             THEN session' = [session EXCEPT ![c] = "closed"] /\ UNCHANGED replies
             ELSE /\ \E id \in ReplyId(m) : replies' = [replies EXCEPT ![c] = Append(@, id)]
                  /\ UNCHANGED session
  /\ UNCHANGED <<vars, mode, read>>

\* A message is replied to with the result, the error of its handler, or the error of
\* its authentication or form.
Reply(c) ==
  /\ Busy(c)
  /\ session[c] \in {"open", "left"}
  /\ LET m == Messages[c][Len(replies[c]) + 1]
     IN /\ Handled(m)
        /\ \E id \in ReplyId(m) : replies' = [replies EXCEPT ![c] = Append(@, id)]
  /\ UNCHANGED <<vars, mode, session, read>>

\* The reply cannot be sent: the loop ends, and reads no further message.
ReplyFails(c) ==
  /\ Busy(c)
  /\ session[c] = "left"
  /\ Handled(Messages[c][Len(replies[c]) + 1])
  /\ session' = [session EXCEPT ![c] = "closed"]
  /\ UNCHANGED <<vars, mode, read, replies>>

\* The loop sees the end of the stream.
Close(c) ==
  /\ session[c] = "left"
  /\ ~Busy(c)
  /\ session' = [session EXCEPT ![c] = "closed"]
  /\ UNCHANGED <<vars, mode, read, replies>>

-----------------------------------------------------------------------------
Leave(c) ==
  /\ session[c] = "open"
  /\ session' = [session EXCEPT ![c] = "left"]
  /\ UNCHANGED <<vars, mode, read, replies>>

\* The router of mode "rest" serves requests only.
RestStep(r) ==
  /\ mode = "rest"
  /\ r \notin InSession
  /\ HandlerStep(r)
  /\ UNCHANGED sessionVars

ClientStep ==
  /\ \E i \in Invoice, s \in {"succeeded", "refunded"} : Settle(i, s)
  /\ UNCHANGED sessionVars

\* The process comes back in any mode.
Restart ==
  /\ Crash
  /\ mode' \in {"rest", "ws"}
  /\ session' = [c \in Connection |-> IF session[c] \in {"open", "left"} THEN "lost" ELSE session[c]]
  /\ UNCHANGED <<read, replies>>

SessionsInit ==
  /\ Init
  /\ mode \in {"rest", "ws"}
  /\ session = [c \in Connection |-> "none"]
  /\ read = [c \in Connection |-> 0]
  /\ replies = [c \in Connection |-> <<>>]

SessionsNext ==
  \/ \E r \in Request : RestStep(r) \/ Advance(r) \/ LoseStream(r)
  \/ \E c \in Connection : \/ Open(c)
                           \/ Read(c)
                           \/ Reply(c)
                           \/ ReplyFails(c)
                           \/ Close(c)
                           \/ Leave(c)
  \/ ClientStep
  \/ Restart

SessionsSpec == SessionsInit /\ [][SessionsNext]_allVars

\* The loop and its handler are scheduled, the network answers, payments end, and
\* what PaymentFlow assumes.
FairSessions ==
  /\ SessionsSpec
  /\ Fairness
  /\ \A c \in Connection : WF_allVars(Read(c)) /\ WF_allVars(Reply(c))
  /\ \A r \in InSession : WF_allVars(Advance(r))
  /\ WF_allVars(ClientStep)

-----------------------------------------------------------------------------
(* What the sessions must keep true *)

\* Every variable holds a value of its kind.
SessionsTypeOK ==
  /\ TypeOK
  /\ mode \in {"rest", "ws"}
  /\ session \in [Connection -> {"none", "open", "left", "closed", "lost"}]
  /\ \A c \in Connection : /\ Len(replies[c]) <= read[c]
                           /\ read[c] <= Len(Messages[c])

\* Messages take effect in the order they were sent: while one is underway no later
\* one of its connection has begun, and the replies come in that order and are for
\* messages that have ended.
HandledInTurn ==
  \A c \in Connection : \A k \in DOMAIN Messages[c] :
    LET m == Messages[c][k]
    IN /\ m \in Request /\ stage[m] # "new" => Len(replies[c]) >= k - 1
       /\ k \in DOMAIN replies[c] => replies[c][k] \in ReplyId(m) /\ Handled(m)

\* Every message is replied to in the end, whatever becomes of the ones before it,
\* unless the caller leaves or the process dies.
MessagesAreAnswered ==
  \A p \in Position :
    session[p[1]] = "open" ~> \/ Len(replies[p[1]]) >= p[2]
                              \/ session[p[1]] \in {"left", "lost"}
=============================================================================
