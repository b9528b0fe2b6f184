------------------------------ MODULE RateLimit ------------------------------
(***************************************************************************)
(* The rate limit on correlation ids (src/observability/correlation.rs): a *)
(* request that names an id is counted in the window that the id's first   *)
(* request opened, and refused once the window is full; an id whose window *)
(* is over is forgotten.  Each check is atomic, under one mutex.           *)
(*                                                                         *)
(* Times are kept as ages in ticks, so that no clock need run on.  Ids     *)
(* that are not well formed are refused before and are left out.           *)
(***************************************************************************)
EXTENDS Integers, FiniteSets

CONSTANTS
  Id,           \* correlation ids
  MaxRequests,  \* max_requests_per_correlation_id
  Window        \* rate_limit_window_secs, in ticks

ASSUME RateLimitAssumption ==
  /\ MaxRequests \in Nat \ {0}
  /\ Window \in Nat \ {0}

VARIABLES
  limiter,  \* per id, the count and the age of its window; no entry counts 0
  recent    \* how many requests of an id were admitted at each age

limitVars == <<limiter, recent>>

Age     == 0 .. (Window - 1)
NoEntry == [count |-> 0, age |-> 0]

\* Slip: an id is forgotten a tick too early.
LiveShort == [i \in Id |-> IF limiter[i].age < Window - 1 THEN limiter[i] ELSE NoEntry]

\* What retain leaves.
Live == [i \in Id |-> IF limiter[i].age < Window THEN limiter[i] ELSE NoEntry]

Note(i) == recent' = [recent EXCEPT ![i][0] = @ + 1]

\* Slip: one request too many.
AdmitOneMore(i) ==
  /\ Live[i].count <= MaxRequests
  /\ limiter' = [Live EXCEPT ![i] = [count |-> @.count + 1, age |-> @.age]]
  /\ Note(i)

\* check_rate_limit: an entry is made, or its count grows.
Admit(i) ==
  /\ Live[i].count < MaxRequests
  /\ limiter' = [Live EXCEPT ![i] = [count |-> @.count + 1, age |-> @.age]]
  /\ Note(i)

\* Slip: who is refused has to wait from then on.
RefuseAnew(i) ==
  /\ Live[i].count >= MaxRequests
  /\ limiter' = [Live EXCEPT ![i].age = 0]
  /\ UNCHANGED recent

Refuse(i) ==
  /\ Live[i].count >= MaxRequests
  /\ limiter' = Live
  /\ UNCHANGED recent

\* Time passes: nothing is cleaned up before the next check.
Tick ==
  /\ limiter' = [i \in Id |-> [limiter[i] EXCEPT !.age = IF @ < Window /\ limiter[i].count > 0
                                                         THEN @ + 1 ELSE @]]
  /\ recent' = [i \in Id |-> [a \in Age |-> IF a = 0 THEN 0 ELSE recent[i][a - 1]]]

LimitInit ==
  /\ limiter = [i \in Id |-> NoEntry]
  /\ recent = [i \in Id |-> [a \in Age |-> 0]]

-----------------------------------------------------------------------------
(* What the limit must keep true *)

\* The requests that r counts at these ages, each told apart by its number.
Requests(r, ages) == UNION {{a} \X (1 .. r[a]) : a \in ages}

\* How many were admitted within the last Window ticks.
Admitted(i) == Cardinality(Requests(recent[i], Age))

Full(i) == Live[i].count >= MaxRequests

\* Windows are not aligned with the requests they count: the end of one and the
\* beginning of the next may together let through all but twice the limit in Window
\* ticks, never more; and nobody is refused who made fewer requests than the limit.
LimitHolds ==
  \A i \in Id :
    /\ Admitted(i) <= 2 * MaxRequests - 1
    /\ Full(i) => Admitted(i) >= MaxRequests
=============================================================================
