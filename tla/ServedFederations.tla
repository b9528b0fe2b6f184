-------------------------- MODULE ServedFederations --------------------------
(***************************************************************************)
(* What a user of fmcd may rely on about the federations it serves,        *)
(* however joins of one federation race, fail or lose their callers: while *)
(* the process runs a federation once served is served, an answer to a     *)
(* join is true, and a federation that was joined is listed for good, so   *)
(* that every later start can serve it.                                    *)
(***************************************************************************)
CONSTANTS
  Join,        \* join requests
  Federation,
  HomeOf       \* the federation each request joins

VARIABLES
  running,
  served,  \* federations with a client
  listed,  \* those a start will load
  found,   \* requests answered with a federation that was served already
  joined   \* requests that joined theirs

serviceVars == <<running, served, listed, found, joined>>

Init ==
  /\ running = FALSE
  /\ served = {}
  /\ listed = {}
  /\ found = {}
  /\ joined = {}

Serve(f) ==
  /\ running
  /\ served' = served \cup {f}
  /\ UNCHANGED <<running, listed, found, joined>>

AnswerFound(j) ==
  /\ running
  /\ j \notin found \cup joined
  /\ HomeOf[j] \in served
  /\ found' = found \cup {j}
  /\ UNCHANGED <<running, served, listed, joined>>

AnswerJoined(j) ==
  /\ running
  /\ j \notin found \cup joined
  /\ HomeOf[j] \in served
  /\ listed' = listed \cup {HomeOf[j]}
  /\ joined' = joined \cup {j}
  /\ UNCHANGED <<running, served, found>>

\* Clients that cannot be opened are not served, and stay listed.
Start(S) ==
  /\ ~running
  /\ S \subseteq listed
  /\ running' = TRUE
  /\ served' = S
  /\ UNCHANGED <<listed, found, joined>>

Stop ==
  /\ running
  /\ running' = FALSE
  /\ served' = {}
  /\ UNCHANGED <<listed, found, joined>>

Next ==
  \/ \E f \in Federation : Serve(f)
  \/ \E j \in Join : AnswerFound(j) \/ AnswerJoined(j)
  \/ \E S \in SUBSET Federation : Start(S)
  \/ Stop

Spec == Init /\ [][Next]_serviceVars
=============================================================================
