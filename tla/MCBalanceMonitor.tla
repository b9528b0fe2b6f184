-------------------------- MODULE MCBalanceMonitor --------------------------
(* Instances of BalanceMonitor for TLC. *)
EXTENDS BalanceMonitor

CONSTANTS monitor, request, hook, stream, fedA, initiated, succeeded

\* Balance changes of one federation, which the log leaves out, and the two events of a
\* request that pays.
BalanceEvents   == [federation : Federation, msat : 0..MaxBalance]
ContentOfEvents == BalanceEvents \cup {initiated, succeeded}
StoryOfRequest  == <<initiated, succeeded>>

\* The endpoint wants balances and what has succeeded, the stream passes on payments.
WantsOf == [x \in {hook, stream} |-> IF x = hook THEN BalanceEvents \cup {succeeded}
                                     ELSE {initiated, succeeded}]
=============================================================================
