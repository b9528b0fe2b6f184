------------------------ MODULE SettlementReporting ------------------------
(***************************************************************************)
(* What a user of fmcd may rely on about the claims of incoming payments,  *)
(* whatever the lifecycle manager does inside: an operation that is        *)
(* watched is reported at most once, only after its federation settled it, *)
(* and is let go only after it was reported or when it is late.            *)
(***************************************************************************)
CONSTANT Op

VARIABLES
  settled,   \* operations whose federation issued the ecash
  watching,  \* operations the daemon has taken charge of
  late,      \* watched operations past their monitoring time
  reported   \* operations announced since the daemon started

absVars == <<settled, watching, late, reported>>

Init ==
  /\ settled = {}
  /\ watching = {}
  /\ late = {}
  /\ reported = {}

Settle(o) ==
  /\ settled' = settled \cup {o}
  /\ UNCHANGED <<watching, late, reported>>

\* A registration takes charge of one operation, a recovery of many; a slow
\* registration may be late from the start.
Watch(S, T) ==
  /\ S \cap reported = {}
  /\ T \subseteq S
  /\ watching' = watching \cup S
  /\ late' = late \cup T
  /\ UNCHANGED <<settled, reported>>

GrowLate(S) ==
  /\ S \subseteq watching
  /\ late' = late \cup S
  /\ UNCHANGED <<settled, watching, reported>>

Report(o) ==
  /\ o \in watching
  /\ o \in settled
  /\ o \notin reported
  /\ reported' = reported \cup {o}
  /\ UNCHANGED <<settled, watching, late>>

LetGo(S) ==
  /\ S \subseteq watching \cap (reported \cup late)
  /\ watching' = watching \ S
  /\ late' = late \ S
  /\ UNCHANGED <<settled, reported>>

\* A crash forgets everything but what the federations know.
Forget ==
  /\ watching' = {}
  /\ late' = {}
  /\ reported' = {}
  /\ UNCHANGED settled

Next ==
  \/ \E o \in Op : Settle(o) \/ Report(o)
  \/ \E S, T \in SUBSET Op : Watch(S, T)
  \/ \E S \in SUBSET Op : GrowLate(S) \/ LetGo(S)
  \/ Forget

Spec == Init /\ [][Next]_absVars
=============================================================================
