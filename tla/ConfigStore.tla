----------------------------- MODULE ConfigStore -----------------------------
(***************************************************************************)
(* The configuration file of fmcd (src/config.rs) and how main makes the   *)
(* configuration of a run out of it: load_or_create reads the file, writes *)
(* a default one where it finds none it can read, draws a password where   *)
(* the file has none, and saves by writing a temporary file and renaming   *)
(* it.  The command line is laid over the result, in memory only.          *)
(*                                                                         *)
(* Of the settings in the file two are kept apart: the password, and the   *)
(* invite code, which stands for whatever an operator wrote by hand.  The  *)
(* n-th start of the process draws the password n.                         *)
(***************************************************************************)
EXTENDS Naturals

CONSTANTS
  Code,       \* invite codes, the ones that do not parse included
  Password,   \* passwords an operator chooses
  Unset,        \* no code, no password
  MaxStarts,  \* bound on the number of starts
  MaxChanges  \* bound on the changes to the file that the daemon does not make

ASSUME ConfigAssumption ==
  /\ Unset \notin Code
  /\ Unset \notin Password \cup Nat
  /\ MaxStarts \in Nat
  /\ MaxChanges \in Nat

VARIABLES
  phase,    \* where main is
  starts,   \* how often the process was started
  launch,   \* the command line of this start
  file,     \* fmcd.conf
  temp,     \* is there a temporary file beside it
  config,   \* the configuration in memory
  changes,  \* how often the file was changed or misread
  promised  \* the settings an operator may rely on: the ones written by hand and
            \* the ones a start went on with

configVars == <<phase, starts, launch, file, temp, config, changes, promised>>

Settings == [password : Password \cup Nat \cup {Unset}, invite : Code \cup {Unset}]
Launch   == [password : Password \cup {Unset}, invite : Code \cup {Unset}, noAuth : BOOLEAN]
Default  == [password |-> Unset, invite |-> Unset]

\* What the file system holds under the name of the file.
File     == [form : {"absent", "bad"}, settings : {Default}] \cup
            [form : {"good"}, settings : Settings]
Good(c)  == [form |-> "good", settings |-> c]
NoFile   == [form |-> "absent", settings |-> Default]

ConfigPhase == {"down", "load", "default", "defaultTemp", "check", "password",
                "passwordTemp", "loaded", "configured"}

-----------------------------------------------------------------------------
(* main, to the end of the overrides *)

Start(o) ==
  /\ phase = "down"
  /\ starts < MaxStarts
  /\ phase' = "load"
  /\ starts' = starts + 1
  /\ launch' = o
  /\ UNCHANGED <<file, temp, config, changes, promised>>

\* load_from_file, with what follows when the file is not there or not understood.
ReadFile ==
  /\ phase = "load"
  /\ IF file.form = "good"
       THEN phase' = "check" /\ config' = file.settings
       ELSE phase' = "default" /\ config' = Default
  /\ UNCHANGED <<starts, launch, file, temp, changes, promised>>

\* A good file that cannot be read counts as a corrupted one, too.
MisreadFile ==
  /\ phase = "load"
  /\ file.form = "good"
  /\ changes < MaxChanges
  /\ changes' = changes + 1
  /\ promised' = Default
  /\ phase' = "default"
  /\ config' = Default
  /\ UNCHANGED <<starts, launch, file, temp>>

\* Slip: the file itself is truncated and written.
WriteInPlace ==
  /\ \/ phase = "default"  /\ phase' = "defaultTemp"
     \/ phase = "password" /\ phase' = "passwordTemp"
  /\ file' = [form |-> "bad", settings |-> Default]
  /\ UNCHANGED <<starts, launch, temp, config, changes, promised>>

\* save_to_file, the first half.
WriteTemp ==
  /\ \/ phase = "default"  /\ phase' = "defaultTemp"
     \/ phase = "password" /\ phase' = "passwordTemp"
  /\ temp' = TRUE
  /\ UNCHANGED <<starts, launch, file, config, changes, promised>>

\* The second half, atomic on the file system.
Rename ==
  /\ \/ phase = "defaultTemp"  /\ phase' = "check"
     \/ phase = "passwordTemp" /\ phase' = "loaded"
  /\ file' = Good(config)
  /\ temp' = FALSE
  /\ UNCHANGED <<starts, launch, config, changes, promised>>

\* Writing or renaming fails: the start ends with the error.  Of the two only a
\* failed renaming takes the temporary file away.
WriteFails ==
  /\ phase \in {"default", "defaultTemp", "password", "passwordTemp"}
  /\ temp' = (temp /\ phase \in {"default", "password"})
  /\ phase' = "down"
  /\ UNCHANGED <<starts, launch, file, config, changes, promised>>

\* Slip: a password is drawn only for a file that was just created.
DrawWhenCreated ==
  /\ phase = "check"
  /\ IF config = Default
       THEN phase' = "password" /\ config' = [config EXCEPT !.password = starts]
       ELSE phase' = "loaded" /\ UNCHANGED config
  /\ UNCHANGED <<starts, launch, file, temp, changes, promised>>

DrawPassword ==
  /\ phase = "check"
  /\ IF config.password = Unset
       THEN phase' = "password" /\ config' = [config EXCEPT !.password = starts]
       ELSE phase' = "loaded" /\ UNCHANGED config
  /\ UNCHANGED <<starts, launch, file, temp, changes, promised>>

\* The overrides of main.
Override ==
  /\ phase = "loaded"
  /\ phase' = "configured"
  /\ promised' = config
  /\ config' =
       [password |-> IF launch.noAuth THEN Unset
                     ELSE IF launch.password # Unset THEN launch.password
                     ELSE config.password,
        invite   |-> IF launch.invite # Unset THEN launch.invite ELSE config.invite]
  /\ UNCHANGED <<starts, launch, file, temp, changes>>

\* The file is written by hand, or damaged, while the daemon does not write it.
ChangeFile(c) ==
  /\ phase \in {"down", "serving"}
  /\ changes < MaxChanges
  /\ changes' = changes + 1
  /\ file' = c
  /\ promised' = c.settings
  /\ UNCHANGED <<phase, starts, launch, temp, config>>

ConfigInit ==
  /\ phase = "down"
  /\ starts = 0
  /\ launch = [password |-> Unset, invite |-> Unset, noAuth |-> FALSE]
  /\ file = NoFile
  /\ temp = FALSE
  /\ config = Default
  /\ changes = 0
  /\ promised = Default

ConfigStep ==
  \/ ReadFile
  \/ MisreadFile
  \/ WriteTemp
  \/ Rename
  \/ WriteFails
  \/ DrawPassword
  \/ Override

-----------------------------------------------------------------------------
(* What a configuration file must keep true *)

\* Whatever start is cut short wherever it is, the file keeps what an operator wrote
\* into it and the password of an earlier start (README.md:38, config.rs:143).
PromiseIsKept ==
  \A s \in {"password", "invite"} :
     promised[s] # Unset => file.form = "good" /\ file.settings[s] = promised[s]
=============================================================================
