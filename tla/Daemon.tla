------------------------------- MODULE Daemon -------------------------------
(***************************************************************************)
(* A run of fmcd from the command line to the server (src/bin/main.rs):    *)
(* the configuration of ConfigStore, the seed of all clients, the registry *)
(* of MultiMint loaded from disk, the federation of the configured invite  *)
(* code joined, and the server, which is not started without a client.     *)
(* Only then do requests join federations.                                 *)
(*                                                                         *)
(* Any start may be cut short, and an error in main ends it as a crash     *)
(* does: nothing is undone.                                                *)
(***************************************************************************)
EXTENDS MultiMint, ConfigStore

CONSTANTS
  Launches,  \* the command lines the process is started with
  Files,     \* what somebody else leaves as the configuration file
  Words      \* the mnemonics the environment may give, Nil for none

ASSUME DaemonAssumption ==
  /\ Invite \subseteq Code
  /\ Launches \subseteq Launch
  /\ Files \subseteq File
  /\ Words \cap Nat = {}
  /\ Nil \in Words

VARIABLES
  seed,      \* the client secret on disk, or Nil
  mnemonic,  \* the one in memory
  seedOf,    \* the secret each client database was initialised with, or Nil
  boot       \* the join that main itself waits for, or Nil

daemonVars == <<vars, configVars, seed, mnemonic, seedOf, boot>>

Phase == ConfigPhase \cup {"storing", "seeded", "opened", "joining", "serving"}
Seed  == Nat \cup Words

-----------------------------------------------------------------------------
(* load_or_generate_mnemonic *)

\* Slip: the secret is drawn and used, but not stored.
ChooseAndUse ==
  /\ phase = "configured"
  /\ IF seed # Nil
       THEN mnemonic' = seed /\ phase' = "seeded"
       ELSE phase' = "seeded" /\ \E w \in Words : mnemonic' = IF w = Nil THEN starts ELSE w
  /\ UNCHANGED <<vars, starts, launch, file, temp, config, changes, promised, seed, seedOf, boot>>

ChooseSeed ==
  /\ phase = "configured"
  /\ IF seed # Nil
       THEN mnemonic' = seed /\ phase' = "seeded"
       ELSE phase' = "storing" /\ \E w \in Words : mnemonic' = IF w = Nil THEN starts ELSE w
  /\ UNCHANGED <<vars, starts, launch, file, temp, config, changes, promised, seed, seedOf, boot>>

\* The client library stores a secret only where there is none.
StoreSeed ==
  /\ phase = "storing"
  /\ seed' = mnemonic
  /\ phase' = "seeded"
  /\ UNCHANGED <<vars, starts, launch, file, temp, config, changes, promised, mnemonic, seedOf, boot>>

-----------------------------------------------------------------------------
(* The registry *)

\* Databases that a step of the registry initialises take the secret in memory.
DeriveSecrets ==
  seedOf' = [f \in Federation |-> IF f \in initialized' \ initialized THEN mnemonic ELSE seedOf[f]]

OpenRegistry(L) ==
  /\ phase = "seeded"
  /\ Load(L)
  /\ DeriveSecrets
  /\ phase' = "opened"
  /\ UNCHANGED <<starts, launch, file, temp, config, changes, promised, seed, mnemonic, boot>>

\* main calls join_federation with an invite code that parses, and waits for it.
JoinConfigured(j) ==
  /\ phase = "opened"
  /\ config.invite = InviteOf[j]
  /\ LookUp(j)
  /\ boot' = j
  /\ phase' = "joining"
  /\ UNCHANGED <<starts, launch, file, temp, config, changes, promised, seed, mnemonic, seedOf>>

\* Slip: the daemon serves whatever became of the join it was configured for.
ServeAnyway ==
  /\ \/ phase = "opened" /\ config.invite \notin Invite
     \/ phase = "joining" /\ stage[boot] \in {"known", "joined", "failed"}
  /\ phase' = "serving"
  /\ UNCHANGED <<vars, starts, launch, file, temp, config, changes, promised, seed, mnemonic, seedOf, boot>>

\* The server starts once there is a client; an invite code that does not parse is
\* skipped, a join that fails ends the start.
Serve ==
  /\ \/ phase = "opened" /\ config.invite \notin Invite
     \/ phase = "joining" /\ stage[boot] \in {"known", "joined"}
  /\ Registered # {}
  /\ phase' = "serving"
  /\ UNCHANGED <<vars, starts, launch, file, temp, config, changes, promised, seed, mnemonic, seedOf, boot>>

\* A request of the server begins to join.
Request(j) ==
  /\ phase = "serving"
  /\ LookUp(j)
  /\ UNCHANGED <<configVars, seed, mnemonic, seedOf, boot>>

\* The joins underway, the one of main and the ones of requests.  Nobody drops the former.
JoinStep(j) ==
  /\ \/ Build(j)
     \/ Open(j)
     \/ JoinFederation(j)
     \/ BuildFails(j)
     \/ Insert(j)
     \/ Save(j)
     \/ SaveFails(j)
     \/ j # boot /\ DropRequest(j)
  /\ DeriveSecrets
  /\ UNCHANGED <<configVars, seed, mnemonic, boot>>

-----------------------------------------------------------------------------
\* The process is killed, or main returns an error: early, and with the registry open.
Kill ==
  /\ phase \notin {"down", "opened", "joining", "serving"}
  /\ phase' = "down"
  /\ UNCHANGED <<vars, starts, launch, file, temp, config, changes, promised, seed, mnemonic, seedOf, boot>>

Stop ==
  /\ phase \in {"opened", "joining", "serving"}
  /\ Crash
  /\ phase' = "down"
  /\ boot' = Nil
  /\ UNCHANGED <<starts, launch, file, temp, config, changes, promised, seed, mnemonic, seedOf>>

Configure ==
  /\ \/ \E o \in Launches : Start(o)
     \/ ConfigStep
     \/ \E c \in Files : ChangeFile(c)
  /\ UNCHANGED <<vars, seed, mnemonic, seedOf, boot>>

DaemonInit ==
  /\ Init
  /\ ConfigInit
  /\ seed = Nil
  /\ mnemonic = Nil
  /\ seedOf = [f \in Federation |-> Nil]
  /\ boot = Nil

DaemonNext ==
  \/ Configure
  \/ ChooseSeed
  \/ StoreSeed
  \/ \E L \in SUBSET Federation : OpenRegistry(L)
  \/ \E j \in Join : JoinConfigured(j) \/ Request(j) \/ JoinStep(j)
  \/ Serve
  \/ Kill
  \/ Stop

DaemonSpec == DaemonInit /\ [][DaemonNext]_daemonVars

-----------------------------------------------------------------------------
(* What a run of the daemon must keep true *)

\* Every variable holds a value of its kind, and the registry is open in the phases
\* that use it and in no other.
DaemonTypeOK ==
  /\ TypeOK
  /\ phase \in Phase
  /\ starts \in Nat /\ changes \in Nat
  /\ launch \in Launch
  /\ file \in File
  /\ temp \in BOOLEAN
  /\ config \in Settings
  /\ promised \in Settings
  /\ seed \in Seed /\ mnemonic \in Seed
  /\ seedOf \in [Federation -> Seed]
  /\ boot \in Join \cup {Nil}
  /\ up <=> phase \in {"opened", "joining", "serving"}

\* However often the process dies between drawing the secret, storing it, initialising
\* a client database with it and listing the federation, every federation that is
\* listed, served or has a database has one with the secret on disk, from which its
\* money can be derived again.
OneSeed ==
  \A f \in Saved \cup Registered \cup initialized : seedOf[f] # Nil /\ seedOf[f] = seed

\* A daemon serves as it was told to: without a password only if that was asked for
\* (main.rs:83), with a client (main.rs:171), and with the federation whose invite
\* code it was configured with; no join, failed or dropped, of main or of a request,
\* and no start that could not load everything is in the way of it.
ServesAsConfigured ==
  phase = "serving" =>
    /\ config.password = Unset <=> launch.noAuth
    /\ Registered # {}
    /\ config.invite \in Invite => FedOf[config.invite] \in Registered
=============================================================================
