------------------------------ MODULE MultiMint ------------------------------
(***************************************************************************)
(* The federation registry of fmcd (src/core/multimint): clients in        *)
(* memory, and two kinds of records on disk, the database of each client   *)
(* and the list of the federations' invite codes from which the clients    *)
(* are loaded when the process starts.                                     *)
(*                                                                         *)
(* join_federation runs register_new on a clone of the registry, so joins  *)
(* run concurrently and interleave at every await.  Key derivation, the    *)
(* network and the events that mirror the answers are left out.            *)
(***************************************************************************)
EXTENDS Integers, FiniteSets

CONSTANTS
  Join,       \* join requests
  Federation, \* federation ids
  Invite,     \* invite codes
  InviteOf,   \* the invite code of each request
  FedOf,      \* the federation of each invite code
  Nil,        \* no invite code
  MaxCrashes  \* bound on the number of crashes

ASSUME MultiMintAssumption ==
  /\ InviteOf \in [Join -> Invite]
  /\ FedOf \in [Invite -> Federation]
  /\ Nil \notin Invite
  /\ MaxCrashes \in Nat

\* Where a request is in register_new, or how it ended: "known" found the
\* federation registered, "joined" went all the way.
Stage == {"none", "building", "opening", "joining", "built", "inserted",
          "known", "joined", "failed", "gone"}

VARIABLES
  up,           \* does the process run
  clients,      \* per federation, the invite code of its client, or Nil
  initialized,  \* federations whose client database is initialised
  saved,        \* per federation, the invite code on disk, or Nil
  stage,
  crashes

vars == <<up, clients, initialized, saved, stage, crashes>>

Fed(j)        == FedOf[InviteOf[j]]
Registered    == {f \in Federation : clients[f] # Nil}
Saved         == {f \in Federation : saved[f] # Nil}
Enter(j, s)   == stage' = [stage EXCEPT ![j] = s]

-----------------------------------------------------------------------------
(* register_new *)

\* Under the lock, which is released before the client is built.
LookUp(j) ==
  /\ up
  /\ stage[j] = "none"
  /\ Enter(j, IF Fed(j) \in Registered THEN "known" ELSE "building")
  /\ UNCHANGED <<up, clients, initialized, saved, crashes>>

\* Slip: the configuration is saved before the client is built.
BuildSavesFirst(j) ==
  /\ stage[j] = "building"
  /\ saved' = [saved EXCEPT ![Fed(j)] = InviteOf[j]]
  /\ Enter(j, IF Fed(j) \in initialized THEN "opening" ELSE "joining")
  /\ UNCHANGED <<up, clients, initialized, crashes>>

\* build: an initialised database is opened, another one is joined to the federation.
Build(j) ==
  /\ stage[j] = "building"
  /\ Enter(j, IF Fed(j) \in initialized THEN "opening" ELSE "joining")
  /\ UNCHANGED <<up, clients, initialized, saved, crashes>>

Open(j) ==
  /\ stage[j] = "opening"
  /\ Enter(j, "built")
  /\ UNCHANGED <<up, clients, initialized, saved, crashes>>

\* The client refuses to join a database that was initialised in the meantime.
JoinFederation(j) ==
  /\ stage[j] = "joining"
  /\ Fed(j) \notin initialized
  /\ initialized' = initialized \cup {Fed(j)}
  /\ Enter(j, "built")
  /\ UNCHANGED <<up, clients, saved, crashes>>

\* No configuration, no network, a database in use, or a wrong federation id.
BuildFails(j) ==
  /\ stage[j] \in {"building", "opening", "joining"}
  /\ Enter(j, "failed")
  /\ UNCHANGED <<up, clients, initialized, saved, crashes>>

\* Slip: the id is kept where the configuration belongs.
InsertId(j) ==
  /\ stage[j] = "built"
  /\ clients' = [clients EXCEPT ![Fed(j)] = Fed(j)]
  /\ Enter(j, "inserted")
  /\ UNCHANGED <<up, initialized, saved, crashes>>

Insert(j) ==
  /\ stage[j] = "built"
  /\ clients' = [clients EXCEPT ![Fed(j)] = InviteOf[j]]
  /\ Enter(j, "inserted")
  /\ UNCHANGED <<up, initialized, saved, crashes>>

\* save_config commits.
Save(j) ==
  /\ stage[j] = "inserted"
  /\ saved' = [saved EXCEPT ![Fed(j)] = InviteOf[j]]
  /\ Enter(j, "joined")
  /\ UNCHANGED <<up, clients, initialized, crashes>>

\* Slip: a failed commit is not noticed.
SaveFailureIgnored(j) ==
  /\ stage[j] = "inserted"
  /\ Enter(j, "joined")
  /\ UNCHANGED <<up, clients, initialized, saved, crashes>>

\* Slip: a client whose configuration cannot be saved is taken out again.
SaveFailsRollsBack(j) ==
  /\ stage[j] = "inserted"
  /\ clients' = [clients EXCEPT ![Fed(j)] = Nil]
  /\ Enter(j, "failed")
  /\ UNCHANGED <<up, initialized, saved, crashes>>

\* The commit fails: the error goes to the caller, the client stays.
SaveFails(j) ==
  /\ stage[j] = "inserted"
  /\ Enter(j, "failed")
  /\ UNCHANGED <<up, clients, initialized, saved, crashes>>

\* The caller goes away and the server drops the handler at an await.
DropRequest(j) ==
  /\ stage[j] \in {"building", "opening", "joining", "built", "inserted"}
  /\ Enter(j, "gone")
  /\ UNCHANGED <<up, clients, initialized, saved, crashes>>

-----------------------------------------------------------------------------
Crash ==
  /\ up
  /\ crashes < MaxCrashes
  /\ crashes' = crashes + 1
  /\ up' = FALSE
  /\ clients' = [f \in Federation |-> Nil]
  /\ stage' = [j \in Join |->
                 IF stage[j] \in {"none", "known", "joined", "failed"} THEN stage[j] ELSE "gone"]
  /\ UNCHANGED <<initialized, saved>>

\* new and load_clients: every saved configuration is built; a client that cannot
\* be opened is skipped.  A database that is not initialised is joined again.
Load(L) ==
  /\ ~up
  /\ L \subseteq Saved
  /\ up' = TRUE
  /\ clients' = [f \in Federation |-> IF f \in L THEN saved[f] ELSE Nil]
  /\ initialized' = initialized \cup L
  /\ UNCHANGED <<saved, stage, crashes>>

Init ==
  /\ up = FALSE
  /\ clients = [f \in Federation |-> Nil]
  /\ initialized = {}
  /\ saved = [f \in Federation |-> Nil]
  /\ stage = [j \in Join |-> "none"]
  /\ crashes = 0

Next ==
  \/ \E j \in Join : \/ LookUp(j)
                     \/ Build(j)
                     \/ Open(j)
                     \/ JoinFederation(j)
                     \/ BuildFails(j)
                     \/ Insert(j)
                     \/ Save(j)
                     \/ SaveFails(j)
                     \/ DropRequest(j)
  \/ Crash
  \/ \E L \in SUBSET Federation : Load(L)

Spec == Init /\ [][Next]_vars

-----------------------------------------------------------------------------
(* What the registry must keep true *)

\* Every variable holds a value of its kind.
TypeOK ==
  /\ up \in BOOLEAN
  /\ clients \in [Federation -> Invite \cup {Nil}]
  /\ initialized \subseteq Federation
  /\ saved \in [Federation -> Invite \cup {Nil}]
  /\ stage \in [Join -> Stage]
  /\ crashes \in Nat

\* A federation that is listed on disk or served from memory has an initialised
\* database, so that it can be opened without its invite code's peers.
OnDiskFirst ==
  Saved \cup Registered \subseteq initialized

\* A join that went all the way survives every crash.
JoinedIsDurable ==
  \A j \in Join : stage[j] = "joined" => Fed(j) \in Saved

\* While the process runs, a join answers only for a federation that is served, and
\* no other join, failed or not, takes a served federation away again.
AnswerStaysTrue ==
  [][up /\ up' =>
       /\ Registered \subseteq Registered'
       /\ \A j \in Join : stage[j] # stage'[j] /\ stage'[j] \in {"known", "joined"} =>
            Fed(j) \in Registered']_vars

Service == INSTANCE ServedFederations WITH
  HomeOf  <- [j \in Join |-> Fed(j)],
  running <- up,
  served  <- Registered,
  listed  <- Saved,
  found   <- {j \in Join : stage[j] = "known"},
  joined  <- {j \in Join : stage[j] = "joined"}

\* The registry keeps what ServedFederations promises, though a join builds its client
\* outside the lock, serves it before it is saved, and may end in between.
ImplementsService == Service!Spec

\* The documented update (multimint/mod.rs:184), which the code does not make: a
\* join that is answered leaves its own invite code with the client.
UpdatesExisting ==
  [][\A j \in Join : stage[j] # stage'[j] /\ stage'[j] \in {"known", "joined"} =>
       clients'[Fed(j)] = InviteOf[j]]_vars
=============================================================================
