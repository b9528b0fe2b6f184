---------------------------- MODULE DaemonProofs ----------------------------
(***************************************************************************)
(* Theorems about the federation registry, for any joins and federations,  *)
(* and about the daemon that runs it, for any command lines and files, and *)
(* any number of starts, changes and crashes.                              *)
(***************************************************************************)
EXTENDS Daemon, TLAPS

-----------------------------------------------------------------------------
(* The registry *)

\* The stages in which a request is inside register_new.
Inside == {"building", "opening", "joining", "built", "inserted"}

\* Requests are inside register_new only while the process runs; the further one
\* has come, the more of the registry already knows its federation.
RequestInv ==
  \A j \in Join :
    /\ stage[j] \in Inside => up
    /\ stage[j] \in {"opening", "built", "inserted", "joined"} => Fed(j) \in initialized
    /\ stage[j] = "inserted" => Fed(j) \in Registered

RegistryInv == TypeOK /\ OnDiskFirst /\ JoinedIsDurable /\ RequestInv

\* The federation of a request is one.
LEMMA FedType ==
  ASSUME NEW j \in Join
  PROVE  /\ Fed(j) \in Federation
         /\ InviteOf[j] \in Invite
         /\ InviteOf[j] # Nil
BY MultiMintAssumption DEF Fed

\* Nothing is registered, saved or under way at first.
LEMMA InitRegistry == Init => RegistryInv
<1>. SUFFICES ASSUME Init PROVE RegistryInv
  OBVIOUS
<1>1. TypeOK
  BY DEF Init, TypeOK, Stage
<1>2. Saved = {} /\ Registered = {}
  BY DEF Init, Saved, Registered
<1>3. JoinedIsDurable /\ RequestInv
  BY DEF Init, JoinedIsDurable, RequestInv, Inside
<1>. QED
  BY <1>1, <1>2, <1>3 DEF RegistryInv, OnDiskFirst

\* No step of a request, crash or load breaks the invariant.
LEMMA NextRegistry == RegistryInv /\ [Next]_vars => RegistryInv'
<1>. SUFFICES ASSUME RegistryInv, [Next]_vars
              PROVE  RegistryInv'
  OBVIOUS
<1>. USE DEF RegistryInv, TypeOK, OnDiskFirst, JoinedIsDurable, RequestInv,
             Saved, Registered, Inside
<1>1. ASSUME NEW j \in Join, LookUp(j) PROVE RegistryInv'
  BY <1>1, FedType DEF LookUp, Enter, Stage, Fed
<1>2. ASSUME NEW j \in Join, Build(j) PROVE RegistryInv'
  BY <1>2, FedType DEF Build, Enter, Stage, Fed
<1>3. ASSUME NEW j \in Join, Open(j) PROVE RegistryInv'
  BY <1>3, FedType DEF Open, Enter, Stage, Fed
<1>4. ASSUME NEW j \in Join, JoinFederation(j) PROVE RegistryInv'
  BY <1>4, FedType DEF JoinFederation, Enter, Stage, Fed
<1>5. ASSUME NEW j \in Join, BuildFails(j) PROVE RegistryInv'
  BY <1>5, FedType DEF BuildFails, Enter, Stage, Fed
<1>6. ASSUME NEW j \in Join, Insert(j) PROVE RegistryInv'
  BY <1>6, FedType DEF Insert, Enter, Stage, Fed
<1>7. ASSUME NEW j \in Join, Save(j) PROVE RegistryInv'
  BY <1>7, FedType DEF Save, Enter, Stage, Fed
<1>8. ASSUME NEW j \in Join, SaveFails(j) PROVE RegistryInv'
  BY <1>8, FedType DEF SaveFails, Enter, Stage, Fed
<1>9. ASSUME NEW j \in Join, DropRequest(j) PROVE RegistryInv'
  BY <1>9, FedType DEF DropRequest, Enter, Stage, Fed
<1>10. CASE Crash
  <2>1. TypeOK'
    <3>1. stage' \in [Join -> Stage]
      BY <1>10 DEF Crash, Stage
    <3>2. clients' \in [Federation -> Invite \cup {Nil}] /\ crashes' \in Nat
      BY <1>10 DEF Crash
    <3>. QED
      BY <1>10, <3>1, <3>2 DEF Crash
  <2>2. Registered' = {} /\ Saved' = Saved
    BY <1>10 DEF Crash
  <2>3. \A j \in Join : stage'[j] \notin Inside /\ (stage'[j] = "joined" => stage[j] = "joined")
    BY <1>10 DEF Crash
  <2>4. OnDiskFirst'
    BY <1>10, <2>2 DEF Crash
  <2>5. JoinedIsDurable'
    BY <2>2, <2>3 DEF Fed
  <2>6. RequestInv'
    BY <1>10, <2>3 DEF Crash, Fed
  <2>. QED
    BY <2>1, <2>4, <2>5, <2>6
<1>11. ASSUME NEW L \in SUBSET Federation, Load(L) PROVE RegistryInv'
  BY <1>11 DEF Load, Fed
<1>12. CASE UNCHANGED vars
  BY <1>12 DEF vars, Fed
<1>. QED
  BY <1>1, <1>2, <1>3, <1>4, <1>5, <1>6, <1>7, <1>8, <1>9, <1>10, <1>11, <1>12 DEF Next

\* The registry invariant holds in every reachable state.
THEOREM RegistryInvariance == Spec => []RegistryInv
BY InitRegistry, NextRegistry, PTL DEF Spec

\* A federation that is listed on disk or served from memory has an initialised
\* database: whatever joins, crashes and restarts do, it can be opened.
THEOREM DatabaseFirst == Spec => []OnDiskFirst
<1>1. RegistryInv => OnDiskFirst
  BY DEF RegistryInv
<1>. QED
  BY <1>1, RegistryInvariance, PTL

\* A join answered after its configuration was saved is on disk for good.
THEOREM JoinsAreDurable == Spec => []JoinedIsDurable
<1>1. RegistryInv => JoinedIsDurable
  BY DEF RegistryInv
<1>. QED
  BY <1>1, RegistryInvariance, PTL

\* One step answers a join only for a federation that is served, and stops serving
\* none.
LEMMA StepKeepsAnswers ==
  ASSUME RegistryInv, Next, up, up'
  PROVE  /\ Registered \subseteq Registered'
         /\ \A j \in Join : stage[j] # stage'[j] /\ stage'[j] \in {"known", "joined"} =>
              Fed(j) \in Registered'
<1>. USE DEF RegistryInv, TypeOK, RequestInv, Registered
<1>1. ASSUME NEW j \in Join, LookUp(j)
      PROVE  /\ clients' = clients
             /\ \A k \in Join : stage[k] # stage'[k] /\ stage'[k] \in {"known", "joined"} =>
                  Fed(k) \in Registered
  BY <1>1 DEF LookUp, Enter
<1>2. ASSUME NEW j \in Join, Insert(j)
      PROVE  /\ Registered \subseteq Registered'
             /\ \A k \in Join : stage[k] # stage'[k] => stage'[k] = "inserted"
  BY <1>2, FedType DEF Insert, Enter
<1>3. ASSUME NEW j \in Join, Save(j)
      PROVE  /\ clients' = clients
             /\ \A k \in Join : stage[k] # stage'[k] => Fed(k) \in Registered
  BY <1>3 DEF Save, Enter
<1>4. ASSUME NEW j \in Join,
             \/ Build(j) \/ Open(j) \/ JoinFederation(j) \/ BuildFails(j)
             \/ SaveFails(j) \/ DropRequest(j)
      PROVE  /\ clients' = clients
             /\ \A k \in Join : stage[k] # stage'[k] => stage'[k] \notin {"known", "joined"}
  BY <1>4 DEF Build, Open, JoinFederation, BuildFails, SaveFails, DropRequest, Enter
<1>5. ~Crash /\ \A L \in SUBSET Federation : ~Load(L)
  BY DEF Crash, Load
<1>. QED
  BY <1>1, <1>2, <1>3, <1>4, <1>5 DEF Next, Fed

\* While the process runs no join takes a federation away from another, and an
\* answer names only federations that are served.
THEOREM AnswersStayTrue == Spec => AnswerStaysTrue
<1>1. ASSUME RegistryInv, [Next]_vars
      PROVE  [up /\ up' =>
                /\ Registered \subseteq Registered'
                /\ \A j \in Join : stage[j] # stage'[j] /\ stage'[j] \in {"known", "joined"} =>
                     Fed(j) \in Registered']_vars
  BY <1>1, StepKeepsAnswers
<1>. QED
  BY <1>1, RegistryInvariance, PTL DEF Spec, AnswerStaysTrue

-----------------------------------------------------------------------------
(* The registry keeps what ServedFederations promises. *)

\* A step in which no client goes and no request is answered changes nothing of the promise,
\* or serves one more federation.
LEMMA StepServes ==
  ASSUME RegistryInv, [Next]_vars
  PROVE  [Service!Next]_(Service!serviceVars)
<1>. DEFINE Known  == {j \in Join : stage[j] = "known"}
            Joined == {j \in Join : stage[j] = "joined"}
            Home   == [j \in Join |-> Fed(j)]
<1>. USE DEF RegistryInv, TypeOK
<1>1. ASSUME NEW j \in Join, LookUp(j)
      PROVE  Service!AnswerFound(j) \/ UNCHANGED Service!serviceVars
  <2>1. /\ up /\ stage[j] = "none" /\ UNCHANGED <<up, Registered, Saved>>
        /\ stage' = [stage EXCEPT ![j] = IF Fed(j) \in Registered THEN "known" ELSE "building"]
    BY <1>1 DEF LookUp, Enter, Registered, Saved
  <2>2. Joined' = Joined
    BY <2>1
  <2>3. CASE Fed(j) \in Registered
    <3>1. Known' = Known \cup {j} /\ j \notin Known \cup Joined
      BY <2>1, <2>3
    <3>. QED
      BY <2>1, <2>2, <2>3, <3>1 DEF Service!AnswerFound
  <2>4. CASE Fed(j) \notin Registered
    <3>1. Known' = Known
      BY <2>1, <2>4
    <3>. QED
      BY <2>1, <2>2, <3>1 DEF Service!serviceVars
  <2>. QED
    BY <2>3, <2>4
<1>2. ASSUME NEW j \in Join, Insert(j)
      PROVE  Service!Serve(Fed(j))
  <2>1. /\ up /\ UNCHANGED <<up, Saved>> /\ stage' = [stage EXCEPT ![j] = "inserted"]
        /\ stage[j] = "built"
        /\ clients' = [clients EXCEPT ![Fed(j)] = InviteOf[j]]
    BY <1>2 DEF Insert, Enter, Saved, RequestInv, Inside
  <2>2. Known' = Known /\ Joined' = Joined
    BY <2>1
  <2>3. Registered' = Registered \cup {Fed(j)}
    BY <2>1, FedType DEF Registered
  <2>. QED
    BY <2>1, <2>2, <2>3 DEF Service!Serve
<1>3. ASSUME NEW j \in Join, Save(j)
      PROVE  Service!AnswerJoined(j)
  <2>1. /\ up /\ Fed(j) \in Registered /\ UNCHANGED <<up, Registered>>
        /\ stage[j] = "inserted" /\ stage' = [stage EXCEPT ![j] = "joined"]
        /\ saved' = [saved EXCEPT ![Fed(j)] = InviteOf[j]]
    BY <1>3 DEF Save, Enter, RequestInv, Inside, Registered
  <2>2. Known' = Known /\ Joined' = Joined \cup {j} /\ j \notin Known \cup Joined
    BY <2>1
  <2>3. Saved' = Saved \cup {Fed(j)}
    BY <2>1, FedType DEF Saved
  <2>. QED
    BY <2>1, <2>2, <2>3 DEF Service!AnswerJoined
<1>4. ASSUME NEW j \in Join,
             \/ Build(j) \/ Open(j) \/ JoinFederation(j) \/ BuildFails(j)
             \/ SaveFails(j) \/ DropRequest(j)
      PROVE  UNCHANGED Service!serviceVars
  <2>1. /\ UNCHANGED <<up, Registered, Saved>>
        /\ \E s \in Stage \ {"known", "joined"} : stage' = [stage EXCEPT ![j] = s]
        /\ stage[j] \in Inside
    BY <1>4 DEF Build, Open, JoinFederation, BuildFails, SaveFails, DropRequest, Enter, Stage,
                Registered, Saved, Inside
  <2>2. Known' = Known /\ Joined' = Joined
    BY <2>1 DEF Inside
  <2>. QED
    BY <2>1, <2>2 DEF Service!serviceVars
<1>5. CASE Crash
  <2>1. up /\ ~up' /\ Registered' = {} /\ Saved' = Saved
    BY <1>5 DEF Crash, Registered, Saved
  <2>2. Known' = Known /\ Joined' = Joined
    BY <1>5 DEF Crash
  <2>3. Service!Stop
    BY <1>5, <2>1, <2>2 DEF Crash, Service!Stop
  <2>. QED
    BY <2>3 DEF Service!Next
<1>6. ASSUME NEW L \in SUBSET Federation, Load(L)
      PROVE  Service!Start(L)
  <2>1. /\ ~up /\ up' /\ up' = TRUE /\ L \subseteq Saved /\ UNCHANGED <<Saved, stage>>
        /\ clients' = [f \in Federation |-> IF f \in L THEN saved[f] ELSE Nil]
    BY <1>6 DEF Load, Saved
  <2>2. Registered' = L
    BY <2>1 DEF Registered, Saved
  <2>. QED
    BY <2>1, <2>2 DEF Service!Start
<1>7. CASE UNCHANGED vars
  BY <1>7 DEF vars, Service!serviceVars, Registered, Saved
<1>. QED
  BY <1>1, <1>2, <1>3, <1>4, <1>5, <1>6, <1>7, FedType DEF Next, Service!Next

\* The registry keeps what ServedFederations promises: while the process runs what is
\* served stays served, answers are true, and a federation once joined is listed for good,
\* though a join builds its client outside the lock, serves it before it is saved, and may
\* end in between.
THEOREM RegistryServes == Spec => ImplementsService
<1>1. Init => Service!Init
  BY DEF Init, Service!Init, Registered, Saved
<1>2. RegistryInv /\ [Next]_vars => [Service!Next]_(Service!serviceVars)
  BY StepServes
<1>. QED
  BY <1>1, <1>2, RegistryInvariance, PTL DEF Spec, ImplementsService, Service!Spec

-----------------------------------------------------------------------------
(* The daemon runs the registry as MultiMint describes it. *)

\* The phases in which the registry is open, in which the seed is in use, and in which
\* the command line has been laid over the configuration.
Running    == {"opened", "joining", "serving"}
SeedInUse  == Running \cup {"seeded"}
Configured == SeedInUse \cup {"configured", "storing"}

\* What main and the server do to the registry are steps of the registry.
LEMMA StepsTheRegistry ==
  ASSUME [DaemonNext]_daemonVars
  PROVE  [Next]_vars
<1>1. CASE UNCHANGED daemonVars
  BY <1>1 DEF daemonVars, vars
<1>2. CASE Configure \/ ChooseSeed \/ StoreSeed \/ Serve \/ Kill
  BY <1>2 DEF Configure, ChooseSeed, StoreSeed, Serve, Kill
<1>3. ASSUME NEW L \in SUBSET Federation, OpenRegistry(L) PROVE Next
  BY <1>3 DEF OpenRegistry, Next
<1>4. ASSUME NEW j \in Join, JoinConfigured(j) \/ Request(j) \/ JoinStep(j) PROVE Next
  BY <1>4 DEF JoinConfigured, Request, JoinStep, Next
<1>5. CASE Stop
  BY <1>5 DEF Stop, Next
<1>. QED
  BY <1>1, <1>2, <1>3, <1>4, <1>5 DEF DaemonNext

\* A run of the daemon is a run of the registry: what is proved of joins in any order is
\* true of the join of main and those of requests.
THEOREM RunsTheRegistry == DaemonSpec => Spec
<1>1. DaemonInit => Init
  BY DEF DaemonInit
<1>2. [DaemonNext]_daemonVars => [Next]_vars
  BY StepsTheRegistry
<1>. QED
  BY <1>1, <1>2, PTL DEF DaemonSpec, Spec

\* The registry keeps its invariant whatever starts are cut short.
THEOREM DaemonKeepsRegistry == DaemonSpec => [](RegistryInv /\ JoinedIsDurable)
<1>1. RegistryInv => JoinedIsDurable
  BY DEF RegistryInv
<1>. QED
  BY <1>1, RunsTheRegistry, RegistryInvariance, PTL

\* The answers of joins stay true while the daemon runs.
THEOREM DaemonKeepsAnswers == DaemonSpec => AnswerStaysTrue
BY RunsTheRegistry, AnswersStayTrue, PTL

\* So is the promise of ServedFederations, across starts, the join of main and the seed.
THEOREM DaemonServes == DaemonSpec => ImplementsService
BY RunsTheRegistry, RegistryServes, PTL

-----------------------------------------------------------------------------
(* Types *)

\* The registry's own part is proved already.
DaemonInv == RegistryInv /\ DaemonTypeOK

\* The steps that only touch the configuration.
LEMMA ConfigureTypes ==
  ASSUME DaemonTypeOK, TypeOK', Configure
  PROVE  DaemonTypeOK'
<1>. USE DEF DaemonTypeOK, Phase, ConfigPhase
<1>0. /\ UNCHANGED <<up, seed, mnemonic, seedOf, boot>>
      /\ Default \in Settings /\ \A c \in Settings : Good(c) \in File
  BY DEF Configure, vars, Default, Settings, Good, File
<1>1. ASSUME NEW o \in Launches, Start(o) PROVE DaemonTypeOK'
  BY <1>0, <1>1, DaemonAssumption DEF Start
<1>2. ASSUME ReadFile \/ MisreadFile PROVE DaemonTypeOK'
  BY <1>0, <1>2 DEF ReadFile, MisreadFile, File
<1>3. ASSUME WriteTemp \/ WriteFails PROVE DaemonTypeOK'
  BY <1>0, <1>3 DEF WriteTemp, WriteFails
<1>4. ASSUME Rename PROVE DaemonTypeOK'
  BY <1>0, <1>4 DEF Rename
<1>5. ASSUME DrawPassword PROVE DaemonTypeOK'
  BY <1>0, <1>5 DEF DrawPassword, Settings
<1>6. ASSUME Override PROVE DaemonTypeOK'
  <2>1. config' \in Settings
    BY <1>6 DEF Override, Settings, Launch
  <2>. QED
    BY <1>0, <1>6, <2>1 DEF Override
<1>7. ASSUME NEW c \in Files, ChangeFile(c) PROVE DaemonTypeOK'
  <2>1. c \in File /\ c.settings \in Settings
    BY <1>0, DaemonAssumption DEF File
  <2>. QED
    BY <1>0, <1>7, <2>1 DEF ChangeFile
<1>. QED
  BY <1>1, <1>2, <1>3, <1>4, <1>5, <1>6, <1>7 DEF Configure, ConfigStep

\* Every other step.
LEMMA StepTypes ==
  ASSUME DaemonTypeOK, TypeOK', [DaemonNext]_daemonVars
  PROVE  DaemonTypeOK'
<1>. USE DEF DaemonTypeOK, Phase, ConfigPhase
<1>1. CASE Configure
  BY <1>1, ConfigureTypes
<1>2. CASE ChooseSeed
  BY <1>2 DEF ChooseSeed, Seed, vars
<1>3. CASE StoreSeed
  BY <1>3 DEF StoreSeed, vars
<1>4. ASSUME DeriveSecrets PROVE seedOf' \in [Federation -> Seed]
  BY <1>4 DEF DeriveSecrets
<1>5. ASSUME NEW L \in SUBSET Federation, OpenRegistry(L) PROVE DaemonTypeOK'
  BY <1>4, <1>5 DEF OpenRegistry, Load
<1>6. ASSUME NEW j \in Join, JoinConfigured(j) \/ Request(j) PROVE DaemonTypeOK'
  BY <1>6 DEF JoinConfigured, Request, LookUp, configVars
<1>7. ASSUME NEW j \in Join, JoinStep(j) PROVE DaemonTypeOK'
  <2>1. UNCHANGED up
    BY <1>7 DEF JoinStep, Build, Open, JoinFederation, BuildFails, Insert, Save, SaveFails,
                DropRequest
  <2>. QED
    BY <1>4, <1>7, <2>1 DEF JoinStep, configVars
<1>8. CASE Serve \/ Kill
  BY <1>8 DEF Serve, Kill, vars
<1>9. CASE Stop
  BY <1>9 DEF Stop, Crash
<1>10. CASE UNCHANGED daemonVars
  BY <1>10 DEF daemonVars, vars, configVars
<1>. QED
  BY <1>1, <1>2, <1>3, <1>5, <1>6, <1>7, <1>8, <1>9, <1>10 DEF DaemonNext

\* Every variable of the daemon holds a value of its kind, and the registry is open
\* when it is used.
THEOREM DaemonTypes == DaemonSpec => []DaemonInv
<1>1. DaemonInit => DaemonInv
  <2>. SUFFICES ASSUME DaemonInit PROVE DaemonInv
    OBVIOUS
  <2>1. RegistryInv
    BY InitRegistry DEF DaemonInit
  <2>2. NoFile \in File /\ Default \in Settings /\ launch \in Launch
    BY DEF NoFile, File, Default, Settings, Launch, DaemonInit, ConfigInit
  <2>. QED
    BY <2>1, <2>2, DaemonAssumption
    DEF DaemonInv, DaemonTypeOK, RegistryInv, DaemonInit, Init, ConfigInit, Phase, ConfigPhase, Seed
<1>2. DaemonInv /\ [DaemonNext]_daemonVars => DaemonInv'
  <2>. SUFFICES ASSUME DaemonInv, [DaemonNext]_daemonVars PROVE DaemonInv'
    OBVIOUS
  <2>1. RegistryInv'
    BY StepsTheRegistry, NextRegistry DEF DaemonInv
  <2>2. TypeOK'
    BY <2>1 DEF RegistryInv
  <2>. QED
    BY <2>1, <2>2, StepTypes DEF DaemonInv
<1>. QED
  BY <1>1, <1>2, PTL DEF DaemonSpec

\* The types alone, as the runs check them.
THEOREM DaemonTypeCorrect == DaemonSpec => []DaemonTypeOK
<1>1. DaemonInv => DaemonTypeOK
  BY DEF DaemonInv
<1>. QED
  BY <1>1, DaemonTypes, PTL

-----------------------------------------------------------------------------
(* The configuration file *)

\* What the file and the configuration in memory have to do with each other while main
\* reads and writes: a default file is written only when nothing is promised, and a
\* password is added to a configuration that holds everything that is.
FileInv ==
  /\ phase \in {"default", "defaultTemp"} => \A s \in {"password", "invite"} : promised[s] = Unset
  /\ phase \in {"check", "loaded"} => file = Good(config)
  /\ phase \in {"password", "passwordTemp"} =>
       \A s \in {"password", "invite"} : promised[s] # Unset => config[s] = promised[s]
  /\ phase \in {"password", "passwordTemp", "loaded"} => config.password # Unset

PromiseInv == FileInv /\ PromiseIsKept

LEMMA ConfigureKeepsPromise ==
  ASSUME DaemonTypeOK, PromiseInv, Configure
  PROVE  PromiseInv'
<1>. USE DEF PromiseInv, FileInv, PromiseIsKept, Good, Default
<1>1. ASSUME NEW o \in Launches, Start(o) PROVE PromiseInv'
  BY <1>1 DEF Start
<1>2. CASE ReadFile
  <2>1. CASE file.form = "good"
    <3>1. file = Good(file.settings)
      BY <2>1 DEF DaemonTypeOK, File
    <3>. QED
      BY <1>2, <2>1, <3>1 DEF ReadFile
  <2>2. CASE file.form # "good"
    BY <1>2, <2>2 DEF ReadFile
  <2>. QED
    BY <2>1, <2>2
<1>3. CASE MisreadFile
  BY <1>3 DEF MisreadFile
<1>4. CASE WriteTemp \/ WriteFails
  BY <1>4 DEF WriteTemp, WriteFails
<1>5. CASE Rename
  BY <1>5 DEF Rename
<1>6. CASE DrawPassword
  <2>1. CASE config.password = Unset
    <3>1. /\ phase = "check" /\ phase' = "password"
          /\ config' = [config EXCEPT !.password = starts]
          /\ UNCHANGED <<file, promised>>
      BY <1>6, <2>1 DEF DrawPassword
    <3>2. config' \in [{"password", "invite"} -> Code \cup Password \cup Nat \cup {Unset}]
          /\ config'.invite = config.invite
          /\ config'.password # Unset
      BY <3>1, ConfigAssumption DEF DaemonTypeOK, Settings
    <3>3. promised.password = Unset
      BY <2>1, <3>1
    <3>4. promised.invite # Unset => config'.invite = promised.invite
      BY <3>1, <3>2
    <3>. QED
      BY <3>1, <3>2, <3>3, <3>4
  <2>2. CASE config.password # Unset
    BY <1>6, <2>2 DEF DrawPassword
  <2>. QED
    BY <2>1, <2>2
<1>7. CASE Override
  BY <1>7 DEF Override
<1>8. ASSUME NEW c \in Files, ChangeFile(c) PROVE PromiseInv'
  <2>1. c \in File
    BY DaemonAssumption
  <2>2. c.form # "good" => c.settings = Default
    BY <2>1 DEF File
  <2>. QED
    BY <1>8, <2>2 DEF ChangeFile
<1>. QED
  BY <1>1, <1>2, <1>3, <1>4, <1>5, <1>6, <1>7, <1>8 DEF Configure, ConfigStep

\* Everything else leaves the file alone.
LEMMA StepKeepsPromise ==
  ASSUME DaemonTypeOK, PromiseInv, [DaemonNext]_daemonVars
  PROVE  PromiseInv'
<1>1. CASE Configure
  BY <1>1, ConfigureKeepsPromise
<1>2. CASE ~Configure
  <2>1. UNCHANGED <<file, promised, config>> /\ (phase' = phase \/ phase' \in Configured \cup {"down"})
    BY <1>2 DEF DaemonNext, ChooseSeed, StoreSeed, OpenRegistry, JoinConfigured, Request, JoinStep,
                Serve, Kill, Stop, daemonVars, configVars, Configured, SeedInUse, Running
  <2>. QED
    BY <2>1 DEF PromiseInv, FileInv, PromiseIsKept, Configured, SeedInUse, Running
<1>. QED
  BY <1>1, <1>2

\* What an operator wrote into the file, and the password of an earlier start, stay in it
\* however many starts are cut short between the two writes and their renamings.
THEOREM PromisesAreKept == DaemonSpec => []PromiseIsKept
<1>1. DaemonInit => PromiseInv
  BY DEF DaemonInit, ConfigInit, PromiseInv, FileInv, PromiseIsKept, Default
<1>2. DaemonInv /\ PromiseInv /\ [DaemonNext]_daemonVars => PromiseInv'
  BY StepKeepsPromise DEF DaemonInv
<1>3. PromiseInv => PromiseIsKept
  BY DEF PromiseInv
<1>. QED
  BY <1>1, <1>2, <1>3, DaemonTypes, PTL DEF DaemonSpec

-----------------------------------------------------------------------------
(* The seed *)

\* A secret in use is the one on disk, one about to be stored is the first; and whatever
\* has a database has that secret's.
SeedInv ==
  /\ phase \in SeedInUse => seed = mnemonic /\ mnemonic # Nil
  /\ phase = "storing" => seed = Nil /\ mnemonic # Nil
  /\ \A f \in initialized : seedOf[f] # Nil /\ seedOf[f] = seed

LEMMA StepKeepsSeed ==
  ASSUME DaemonInv, SeedInv, [DaemonNext]_daemonVars
  PROVE  SeedInv'
<1>. USE DEF SeedInv, SeedInUse, Running
<1>1. CASE Configure
  <2>1. UNCHANGED <<vars, seed, mnemonic, seedOf>> /\ (phase' = phase \/ phase' \in ConfigPhase)
    BY <1>1 DEF Configure, ConfigStep, Start, ReadFile, MisreadFile, WriteTemp, Rename, WriteFails,
                DrawPassword, Override, ChangeFile, ConfigPhase
  <2>. QED
    BY <2>1 DEF vars, ConfigPhase
<1>2. CASE ChooseSeed
  <2>1. Nil \notin Nat /\ starts \in Nat
    BY DaemonAssumption DEF DaemonInv, DaemonTypeOK
  <2>. QED
    BY <1>2, <2>1 DEF ChooseSeed, vars
<1>3. CASE StoreSeed
  BY <1>3 DEF StoreSeed, vars
<1>4. ASSUME DeriveSecrets, mnemonic = seed, mnemonic # Nil, UNCHANGED seed
      PROVE  \A f \in initialized' : f \in Federation => seedOf'[f] # Nil /\ seedOf'[f] = seed'
  BY <1>4 DEF DeriveSecrets
<1>5. initialized' \subseteq Federation
  BY StepsTheRegistry, NextRegistry DEF DaemonInv, RegistryInv, TypeOK
<1>6. ASSUME NEW L \in SUBSET Federation, OpenRegistry(L) PROVE SeedInv'
  BY <1>4, <1>5, <1>6 DEF OpenRegistry
<1>7. ASSUME NEW j \in Join, JoinConfigured(j) \/ Request(j) PROVE SeedInv'
  BY <1>7 DEF JoinConfigured, Request, LookUp, configVars
<1>8. ASSUME NEW j \in Join, JoinStep(j) PROVE SeedInv'
  <2>1. stage[j] \in Inside
    BY <1>8 DEF JoinStep, Build, Open, JoinFederation, BuildFails, Insert, Save, SaveFails,
                DropRequest, Inside
  <2>2. phase \in Running
    BY <2>1 DEF DaemonInv, RegistryInv, RequestInv, DaemonTypeOK
  <2>. QED
    BY <1>4, <1>5, <1>8, <2>2 DEF JoinStep, configVars
<1>9. CASE Serve \/ Kill
  BY <1>9 DEF Serve, Kill, vars
<1>10. CASE Stop
  BY <1>10 DEF Stop, Crash
<1>11. CASE UNCHANGED daemonVars
  BY <1>11 DEF daemonVars, vars, configVars
<1>. QED
  BY <1>1, <1>2, <1>3, <1>6, <1>7, <1>8, <1>9, <1>10, <1>11 DEF DaemonNext

\* However often the process dies between drawing the secret and listing a federation,
\* every database, listed and served federation has one with the secret on disk.
THEOREM SeedIsOne == DaemonSpec => []OneSeed
<1>1. DaemonInit => SeedInv
  BY DEF DaemonInit, Init, ConfigInit, SeedInv, SeedInUse, Running
<1>2. DaemonInv /\ SeedInv /\ [DaemonNext]_daemonVars => SeedInv'
  BY StepKeepsSeed
<1>3. DaemonInv /\ SeedInv => OneSeed
  BY DEF DaemonInv, RegistryInv, OnDiskFirst, SeedInv, OneSeed
<1>. QED
  BY <1>1, <1>2, <1>3, DaemonTypes, PTL DEF DaemonSpec

-----------------------------------------------------------------------------
(* Serving *)

\* What the start has settled so far: the password once the command line was laid over it,
\* the configured federation once the join of main was answered.
ServeInv ==
  /\ phase \in Configured => (config.password = Unset <=> launch.noAuth)
  /\ phase = "joining" =>
       /\ boot \in Join /\ InviteOf[boot] = config.invite
       /\ stage[boot] \in {"known", "joined"} => Fed(boot) \in Registered
  /\ phase = "serving" =>
       /\ Registered # {}
       /\ config.invite \in Invite => FedOf[config.invite] \in Registered

LEMMA ConfigureKeepsServing ==
  ASSUME DaemonTypeOK, FileInv, ServeInv, Configure
  PROVE  ServeInv'
<1>. USE DEF ServeInv, Configured, SeedInUse, Running
<1>1. UNCHANGED <<vars, boot>>
  BY DEF Configure
<1>2. CASE Override
  <2>1. config.password # Unset /\ launch \in Launch
    BY <1>2 DEF Override, FileInv, DaemonTypeOK
  <2>. QED
    BY <1>1, <1>2, <2>1 DEF Override, Launch
<1>3. ASSUME NEW c \in Files, ChangeFile(c) PROVE ServeInv'
  BY <1>1, <1>3 DEF ChangeFile, vars, Registered
<1>4. CASE ~Override /\ \A c \in Files : ~ChangeFile(c)
  <2>1. phase' \notin Configured
    BY <1>4 DEF Configure, ConfigStep, Start, ReadFile, MisreadFile, WriteTemp, Rename, WriteFails,
                DrawPassword
  <2>. QED
    BY <2>1
<1>. QED
  BY <1>2, <1>3, <1>4

\* While the registry stays open, what was served is, and so is what a join was answered.
LEMMA ServedStaysServed ==
  ASSUME RegistryInv, [Next]_vars, up, up'
  PROVE  /\ Registered \subseteq Registered'
         /\ \A j \in Join : stage'[j] \in {"known", "joined"} /\
              (stage[j] \in {"known", "joined"} => Fed(j) \in Registered) => Fed(j) \in Registered'
<1>1. CASE Next
  BY <1>1, StepKeepsAnswers DEF Fed
<1>2. CASE UNCHANGED vars
  BY <1>2 DEF vars, Registered, Fed
<1>. QED
  BY <1>1, <1>2

LEMMA StepKeepsServing ==
  ASSUME DaemonInv, PromiseInv, ServeInv, [DaemonNext]_daemonVars
  PROVE  ServeInv'
<1>. USE DEF ServeInv, Configured, SeedInUse, Running
<1>1. CASE Configure
  BY <1>1, ConfigureKeepsServing DEF DaemonInv, PromiseInv
<1>2. CASE ChooseSeed \/ StoreSeed \/ Kill
  BY <1>2 DEF ChooseSeed, StoreSeed, Kill
<1>3. ASSUME NEW L \in SUBSET Federation, OpenRegistry(L) PROVE ServeInv'
  BY <1>3 DEF OpenRegistry
<1>4. ASSUME phase \in Running, phase' \in Running
      PROVE  /\ Registered \subseteq Registered'
             /\ \A j \in Join : stage'[j] \in {"known", "joined"} /\
                  (stage[j] \in {"known", "joined"} => Fed(j) \in Registered) => Fed(j) \in Registered'
  <2>1. up /\ up'
    BY <1>4, StepsTheRegistry, NextRegistry, StepTypes DEF DaemonInv, RegistryInv, DaemonTypeOK
  <2>. QED
    BY <2>1, StepsTheRegistry, ServedStaysServed DEF DaemonInv
<1>5. ASSUME NEW j \in Join, JoinConfigured(j) PROVE ServeInv'
  <2>1. /\ phase = "opened" /\ phase' = "joining" /\ boot' = j /\ stage[j] = "none"
        /\ InviteOf[j] = config.invite /\ UNCHANGED <<config, launch>>
    BY <1>5 DEF JoinConfigured, LookUp
  <2>2. Fed(j)' = Fed(j)
    BY DEF Fed
  <2>. QED
    BY <1>4, <2>1, <2>2
<1>6. ASSUME NEW j \in Join, Request(j) \/ JoinStep(j) PROVE ServeInv'
  <2>1. UNCHANGED <<phase, config, launch, boot>>
    BY <1>6 DEF Request, JoinStep, configVars
  <2>2. CASE phase = "joining"
    BY <1>4, <2>1, <2>2 DEF Fed
  <2>3. CASE phase = "serving"
    BY <1>4, <2>1, <2>3
  <2>4. CASE phase \notin {"joining", "serving"}
    BY <2>1, <2>4
  <2>. QED
    BY <2>2, <2>3, <2>4
<1>7. CASE Serve
  BY <1>7 DEF Serve, vars, Registered, Fed
<1>8. CASE Stop
  BY <1>8 DEF Stop
<1>9. CASE UNCHANGED daemonVars
  BY <1>9 DEF daemonVars, vars, configVars, Registered, Fed
<1>. QED
  BY <1>1, <1>2, <1>3, <1>5, <1>6, <1>7, <1>8, <1>9 DEF DaemonNext

\* A daemon serves without a password only if that was asked for, with a client, and with
\* the federation it was configured with: no other join, failed or dropped, and no start
\* that could not load everything is in the way of it.
THEOREM ServesAsItWasTold == DaemonSpec => []ServesAsConfigured
<1>1. DaemonInit => PromiseInv /\ ServeInv
  BY DEF DaemonInit, ConfigInit, PromiseInv, FileInv, PromiseIsKept, Default, ServeInv, Configured,
         SeedInUse, Running
<1>2. DaemonInv /\ PromiseInv /\ [DaemonNext]_daemonVars => PromiseInv'
  BY StepKeepsPromise DEF DaemonInv
<1>3. DaemonInv /\ PromiseInv /\ ServeInv /\ [DaemonNext]_daemonVars => ServeInv'
  BY StepKeepsServing
<1>4. ServeInv => ServesAsConfigured
  BY DEF ServeInv, ServesAsConfigured, Configured, SeedInUse, Running
<1>. QED
  BY <1>1, <1>2, <1>3, <1>4, DaemonTypes, PTL DEF DaemonSpec
=============================================================================
