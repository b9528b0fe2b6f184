---------------------- MODULE SettlementRequestsProofs ----------------------
(***************************************************************************)
(* Theorems about the requests that start operations and those who tell of *)
(* their end, for any invoices, withdrawals and crashes: nobody is told    *)
(* another end than the operation came to, but by a request that gives up  *)
(* on its withdrawal and calls it failed, and nothing is taken back.       *)
(***************************************************************************)
EXTENDS SettlementRequests, SequenceTheorems, TLAPS

-----------------------------------------------------------------------------
(* The inductive invariant *)

\* Nothing is known of an operation nobody has made, only ends are cached, and a process
\* that is down has crashed.
ClientInv ==
  /\ \A o \in Op : stage[o] = "none" => fed[o] = "absent"
  /\ \A o \in Op : outcome[o] => fed[o] \in Ends
  /\ ~up => crashes > 0

\* How far the request and its follower have told: no end before the begin, and no
\* second end.
ToldInv ==
  \A o \in Op :
    /\ stage[o] \in {"none", "made"} => told[o] = <<>> /\ follower[o] = "none"
    /\ stage[o] \in {"begun", "registered"} => told[o] = <<"begun">> /\ follower[o] = "none"
    /\ follower[o] = "following" => told[o] = <<"begun">>
    /\ told[o] = <<>> \/ told[o] = <<"begun">>
         \/ \E e \in Ends : told[o] = <<"begun", e>>

\* What the manager watches or has told was begun by this process, or by one before it.
WatchInv ==
  \A o \in Op :
    o \in watching \cup reported \/ repeated[o] # "none" => crashes > 0 \/ told[o] # <<>>

\* Each of those who tell of an end has it from the client, but a request that gives up;
\* a status request has it from the cache.
TellInv ==
  \A o \in Op :
    /\ \A e \in Ends : told[o] = <<"begun", e>> => fed[o] = e \/ (e = "failed" /\ GivenUp(o))
    /\ o \in reported => fed[o] = "succeeded"
    /\ repeated[o] \in Ends => fed[o] = repeated[o]
    /\ status[o] \in Ends => fed[o] = status[o] /\ outcome[o]
    /\ view[o] \in Ends => fed[o] = view[o]

Inv == TypeOK /\ ClientInv /\ ToldInv /\ WatchInv /\ TellInv

-----------------------------------------------------------------------------
\* The steps of the client.
LEMMA ClientStep ==
  ASSUME Inv, NEW o \in Op, (\E s \in Ends : Settle(o, s)) \/ CacheOutcome(o)
  PROVE  Inv'
<1>1. /\ UNCHANGED <<managerVars, readerVars, requestVars, hostVars>>
      /\ fed' \in [Op -> FedState] /\ outcome' \in [Op -> BOOLEAN]
      /\ \A p \in Op : /\ fed'[p] # fed[p] => fed[p] = "waiting" /\ fed'[p] \in Ends
                       /\ outcome[p] => outcome'[p]
                       /\ outcome'[p] => fed'[p] \in Ends
  <2>1. ASSUME NEW s \in Ends, Settle(o, s)
        PROVE  /\ fed[o] = "waiting" /\ fed' = [fed EXCEPT ![o] = s]
               /\ UNCHANGED <<outcome, managerVars, readerVars, requestVars, hostVars>>
    BY <2>1 DEF Settle
  <2>2. CacheOutcome(o) =>
          /\ fed[o] \in Ends /\ outcome' = [outcome EXCEPT ![o] = TRUE]
          /\ UNCHANGED <<fed, managerVars, readerVars, requestVars, hostVars>>
    BY DEF CacheOutcome
  <2>3. fed \in [Op -> FedState] /\ outcome \in [Op -> BOOLEAN] /\ \A p \in Op : outcome[p] => fed[p] \in Ends
    BY DEF Inv, TypeOK, ClientInv
  <2>4. CASE \E s \in Ends : Settle(o, s)
    BY <2>1, <2>3, <2>4 DEF Ends, FedState
  <2>5. CASE CacheOutcome(o)
    BY <2>2, <2>3, <2>5
  <2>. QED
    BY <2>4, <2>5
<1>2. UNCHANGED <<up, crashes, stage, follower, told, watching, late, reported, repeated, status, view>>
  BY <1>1 DEF managerVars, readerVars, requestVars, hostVars
<1>3. TypeOK'
  BY <1>1, <1>2 DEF Inv, TypeOK
<1>4. ClientInv'
  BY <1>1, <1>2 DEF Inv, ClientInv, Ends
<1>5. ToldInv' /\ WatchInv'
  BY <1>2 DEF Inv, ToldInv, WatchInv
<1>6. TellInv'
  BY <1>1, <1>2 DEF Inv, TellInv, GivenUp, Ends
<1>. QED
  BY <1>3, <1>4, <1>5, <1>6 DEF Inv

\* What follows the begin.
LEMMA BegunThen ==
  ASSUME NEW e
  PROVE  Append(<<"begun">>, e) = <<"begun", e>>
<1>. DEFINE S == {"begun", e}
            b == <<"begun">>
            t == Append(b, e)
            u == <<"begun", e>>
<1>1. /\ b \in Seq(S) /\ Len(b) = 1 /\ b[1] = "begun" /\ e \in S
      /\ u \in Seq(S) /\ Len(u) = 2 /\ u[1] = "begun" /\ u[2] = e
  OBVIOUS
<1>2. t \in Seq(S) /\ Len(t) = 2 /\ t[1] = "begun" /\ t[2] = e
  <2>1. t = Append(b, e)
    OBVIOUS
  <2>. HIDE DEF S, b, u, t
  <2>2. b \in Seq(S) /\ e \in S /\ Len(b) = 1 /\ b[1] = "begun"
    BY <1>1
  <2>3. t \in Seq(S)
    BY <2>1, <2>2, AppendProperties
  <2>4. Len(t) = Len(b) + 1
    BY <2>1, <2>2, AppendProperties
  <2>5. t[Len(b) + 1] = e
    BY <2>1, <2>2, AppendProperties
  <2>6. \A i \in 1 .. Len(b) : t[i] = b[i]
    BY <2>1, <2>2, AppendProperties
  <2>. QED
    BY <2>2, <2>3, <2>4, <2>5, <2>6
<1>3. t = u
  <2>. HIDE DEF S, t, u
  <2>. QED
    BY <1>1, <1>2, SeqEqual
<1>. QED
  BY <1>3

\* The steps of a request, and its follower's.
LEMMA RequestStep ==
  ASSUME Inv, NEW o \in Op,
         Make(o) \/ Begin(o) \/ SpawnFollower(o) \/ Subscribe(o) \/ Follow(o) \/ GiveUp(o) \/ DropRequest(o)
  PROVE  Inv'
<1>1. /\ UNCHANGED <<outcome, watching, late, reported, repeated, status, view, up, crashes>>
      /\ \A p \in Op \ {o} : /\ stage'[p] = stage[p] /\ follower'[p] = follower[p]
                             /\ told'[p] = told[p] /\ fed'[p] = fed[p]
      /\ stage' \in [Op -> Stage]
      /\ follower' \in [Op -> {"none", "following", "over", "quit"}]
      /\ fed' \in [Op -> FedState]
  <2>1. UNCHANGED <<outcome, watching, late, reported, repeated, status, view, up, crashes>>
    BY DEF Make, Begin, SpawnFollower, Subscribe, Follow, FollowSuccess, FollowFailure, GiveUp, DropRequest,
           managerVars, readerVars, hostVars, clientVars
  <2>2. fed' \in [Op -> FedState] /\ \A p \in Op \ {o} : fed'[p] = fed[p]
    <3>1. fed' = fed \/ fed' = [fed EXCEPT ![o] = "waiting"]
      BY DEF Make, Begin, SpawnFollower, Subscribe, Follow, FollowSuccess, FollowFailure, GiveUp, DropRequest,
             clientVars
    <3>. QED
      BY <3>1 DEF Inv, TypeOK, FedState
  <2>3. \A p \in Op \ {o} : told'[p] = told[p]
    <3>1. told' = told \/ \E u : told' = [told EXCEPT ![o] = Append(@, u)]
      BY DEF Make, Begin, SpawnFollower, Subscribe, Follow, FollowSuccess, FollowFailure, GiveUp, DropRequest,
             Tell
    <3>. QED
      BY <3>1 DEF Inv, TypeOK
  <2>4. stage' \in [Op -> Stage] /\ \A p \in Op \ {o} : stage'[p] = stage[p]
    <3>1. stage' = stage \/ \E u \in Stage : stage' = [stage EXCEPT ![o] = u]
      BY DEF Make, Begin, SpawnFollower, Subscribe, Follow, FollowSuccess, FollowFailure, GiveUp, DropRequest,
             Enter, Stage
    <3>. QED
      BY <3>1 DEF Inv, TypeOK
  <2>5. follower' \in [Op -> {"none", "following", "over", "quit"}] /\ \A p \in Op \ {o} : follower'[p] = follower[p]
    <3>1. \/ follower' = follower
          \/ \E u \in {"none", "following", "over", "quit"} : follower' = [follower EXCEPT ![o] = u]
      BY DEF Make, Begin, SpawnFollower, Subscribe, Follow, FollowSuccess, FollowFailure, GiveUp, DropRequest,
             Follower, Inv, TypeOK
    <3>. QED
      BY <3>1 DEF Inv, TypeOK
  <2>. QED
    BY <2>1, <2>2, <2>3, <2>4, <2>5
<1>2. fed'[o] # fed[o] => fed[o] = "absent" /\ stage[o] = "none" /\ stage'[o] = "made"
  BY DEF Make, Begin, SpawnFollower, Subscribe, Follow, FollowSuccess, FollowFailure, GiveUp, DropRequest,
         Enter, clientVars, Inv, TypeOK, ClientInv
<1>3. told' \in [Op -> Seq({"begun"} \cup Ends)]
  <2>1. \/ UNCHANGED told
        \/ \E u \in {"begun"} \cup Ends : told' = [told EXCEPT ![o] = Append(@, u)]
    BY DEF Make, Begin, SpawnFollower, Subscribe, Follow, FollowSuccess, FollowFailure, GiveUp, DropRequest,
           Tell, Ends
  <2>2. told \in [Op -> Seq({"begun"} \cup Ends)]
    BY DEF Inv, TypeOK
  <2>3. \A u \in {"begun"} \cup Ends : Append(told[o], u) \in Seq({"begun"} \cup Ends)
    BY <2>2
  <2>. QED
    BY <2>1, <2>2, <2>3
<1>4. \/ told'[o] = told[o]
      \/ told[o] = <<>> /\ told'[o] = <<"begun">>
      \/ /\ told[o] = <<"begun">>
         /\ \E e \in Ends : /\ told'[o] = <<"begun", e>>
                            /\ fed[o] = e \/ (e = "failed" /\ o \in Withdrawal /\ follower'[o] = "quit")
  <2>1. told \in [Op -> Seq({"begun"} \cup Ends)]
    BY DEF Inv, TypeOK
  <2>2. CASE Begin(o)
    <3>1. told' = [told EXCEPT ![o] = Append(@, "begun")] /\ told[o] = <<>>
      BY <2>2 DEF Begin, Tell, Inv, ToldInv
    <3>. QED
      BY <2>1, <3>1
  <2>3. CASE Follow(o) \/ GiveUp(o)
    <3>1. told[o] = <<"begun">>
      BY <2>3 DEF Follow, FollowSuccess, FollowFailure, GiveUp, Inv, ToldInv
    <3>2. \/ UNCHANGED told
          \/ \E e \in Ends : /\ told' = [told EXCEPT ![o] = Append(@, e)]
                             /\ fed[o] = e \/ (e = "failed" /\ o \in Withdrawal /\ follower'[o] = "quit")
      <4>1. CASE Follow(o)
        BY <4>1 DEF Follow, FollowSuccess, FollowFailure, Tell, Ends
      <4>2. CASE GiveUp(o)
        <5>1. follower'[o] = "quit"
          BY <4>2 DEF GiveUp, Follower, Inv, TypeOK
        <5>. QED
          BY <4>2, <5>1 DEF GiveUp, Tell, Ends
      <4>. QED
        BY <2>3, <4>1, <4>2
    <3>3. CASE UNCHANGED told
      BY <3>3
    <3>4. ASSUME NEW e \in Ends, told' = [told EXCEPT ![o] = Append(@, e)]
          PROVE  told'[o] = <<"begun", e>>
      <4>1. told'[o] = Append(<<"begun">>, e)
        BY <2>1, <3>1, <3>4
      <4>2. Append(<<"begun">>, e) = <<"begun", e>>
        BY BegunThen
      <4>. QED
        BY <4>1, <4>2, Zenon
    <3>. QED
      BY <3>1, <3>2, <3>3, <3>4
  <2>4. CASE Make(o) \/ SpawnFollower(o) \/ Subscribe(o) \/ DropRequest(o)
    BY <2>4 DEF Make, SpawnFollower, Subscribe, DropRequest
  <2>. QED
    BY <2>2, <2>3, <2>4
<1>5. TypeOK'
  BY <1>1, <1>3 DEF Inv, TypeOK
<1>6. ClientInv'
  <2>1. stage'[o] # "none"
    BY DEF Make, Begin, SpawnFollower, Subscribe, Follow, FollowSuccess, FollowFailure, GiveUp, DropRequest,
           Enter, Underway, Inv, TypeOK, ToldInv
  <2>. QED
    BY <1>1, <1>2, <2>1 DEF Inv, ClientInv, Ends
<1>7. ToldInv'
  <2>1. /\ stage'[o] \in {"none", "made"} => told'[o] = <<>> /\ follower'[o] = "none"
        /\ stage'[o] \in {"begun", "registered"} => told'[o] = <<"begun">> /\ follower'[o] = "none"
        /\ follower'[o] = "following" => told'[o] = <<"begun">>
    <3>1. \A e : Append(<<>>, e) = <<e>>
      OBVIOUS
    <3>2. CASE Make(o)
      BY <3>2 DEF Make, Enter, Inv, TypeOK, ToldInv
    <3>3. CASE Begin(o)
      BY <3>1, <3>3 DEF Begin, Enter, Tell, Inv, TypeOK, ToldInv
    <3>4. CASE SpawnFollower(o) \/ Subscribe(o)
      BY <3>4 DEF SpawnFollower, Subscribe, Enter, Follower, Inv, TypeOK, ToldInv
    <3>5. CASE Follow(o) \/ GiveUp(o)
      BY <3>5 DEF Follow, FollowSuccess, FollowFailure, GiveUp, Enter, Follower, Inv, TypeOK, ToldInv
    <3>6. CASE DropRequest(o)
      BY <3>6 DEF DropRequest, Enter, Follower, Inv, TypeOK, ToldInv
    <3>. QED
      BY <3>2, <3>3, <3>4, <3>5, <3>6
  <2>2. told'[o] = <<>> \/ told'[o] = <<"begun">>
          \/ \E e \in Ends : told'[o] = <<"begun", e>>
    BY <1>4 DEF Inv, ToldInv
  <2>. QED
    BY <1>1, <2>1, <2>2 DEF Inv, ToldInv
<1>8. WatchInv'
  <2>1. told[o] # <<>> => told'[o] # <<>>
    BY <1>4
  <2>. QED
    BY <1>1, <2>1 DEF Inv, WatchInv
<1>9. TellInv'
  <2>1. \A e \in Ends : told'[o] = <<"begun", e>>
          => fed'[o] = e \/ (e = "failed" /\ o \in Withdrawal /\ follower'[o] = "quit")
    <3>. SUFFICES ASSUME NEW e \in Ends, told'[o] = <<"begun", e>>
                  PROVE  fed'[o] = e \/ (e = "failed" /\ o \in Withdrawal /\ follower'[o] = "quit")
      OBVIOUS
    <3>0. follower[o] = "quit" => follower'[o] = "quit"
      BY DEF Make, Begin, SpawnFollower, Subscribe, Follow, FollowSuccess, FollowFailure, GiveUp, DropRequest,
             Follower, Inv, TypeOK, ToldInv
    <3>1. CASE told'[o] = told[o]
      <4>1. fed[o] = e \/ (e = "failed" /\ GivenUp(o))
        BY <3>1 DEF Inv, TellInv
      <4>. QED
        BY <1>2, <3>0, <4>1 DEF GivenUp, Ends
    <3>2. CASE told'[o] # told[o]
      <4>1. fed[o] = e \/ (e = "failed" /\ o \in Withdrawal /\ follower'[o] = "quit")
        BY <1>4, <3>2 DEF Ends
      <4>. QED
        BY <1>2, <4>1 DEF Ends
    <3>. QED
      BY <3>1, <3>2
  <2>2. /\ o \in reported => fed'[o] = "succeeded"
        /\ repeated[o] \in Ends => fed'[o] = repeated[o]
        /\ status[o] \in Ends => fed'[o] = status[o] /\ outcome[o]
        /\ view[o] \in Ends => fed'[o] = view[o]
    BY <1>2 DEF Inv, TellInv, Ends
  <2>3. \A p \in Op \ {o} : GivenUp(p)' <=> GivenUp(p)
    BY <1>1 DEF GivenUp
  <2>. QED
    BY <1>1, <2>1, <2>2, <2>3 DEF Inv, TellInv, GivenUp
<1>. QED
  BY <1>5, <1>6, <1>7, <1>8, <1>9 DEF Inv

\* The steps of the manager: it takes an operation on, tells of it, and lets it go.
LEMMA ManagerStep ==
  ASSUME Inv, NEW o \in Op,
         Register(o) \/ Report(o) \/ Repeat(o) \/ GrowLate(o) \/ LetGo(o)
  PROVE  Inv'
<1>0. UNCHANGED <<fed, outcome, told, follower, status, view, up, crashes>>
  BY DEF Register, Report, Repeat, GrowLate, LetGo, clientVars, readerVars, hostVars, requestVars
<1>1. /\ \A p \in Op \ {o} : stage'[p] = stage[p] /\ repeated'[p] = repeated[p]
      /\ stage' \in [Op -> Stage]
      /\ repeated' \in [Op -> {"none"} \cup Ends]
      /\ repeated'[o] # repeated[o] => o \in watching /\ repeated'[o] = fed[o]
      /\ stage'[o] # stage[o] => stage[o] = "begun" /\ stage'[o] = "registered"
  <2>1. stage \in [Op -> Stage] /\ repeated \in [Op -> {"none"} \cup Ends]
    BY DEF Inv, TypeOK
  <2>2. CASE Register(o)
    <3>1. /\ stage[o] = "begun" /\ stage' = [stage EXCEPT ![o] = "registered"]
          /\ UNCHANGED repeated
      BY <2>2 DEF Register, Enter, managerVars
    <3>. QED
      BY <2>1, <3>1 DEF Stage
  <2>3. CASE Repeat(o)
    <3>1. /\ repeated' = [repeated EXCEPT ![o] = fed[o]] /\ o \in watching /\ fed[o] \in Ends
          /\ UNCHANGED stage
      BY <2>3 DEF Repeat, requestVars, Inv, ClientInv
    <3>. QED
      BY <2>1, <3>1
  <2>4. CASE Report(o) \/ GrowLate(o) \/ LetGo(o)
    <3>1. UNCHANGED <<stage, repeated>>
      BY <2>4 DEF Report, GrowLate, LetGo, requestVars
    <3>. QED
      BY <2>1, <3>1
  <2>. QED
    BY <2>2, <2>3, <2>4
<1>2. /\ watching' \subseteq Op /\ late' \subseteq watching' /\ reported' \subseteq Op
      /\ watching' \subseteq watching \cup {o}
      /\ o \in watching' \ watching => stage[o] = "begun"
      /\ reported' \subseteq reported \cup (watching \cap Settled)
  BY DEF Register, Report, Repeat, GrowLate, LetGo, Manager!Watch, Manager!Report, Manager!GrowLate,
         Manager!LetGo, managerVars, Inv, TypeOK
<1>3. TypeOK'
  BY <1>0, <1>1, <1>2 DEF Inv, TypeOK
<1>4. ClientInv' /\ ToldInv'
  BY <1>0, <1>1 DEF Inv, ClientInv, ToldInv
<1>5. WatchInv'
  BY <1>0, <1>1, <1>2 DEF Inv, ToldInv, WatchInv
<1>6. TellInv'
  BY <1>0, <1>1, <1>2 DEF Inv, TellInv, GivenUp, Settled, Ends
<1>. QED
  BY <1>3, <1>4, <1>5, <1>6 DEF Inv

\* The answers to those who ask.
LEMMA ReaderStep ==
  ASSUME Inv, NEW o \in Op, GetStatus(o) \/ SendUpdate(o) \/ CloseStream(o)
  PROVE  Inv'
<1>1. /\ UNCHANGED <<fed, outcome, stage, follower, told, watching, late, reported, repeated, up, crashes>>
      /\ status' \in [Op -> {"none", "created"} \cup Ends]
      /\ view' \in [Op -> {"closed", "created", "waiting"} \cup Ends]
      /\ \A p \in Op : /\ status'[p] \in Ends => fed[p] = status'[p] /\ outcome[p]
                       /\ view'[p] \in Ends => fed[p] = view'[p]
  <2>1. UNCHANGED <<fed, outcome, stage, follower, told, watching, late, reported, repeated, up, crashes>>
    BY DEF GetStatus, SendUpdate, CloseStream, clientVars, managerVars, requestVars, hostVars
  <2>2. /\ status \in [Op -> {"none", "created"} \cup Ends]
        /\ view \in [Op -> {"closed", "created", "waiting"} \cup Ends]
        /\ \A p \in Op : /\ outcome[p] => fed[p] \in Ends
                         /\ status[p] \in Ends => fed[p] = status[p] /\ outcome[p]
                         /\ view[p] \in Ends => fed[p] = view[p]
    BY DEF Inv, TypeOK, ClientInv, TellInv
  <2>3. \/ UNCHANGED <<status, view>>
        \/ UNCHANGED view /\ status' = [status EXCEPT ![o] = IF outcome[o] THEN fed[o] ELSE "created"]
        \/ UNCHANGED status /\ \E v \in {"closed", "created", "waiting"} \cup (Ends \cap {fed[o]}) :
                                 view' = [view EXCEPT ![o] = v]
    BY <2>2 DEF GetStatus, SendUpdate, CloseStream, FirstItem
  <2>4. CASE UNCHANGED <<status, view>>
    BY <2>1, <2>2, <2>4
  <2>5. CASE UNCHANGED view /\ status' = [status EXCEPT ![o] = IF outcome[o] THEN fed[o] ELSE "created"]
    BY <2>1, <2>2, <2>5 DEF Ends
  <2>6. ASSUME NEW v \in {"closed", "created", "waiting"} \cup (Ends \cap {fed[o]}),
               UNCHANGED status, view' = [view EXCEPT ![o] = v]
        PROVE  /\ view' \in [Op -> {"closed", "created", "waiting"} \cup Ends]
               /\ \A p \in Op : view'[p] \in Ends => fed[p] = view'[p]
    BY <2>2, <2>6 DEF Ends
  <2>. QED
    BY <2>1, <2>2, <2>3, <2>4, <2>5, <2>6
<1>2. TypeOK'
  BY <1>1 DEF Inv, TypeOK
<1>3. ClientInv' /\ ToldInv' /\ WatchInv' /\ TellInv'
  BY <1>1 DEF Inv, ClientInv, ToldInv, WatchInv, TellInv, GivenUp
<1>. QED
  BY <1>2, <1>3 DEF Inv

\* A crash and the start after it.
LEMMA ProcessStep ==
  ASSUME Inv, Crash \/ \E S \in SUBSET Op : Restart(S)
  PROVE  Inv'
<1>0. UNCHANGED <<fed, outcome, told, status, repeated>> /\ up' \in BOOLEAN
  BY DEF Crash, Restart, clientVars, requestVars, readerVars
<1>1. /\ crashes' \in 0..MaxCrashes /\ crashes' >= crashes /\ crashes' > 0
      /\ stage' \in [Op -> Stage] /\ follower' \in [Op -> {"none", "following", "over", "quit"}]
      /\ view' \in [Op -> {"closed", "created", "waiting"} \cup Ends]
      /\ \A o \in Op : /\ stage'[o] = stage[o] \/ stage'[o] = "dropped"
                       /\ follower'[o] = follower[o] \/ follower'[o] = "over"
                       /\ stage'[o] # "dropped" => stage'[o] = stage[o]
                       /\ follower[o] # "following" => follower'[o] = follower[o]
                       /\ view'[o] = view[o] \/ view'[o] = "closed"
      /\ reported' \subseteq reported
  <2>1. /\ stage \in [Op -> Stage] /\ follower \in [Op -> {"none", "following", "over", "quit"}]
        /\ view \in [Op -> {"closed", "created", "waiting"} \cup Ends]
        /\ crashes \in 0..MaxCrashes /\ MaxCrashes \in Nat /\ (~up => crashes > 0)
    BY SettlementAssumption DEF Inv, TypeOK, ClientInv
  <2>2. CASE Crash
    <3>1. /\ crashes' = crashes + 1 /\ crashes < MaxCrashes /\ reported' = {}
          /\ stage' = [o \in Op |-> IF stage[o] \in Underway THEN "dropped" ELSE stage[o]]
          /\ follower' = [o \in Op |-> IF follower[o] = "following" THEN "over" ELSE follower[o]]
          /\ view' = [o \in Op |-> "closed"]
      BY <2>2 DEF Crash, Manager!Forget
    <3>2. crashes' \in 0..MaxCrashes /\ crashes' >= crashes /\ crashes' > 0
      BY <2>1, <3>1
    <3>. QED
      BY <2>1, <3>1, <3>2 DEF Stage
  <2>3. CASE \E S \in SUBSET Op : Restart(S)
    <3>1. UNCHANGED <<crashes, stage, follower, view, reported>> /\ ~up
      BY <2>3 DEF Restart, hostVars, requestVars, readerVars, Manager!Watch
    <3>. QED
      BY <2>1, <3>1
  <2>. QED
    BY <2>2, <2>3
<1>2. watching' \subseteq Op /\ late' \subseteq watching' /\ reported' \subseteq Op
  BY DEF Crash, Restart, Manager!Forget, Manager!Watch, Inv, TypeOK
<1>3. TypeOK'
  BY <1>0, <1>1, <1>2 DEF Inv, TypeOK
<1>4. ClientInv' /\ WatchInv'
  BY <1>0, <1>1 DEF Inv, ClientInv, WatchInv
<1>5. ToldInv'
  BY <1>0, <1>1 DEF Inv, ToldInv
<1>6. TellInv'
  <2>1. \A o \in Op : GivenUp(o) => GivenUp(o)'
    BY <1>1 DEF GivenUp
  <2>. QED
    BY <1>0, <1>1, <2>1 DEF Inv, TellInv, Ends
<1>. QED
  BY <1>3, <1>4, <1>5, <1>6 DEF Inv

LEMMA Induction ==
  ASSUME Inv, [Next]_vars
  PROVE  Inv'
<1>1. CASE UNCHANGED vars
  <2>1. UNCHANGED <<fed, outcome, up, crashes, stage, follower, told, watching, late, reported, repeated,
                    status, view>>
    BY <1>1 DEF vars, clientVars, managerVars, readerVars, requestVars, hostVars
  <2>. QED
    BY <2>1 DEF Inv, TypeOK, ClientInv, ToldInv, WatchInv, TellInv, GivenUp
<1>. QED
  BY <1>1, ClientStep, RequestStep, ManagerStep, ReaderStep, ProcessStep DEF Next

LEMMA InitInv == Init => Inv
BY SettlementAssumption
   DEF Init, Inv, TypeOK, ClientInv, ToldInv, WatchInv, TellInv, FedState, Stage, Ends

\* What the invariant says of those who tell.
LEMMA InvAgrees == Inv => EndsAgree
<1>. SUFFICES ASSUME Inv, NEW o \in Op
              PROVE  /\ ToldByOthers(o) \subseteq {fed[o]}
                     /\ Ends \cap ToldOf(o) \subseteq {fed[o]} \cup (IF GivenUp(o) THEN {"failed"} ELSE {})
                     /\ o \in reported \/ repeated[o] # "none" \/ told[o] # <<>>
                          => crashes > 0 \/ (told[o] # <<>> /\ Head(told[o]) = "begun")
                     /\ Len(told[o]) <= 2
  BY DEF EndsAgree
<1>1. \A e : /\ Len(<<>>) = 0 /\ Len(<<"begun">>) = 1 /\ Len(<<"begun", e>>) = 2
             /\ Head(<<"begun">>) = "begun" /\ Head(<<"begun", e>>) = "begun"
  OBVIOUS
<1>2. told[o] = <<>> \/ told[o] = <<"begun">> \/ \E e \in Ends : told[o] = <<"begun", e>>
  BY DEF Inv, ToldInv
<1>3. told[o] # <<>> => Head(told[o]) = "begun"
  BY <1>1, <1>2
<1>4. Ends \cap ToldOf(o) \subseteq {fed[o]} \cup (IF GivenUp(o) THEN {"failed"} ELSE {})
  <2>1. CASE told[o] = <<>> \/ told[o] = <<"begun">>
    BY <2>1 DEF ToldOf, Ends
  <2>2. ASSUME NEW e \in Ends, told[o] = <<"begun", e>>
        PROVE  Ends \cap ToldOf(o) \subseteq {fed[o]} \cup (IF GivenUp(o) THEN {"failed"} ELSE {})
    <3>1. ToldOf(o) = {"begun", e}
      BY <2>2 DEF ToldOf
    <3>2. fed[o] = e \/ (e = "failed" /\ GivenUp(o))
      BY <2>2 DEF Inv, TellInv
    <3>. QED
      BY <3>1, <3>2 DEF Ends
  <2>. QED
    BY <1>2, <2>1, <2>2
<1>5. ToldByOthers(o) \subseteq {fed[o]}
  BY DEF ToldByOthers, Inv, TellInv
<1>6. Len(told[o]) <= 2
  <2>1. Len(told[o]) = 0 \/ Len(told[o]) = 1 \/ Len(told[o]) = 2
    BY <1>1, <1>2, Zenon
  <2>2. 0 <= 2 /\ 1 <= 2 /\ 2 <= 2
    OBVIOUS
  <2>. QED
    BY <2>1, <2>2, Zenon
<1>7. o \in reported \/ repeated[o] # "none" => crashes > 0 \/ told[o] # <<>>
  BY DEF Inv, WatchInv
<1>8. o \in reported \/ repeated[o] # "none" \/ told[o] # <<>>
        => crashes > 0 \/ (told[o] # <<>> /\ Head(told[o]) = "begun")
  BY <1>3, <1>7
<1>. QED
  BY <1>4, <1>5, <1>6, <1>8

\* Nobody who tells of an end tells another than the operation came to, or before its
\* begin, whoever tells of it and in whatever order; except that a withdrawal may be called
\* failed by a request whose stream ended without an outcome.
THEOREM EndsAreTrue == FairSpec => [](TypeOK /\ EndsAgree)
<1>1. Inv => TypeOK /\ EndsAgree
  BY InvAgrees DEF Inv
<1>2. Inv /\ [Next]_vars => Inv'
  BY Induction
<1>. QED
  BY <1>1, <1>2, InitInv, PTL DEF FairSpec

\* Followers, manager, streams and status requests contradict each other in one case only:
\* a withdrawal that was given up on, and told to have failed, may be told to have
\* succeeded by the manager, while no one else is ever told anything but what is so.
THEOREM TellersAgree == FairSpec => []EndsAgree
BY EndsAreTrue, PTL

\* An end that an asker was told of stands.
THEOREM EndsStand == FairSpec => NotTakenBack
<1>1. ASSUME Inv, [Next]_vars, NEW o \in Op
      PROVE  /\ status[o] \in Ends => status'[o] = status[o]
             /\ view[o] \in Ends => view'[o] \in {view[o], "closed"}
  <2>1. ASSUME NEW p \in Op, GetStatus(p)
        PROVE  /\ status[o] \in Ends => status'[o] = status[o]
               /\ view[o] \in Ends => view'[o] \in {view[o], "closed"}
    BY <1>1, <2>1 DEF GetStatus, FirstItem, Inv, TypeOK, TellInv
  <2>2. ASSUME NEW p \in Op, SendUpdate(p) \/ CloseStream(p)
        PROVE  /\ status[o] \in Ends => status'[o] = status[o]
               /\ view[o] \in Ends => view'[o] \in {view[o], "closed"}
    BY <1>1, <2>2 DEF SendUpdate, CloseStream, Inv, TypeOK, Ends
  <2>3. ASSUME NEW p \in Op,
               \/ (\E s \in Ends : Settle(p, s)) \/ CacheOutcome(p)
               \/ Make(p) \/ Begin(p) \/ Register(p) \/ SpawnFollower(p) \/ Subscribe(p)
               \/ Follow(p) \/ GiveUp(p) \/ DropRequest(p)
               \/ Report(p) \/ Repeat(p) \/ GrowLate(p) \/ LetGo(p)
        PROVE  UNCHANGED <<status, view>>
    BY <2>3 DEF Settle, CacheOutcome, Make, Begin, Register, SpawnFollower, Subscribe, Follow, FollowSuccess,
                FollowFailure, GiveUp, DropRequest, Report, Repeat, GrowLate, LetGo, readerVars
  <2>4. Crash => /\ UNCHANGED status
                 /\ view[o] \in Ends => view'[o] = "closed"
    BY DEF Crash
  <2>5. (\E S \in SUBSET Op : Restart(S)) \/ UNCHANGED vars => UNCHANGED <<status, view>>
    BY DEF Restart, vars, readerVars
  <2>. QED
    BY <1>1, <2>1, <2>2, <2>3, <2>4, <2>5 DEF Next
<1>2. Inv /\ [Next]_vars =>
        [\A o \in Op :
           /\ status[o] \in Ends => status'[o] = status[o]
           /\ view[o] \in Ends => view'[o] \in {view[o], "closed"}]_vars
  BY <1>1
<1>3. Inv /\ [Next]_vars => Inv'
  BY Induction
<1>. QED
  BY <1>2, <1>3, InitInv, PTL DEF FairSpec, NotTakenBack
-----------------------------------------------------------------------------
\* The requests, their followers and those who ask leave the manager to what it promises:
\* whatever happens here is a step of SettlementReporting or invisible to it, so that what
\* is taken from PaymentLifecycle is no more than what is proved of it there.
THEOREM ManagerIsKept == FairSpec => Manager!Spec
<1>1. Init => Manager!Init
  BY DEF Init, Manager!Init, Settled
<1>2. ASSUME Inv, Next
      PROVE  Manager!Next \/ UNCHANGED Manager!absVars
  <2>. USE DEF Manager!absVars, Manager!Next, clientVars, managerVars
  <2>1. ASSUME NEW o \in Op, NEW s \in Ends, Settle(o, s)
        PROVE  Manager!Settle(o) \/ UNCHANGED Manager!absVars
    <3>1. /\ fed' = [fed EXCEPT ![o] = s] /\ fed[o] = "waiting"
          /\ UNCHANGED <<watching, late, reported>> /\ fed \in [Op -> FedState]
      BY <1>2, <2>1 DEF Settle, Inv, TypeOK
    <3>2. CASE s = "succeeded"
      BY <3>1, <3>2 DEF Settled, Manager!Settle
    <3>3. CASE s # "succeeded"
      BY <3>1, <3>3 DEF Settled
    <3>. QED
      BY <3>2, <3>3
  <2>2. ASSUME NEW o \in Op, Make(o)
        PROVE  UNCHANGED Manager!absVars
    <3>1. /\ fed' = [fed EXCEPT ![o] = "waiting"] /\ fed[o] = "absent"
          /\ UNCHANGED <<watching, late, reported>> /\ fed \in [Op -> FedState]
      BY <1>2, <2>2 DEF Make, Inv, TypeOK, ClientInv
    <3>. QED
      BY <3>1 DEF Settled
  <2>3. ASSUME NEW o \in Op,
               \/ CacheOutcome(o) \/ Begin(o) \/ SpawnFollower(o) \/ Subscribe(o)
               \/ Follow(o) \/ GiveUp(o) \/ DropRequest(o) \/ Repeat(o)
               \/ GetStatus(o) \/ SendUpdate(o) \/ CloseStream(o)
        PROVE  UNCHANGED Manager!absVars
    BY <2>3 DEF CacheOutcome, Begin, SpawnFollower, Subscribe, Follow, FollowSuccess, FollowFailure,
                GiveUp, DropRequest, Repeat, GetStatus, SendUpdate, CloseStream, Settled
  <2>4. ASSUME NEW o \in Op, Register(o)
        PROVE  Manager!Watch({o}, {}) \/ UNCHANGED Manager!absVars
    BY <2>4 DEF Register, Settled
  <2>5. ASSUME NEW o \in Op, Report(o) \/ GrowLate(o) \/ LetGo(o)
        PROVE  Manager!Report(o) \/ Manager!GrowLate({o}) \/ Manager!LetGo({o})
    BY <2>5 DEF Report, GrowLate, LetGo
  <2>6. Crash => Manager!Forget
    BY DEF Crash
  <2>7. ASSUME NEW S \in SUBSET Op, Restart(S)
        PROVE  Manager!Watch(S, {})
    BY <2>7 DEF Restart
  <2>8. {} \in SUBSET Op /\ \A o \in Op : {o} \in SUBSET Op
    OBVIOUS
  <2>. QED
    BY <1>2, <2>1, <2>2, <2>3, <2>4, <2>5, <2>6, <2>7, <2>8 DEF Next
<1>3. UNCHANGED vars => UNCHANGED Manager!absVars
  BY DEF vars, clientVars, managerVars, Manager!absVars, Settled
<1>4. Inv /\ [Next]_vars => Inv'
  BY Induction
<1>. QED
  BY <1>1, <1>2, <1>3, <1>4, InitInv, PTL DEF FairSpec, Manager!Spec
=============================================================================
