---------------------------- MODULE ApiServerProofs ----------------------------
(***************************************************************************)
(* Theorems about ApiServer, for any clients, descriptors, slots and names.*)
(* The composition implements each of its components, so what SessionsProofs*)
(* and PlayersProofs prove of them alone holds in it too.                  *)
(***************************************************************************)
EXTENDS ApiServer, SessionsProofs, Sequences

Registry == INSTANCE PlayersProofs WITH Address <- [n \in Names |-> << >>], AddrSize <- 1

LEMMA ServeIsRequest ==
  ASSUME NEW c \in Clients, Serve(c)
  PROVE  ProcessRequest(c, "served")
BY DEF Serve, ServeList, ServeOther, ServeRefuse, ServeRemove

LEMMA StepConnections == [ServerNext]_serverVars => [Next]_vars
<1>. SUFFICES ASSUME [ServerNext]_serverVars
              PROVE  Next \/ UNCHANGED vars
  OBVIOUS
<1>1. CASE ConnectionStep
  BY <1>1 DEF ConnectionStep, QuietHandlers, Next, Handlers, Methods
<1>2. CASE PlayerStep \/ UNCHANGED serverVars
  BY <1>2 DEF PlayerStep, serverVars
<1>3. ASSUME NEW c \in Clients, Serve(c)
      PROVE  Next
  BY <1>3, ServeIsRequest DEF Next, Handlers, Methods
<1>. QED
  BY <1>1, <1>2, <1>3 DEF ServerNext

LEMMA StepPlayers == [ServerNext]_serverVars => [Pool!Next]_(Pool!vars)
<1>. SUFFICES ASSUME [ServerNext]_serverVars
              PROVE  Pool!Next \/ UNCHANGED Pool!vars
  OBVIOUS
<1>1. CASE ConnectionStep \/ UNCHANGED serverVars
  BY <1>1 DEF ConnectionStep, serverVars, poolVars, Pool!vars
<1>2. CASE PlayerStep
  BY <1>2 DEF PlayerStep, Pool!Next
<1>3. ASSUME NEW c \in Clients, Serve(c)
      PROVE  Pool!Next \/ UNCHANGED Pool!vars
  BY <1>3 DEF Serve, ServeList, ServeOther, ServeRefuse, ServeRemove, poolVars, Pool!vars,
              Pool!Next
<1>. QED
  BY <1>1, <1>2, <1>3 DEF ServerNext

\* The connection layer behaves in the composition as it does alone.
THEOREM ConnectionsTheorem == ServerSpec => Spec
BY StepConnections, PTL DEF ServerSpec, ServerInit, Spec

\* So does the registry of players: each of its steps is one of Players.
THEOREM PlayersTheorem == ServerSpec => Pool!Spec
BY StepPlayers, PTL DEF ServerSpec, ServerInit, Pool!Spec

LEMMA PoolInvariance == ServerSpec => []Registry!IInv
<1>1. Pool!Init => Registry!Init
  BY DEF Pool!Init, Registry!Init
<1>2. [Pool!Next]_(Pool!vars) => [Registry!Next]_(Registry!vars)
  <2>. SUFFICES ASSUME [Pool!Next]_(Pool!vars)
                PROVE  Registry!Next \/ UNCHANGED Registry!vars
    OBVIOUS
  <2>1. ASSUME NEW id \in Ids, Pool!Disconnect(id)
        PROVE  Registry!Disconnect(id)
    BY <2>1 DEF Pool!Disconnect, Registry!Disconnect, Pool!RemovePlayer, Registry!RemovePlayer,
                Pool!Restrict, Registry!Restrict, Pool!Registered, Registry!Registered
  <2>2. ASSUME NEW id \in Ids, NEW n \in Names, Pool!Connect(id, n)
        PROVE  Registry!Connect(id, n)
    BY <2>2 DEF Pool!Connect, Registry!Connect, Pool!AddPlayer, Registry!AddPlayer,
                Pool!Emplace, Registry!Emplace
  <2>3. ASSUME NEW id \in Ids, NEW n \in Names, Pool!Rename(id, n)
        PROVE  Registry!Rename(id, n)
    BY <2>3 DEF Pool!Rename, Registry!Rename
  <2>4. /\ Registry!Connected = Pool!Connected
        /\ Registry!Registered = Pool!Registered
        /\ \A n : Registry!Bearers(n) = Pool!Bearers(n)
    BY DEF Pool!Connected, Registry!Connected, Pool!Registered, Registry!Registered,
           Pool!Bearers, Registry!Bearers
  <2>5. ASSUME NEW id \in Ids, NEW n \in Names, NEW message, Pool!Remove(n, id, message)
        PROVE  Registry!Remove(n, id, message)
    BY <2>4, <2>5 DEF Pool!Remove, Registry!Remove
  <2>6. ASSUME NEW n \in Names, Pool!Refuse(n)
        PROVE  Registry!Refuse(n)
    BY <2>4, <2>6 DEF Pool!Refuse, Registry!Refuse, Pool!Refuses, Registry!Refuses
  <2>7. CASE Pool!List
    BY <2>4, <2>7 DEF Pool!List, Registry!List, Registry!Next, Pool!Row, Registry!Row,
                      Pool!Copied, Registry!Copied
  <2>8. CASE UNCHANGED Pool!vars
    BY <2>8 DEF Pool!vars, Registry!vars
  <2>. QED
    BY <2>1, <2>2, <2>3, <2>5, <2>6, <2>7, <2>8 DEF Pool!Next, Registry!Next
<1>3. Registry!Spec => []Registry!IInv
  <2>1. \A n \in Names : Len([m \in Names |-> << >>][n]) \in Nat
    OBVIOUS
  <2>. QED
    BY <2>1, NoNamesakeAssumption, Registry!Invariance
<1>. QED
  BY <1>1, <1>2, <1>3, PlayersTheorem, PTL DEF Pool!Spec, Registry!Spec

-----------------------------------------------------------------------------
\* The inductive invariant of the composition, beside those of its components.
Joined ==
  /\ told \in [Clients -> [to : Names \cup {NoName}, says : Says]]
  /\ leaving \subseteq Pool!Connected
  /\ \A id \in Ids : name[id] = NoName => entered[id] = NoName
  /\ EffectsAnswered

LEMMA InitJoined == ServerInit => Joined
<1>. SUFFICES ASSUME ServerInit
              PROVE  Joined
  OBVIOUS
<1>1. told \in [Clients -> [to : Names \cup {NoName}, says : Says]]
  BY DEF ServerInit, Nothing, Says
<1>2. \A c \in Clients : told[c] = Nothing /\ reply[c] = "none"
  BY DEF ServerInit, Init
<1>. QED
  BY <1>1, <1>2 DEF ServerInit, Pool!Init, Joined, EffectsAnswered

LEMMA PlayerStepJoined ==
  ASSUME IInv, Registry!IInv, Joined, PlayerStep
  PROVE  Joined'
<1>. /\ name \in [Ids -> Names \cup {NoName}] /\ entered \in [Ids -> Names \cup {NoName}]
     /\ leaving \subseteq Ids
  BY DEF Registry!IInv, Registry!TypeOK, Registry!Slots
<1>. UNCHANGED <<told, reply>>
  BY DEF PlayerStep, vars, ops
<1>. USE NoNamesakeAssumption DEF Joined, Pool!Connected, EffectsAnswered
<1>1. ASSUME NEW id \in Ids, Pool!Disconnect(id)
      PROVE  Joined'
  BY <1>1 DEF Pool!Disconnect
<1>2. ASSUME NEW id \in Ids, NEW n \in Names, Pool!Connect(id, n)
      PROVE  Joined'
  BY <1>2 DEF Pool!Connect
<1>3. ASSUME NEW id \in Ids, NEW n \in Names, Pool!Rename(id, n)
      PROVE  Joined'
  BY <1>3 DEF Pool!Rename
<1>. QED
  BY <1>1, <1>2, <1>3 DEF PlayerStep

LEMMA ConnectionStepJoined ==
  ASSUME IInv, Joined, ConnectionStep
  PROVE  Joined'
<1>1. UNCHANGED <<poolVars, told>>
  BY DEF ConnectionStep
<1>2. \A c \in Clients : reply'[c] = "command" <=> reply[c] = "command"
  <2>. /\ reply \in [Clients -> {"none", "command", "empty"}]
       /\ \A c \in Clients : read[c] \in Queued => reply[c] = "none"
    BY DEF IInv, TypeOK, ExchangeOrder
  <2>1. ASSUME NEW c \in Clients, ProcessRequest(c, "other")
        PROVE  \A d \in Clients : reply'[d] = "command" <=> reply[d] = "command"
    BY <2>1 DEF ProcessRequest, Queued
  <2>2. CASE UNCHANGED reply
    BY <2>2
  <2>. QED
    BY <2>1, <2>2 DEF ConnectionStep, QuietHandlers, Environment, ops, AcceptCompletes,
         OnGameModeInit, OnGameModeExit, Connect, PeerResets, ReadCompletes, WriteCompletes,
         DeadlineExpires, TickBegin, TickEnd, AcceptDone, AcceptFailed, ReadFailed,
         RequestThrows, WriteDone, DeadlineClosed, DeadlineCancelled
<1>. QED
  BY <1>1, <1>2 DEF Joined, EffectsAnswered, poolVars, Pool!Connected

\* A client who has been told nothing can be told anything.
LEMMA FirstAnswer ==
  ASSUME IInv, Joined, NEW c \in Clients, Serve(c)
  PROVE  /\ told[c] = Nothing
         /\ told[c].says = "nothing"
         /\ reply' = [reply EXCEPT ![c] = "command"]
         /\ reply \in [Clients -> {"none", "command", "empty"}]
<1>1. /\ read[c] = "ok"
      /\ reply' = [reply EXCEPT ![c] = "command"]
  BY ServeIsRequest DEF ProcessRequest
<1>2. reply[c] = "none" /\ reply \in [Clients -> {"none", "command", "empty"}]
  BY <1>1 DEF IInv, TypeOK, ExchangeOrder, Queued
<1>3. told[c] = Nothing
  BY <1>2 DEF Joined, EffectsAnswered
<1>4. Nothing.says = "nothing"
  BY DEF Nothing
<1>. QED
  BY <1>1, <1>2, <1>3, <1>4

\* The response of a client who had none leaves those of the others.
LEMMA OneMoreAnswer ==
  ASSUME IInv, Joined, NEW c \in Clients, Serve(c),
         NEW to \in Names \cup {NoName}, NEW says \in Says \ {"nothing"},
         Tell(c, to, says), UNCHANGED entered
  PROVE  /\ told' \in [Clients -> [to : Names \cup {NoName}, says : Says]]
         /\ told'[c].to = to /\ told'[c].says = says
         /\ \A d \in Clients : told'[d] # Nothing <=> reply'[d] = "command"
         /\ \A id \in leaving : \E d \in Clients :
              told'[d].to = entered'[id] /\ told'[d].says \in {"got kicked", "got banned"}
<1>1. /\ told' = [told EXCEPT ![c] = [to |-> to, says |-> says]]
      /\ told \in [Clients -> [to : Names \cup {NoName}, says : Says]]
  BY DEF Tell, Joined
<1>2. /\ told' \in [Clients -> [to : Names \cup {NoName}, says : Says]]
      /\ told'[c].to = to /\ told'[c].says = says
      /\ \A d \in Clients \ {c} : told'[d] = told[d]
  BY <1>1
<1>3. ASSUME NEW d \in Clients
      PROVE  told'[d] # Nothing <=> reply'[d] = "command"
  <2>1. told'[c] # Nothing
    BY <1>2 DEF Nothing
  <2>2. reply'[c] = "command"
    BY FirstAnswer
  <2>3. CASE d # c
    <3>1. told'[d] = told[d] /\ reply'[d] = reply[d]
      BY <1>2, <2>3, FirstAnswer
    <3>. QED
      BY <3>1 DEF Joined, EffectsAnswered
  <2>4. CASE d = c
    BY <2>1, <2>2, <2>4
  <2>. QED
    BY <2>3, <2>4
<1>4. ASSUME NEW id \in leaving
      PROVE  \E d \in Clients :
               told'[d].to = entered'[id] /\ told'[d].says \in {"got kicked", "got banned"}
  <2>1. PICK d \in Clients :
          told[d].to = entered[id] /\ told[d].says \in {"got kicked", "got banned"}
    BY DEF Joined, EffectsAnswered
  <2>2. d # c
    BY <2>1, FirstAnswer
  <2>. QED
    BY <1>2, <2>1, <2>2
<1>. QED
  BY <1>2, <1>3, <1>4

LEMMA ServeJoined ==
  ASSUME IInv, Registry!IInv, Joined, NEW c \in Clients, Serve(c)
  PROVE  Joined'
<1>1. ASSUME NEW to \in Names \cup {NoName}, NEW says \in Says \ {"nothing"},
             Tell(c, to, says), UNCHANGED <<name, entered, leaving>>
      PROVE  Joined'
  BY <1>1, OneMoreAnswer DEF Joined, EffectsAnswered, Pool!Connected
<1>2. CASE ServeList(c) \/ ServeOther(c)
  <2>1. Tell(c, NoName, "other") /\ UNCHANGED <<name, entered, leaving>>
    BY <1>2 DEF ServeList, ServeOther, Pool!List, poolVars
  <2>. QED
    BY <1>1, <2>1 DEF Says
<1>3. ASSUME NEW n \in Names, ServeRefuse(c, n)
      PROVE  Joined'
  <2>1. Tell(c, n, "invalid player") /\ UNCHANGED <<name, entered, leaving>>
    BY <1>3 DEF ServeRefuse, Pool!Refuse
  <2>. QED
    BY <1>1, <2>1 DEF Says, Pool!Messages
<1>4. ASSUME NEW n \in Names, NEW id \in Ids, NEW message \in {"got kicked", "got banned"},
             ServeRemove(c, n, id, message)
      PROVE  Joined'
  <2>1. /\ id \in Pool!Connected /\ entered[id] = n
        /\ leaving' = leaving \cup {id}
        /\ Tell(c, n, message)
        /\ name' = name /\ entered' = entered
    BY <1>4 DEF ServeRemove, Pool!Remove, Pool!Bearers, Pool!Registered, Registry!IInv,
                Registry!RegistryIsPool, Registry!Connected, Registry!Registered
  <2>2. message \in Says \ {"nothing"} /\ n \in Names \cup {NoName}
    BY DEF Says, Pool!Messages
  <2>3. /\ told' \in [Clients -> [to : Names \cup {NoName}, says : Says]]
        /\ told'[c].to = n /\ told'[c].says = message
        /\ \A d \in Clients : told'[d] # Nothing <=> reply'[d] = "command"
        /\ \A other \in leaving : \E d \in Clients :
             told'[d].to = entered'[other] /\ told'[d].says \in {"got kicked", "got banned"}
    BY <2>1, <2>2, OneMoreAnswer
  <2>4. told'[c].to = entered'[id] /\ told'[c].says \in {"got kicked", "got banned"}
    BY <2>1, <2>3
  <2>5. EffectsAnswered'
    BY <2>1, <2>3, <2>4 DEF EffectsAnswered
  <2>. QED
    BY <2>1, <2>3, <2>5 DEF Joined, Pool!Connected
<1>. QED
  BY <1>2, <1>3, <1>4 DEF Serve

LEMMA JoinedInvariance == ServerSpec => [](IInv /\ PollsInGameMode /\ Registry!IInv /\ Joined)
<1>1. IInv /\ Registry!IInv /\ Joined /\ [ServerNext]_serverVars => Joined'
  <2>. SUFFICES ASSUME IInv, Registry!IInv, Joined, [ServerNext]_serverVars
                PROVE  Joined'
    OBVIOUS
  <2>1. CASE UNCHANGED serverVars
    BY <2>1 DEF serverVars, vars, ops, poolVars, Joined, EffectsAnswered, Pool!Connected
  <2>. QED
    BY <2>1, PlayerStepJoined, ConnectionStepJoined, ServeJoined DEF ServerNext
<1>. QED
  BY <1>1, InitJoined, ConnectionsTheorem, Invariance, PollsInvariance, PoolInvariance, PTL
     DEF ServerSpec

\* Nobody is removed whom no response names.
THEOREM AnsweredTheorem == ServerSpec => []EffectsAnswered
BY JoinedInvariance, PTL DEF Joined

-----------------------------------------------------------------------------
\* Each request is served at one instant, on the players of that instant.
LEMMA ServeRefines ==
  ASSUME IInv, PollsInGameMode, Registry!IInv, Joined, NEW c \in Clients, Serve(c)
  PROVE  Cmd!Next
<1>1. /\ ready
      /\ UNCHANGED ready
      /\ told[c] = Cmd!Nothing
  BY ServeIsRequest, FirstAnswer DEF ProcessRequest, PollsInGameMode, Nothing, Cmd!Nothing
<1>2. CASE ServeList(c) \/ ServeOther(c)
  BY <1>1, <1>2 DEF ServeList, ServeOther, Pool!List, poolVars, Tell, Cmd!Next, Cmd!Other, Cmd!Tell
<1>3. ASSUME NEW n \in Names, ServeRefuse(c, n)
      PROVE  Cmd!Refuse(c, n)
  <2>1. \A id \in Ids : entered[id] # n
    BY <1>3, NoNamesakeAssumption
       DEF ServeRefuse, Pool!Refuse, Pool!Refuses, Pool!Bearers, Pool!Connected, Pool!Registered,
           Joined, Registry!IInv, Registry!RegistryIsPool, Registry!Connected, Registry!Registered
  <2>. QED
    BY <1>1, <1>3, <2>1 DEF ServeRefuse, Pool!Refuse, Tell, Cmd!Refuse, Cmd!Tell
<1>4. ASSUME NEW n \in Names, NEW id \in Ids, NEW message, ServeRemove(c, n, id, message)
      PROVE  Cmd!Remove(c, n, message)
  <2>1. entered[id] = n
    BY <1>4 DEF ServeRemove, Pool!Remove, Pool!Bearers, Pool!Registered, Registry!IInv,
                Registry!RegistryIsPool, Registry!Connected, Registry!Registered
  <2>. QED
    BY <1>1, <1>4, <2>1 DEF ServeRemove, Pool!Remove, Tell, Cmd!Remove, Cmd!Tell
<1>. QED
  BY <1>2, <1>3, <1>4 DEF Serve, Cmd!Next

LEMMA PlayerStepRefines ==
  ASSUME Registry!IInv, Joined, PlayerStep
  PROVE  Cmd!Next \/ UNCHANGED Cmd!cmdvars
<1>1. UNCHANGED <<ready, told>>
  BY DEF PlayerStep, vars
<1>2. ASSUME NEW id \in Ids, Pool!Disconnect(id)
      PROVE  Cmd!Leave(id)
  <2>1. entered[id] # NoName
    BY <1>2, NoNamesakeAssumption DEF Pool!Disconnect, Registry!IInv, Registry!Connected
  <2>. QED
    BY <1>1, <1>2, <2>1 DEF Pool!Disconnect, Cmd!Leave
<1>3. ASSUME NEW id \in Ids, NEW n \in Names, Pool!Connect(id, n)
      PROVE  Cmd!Enter(id, n)
  BY <1>1, <1>3 DEF Pool!Connect, Cmd!Enter, Joined
<1>4. ASSUME NEW id \in Ids, NEW n \in Names, Pool!Rename(id, n)
      PROVE  UNCHANGED Cmd!cmdvars
  BY <1>1, <1>4 DEF Pool!Rename, Cmd!cmdvars
<1>. QED
  BY <1>2, <1>3, <1>4 DEF PlayerStep, Cmd!Next

LEMMA ConnectionStepRefines ==
  ASSUME IInv, ConnectionStep
  PROVE  Cmd!Next \/ UNCHANGED Cmd!cmdvars
<1>1. UNCHANGED <<entered, leaving, told>>
  BY DEF ConnectionStep, poolVars
<1>2. ready \in BOOLEAN
  BY DEF IInv, TypeOK
<1>3. CASE OnGameModeInit
  BY <1>1, <1>2, <1>3 DEF OnGameModeInit, Cmd!Next, Cmd!OpenClose, Cmd!cmdvars
<1>4. CASE OnGameModeExit
  BY <1>1, <1>2, <1>4 DEF OnGameModeExit, Cmd!Next, Cmd!OpenClose, Cmd!cmdvars
<1>5. CASE UNCHANGED ready
  BY <1>1, <1>5 DEF Cmd!cmdvars
<1>. QED
  BY <1>3, <1>4, <1>5
     DEF ConnectionStep, QuietHandlers, Environment, AcceptCompletes, Connect, PeerResets,
         ReadCompletes, WriteCompletes, DeadlineExpires, TickBegin, TickEnd, AcceptDone,
         AcceptFailed, ReadFailed, ProcessRequest, RequestThrows, WriteDone, DeadlineClosed,
         DeadlineCancelled

\* The sessions, the ticks and the registry implement one object that serves requests.
THEOREM CommandsTheorem == ServerSpec => ImplementsCommands
<1>1. ServerInit => Cmd!Init
  BY DEF ServerInit, Init, Pool!Init, Cmd!Init, Nothing, Cmd!Nothing
<1>2. IInv /\ PollsInGameMode /\ Registry!IInv /\ Joined /\ [ServerNext]_serverVars
        => [Cmd!Next]_(Cmd!cmdvars)
  <2>. SUFFICES ASSUME IInv, PollsInGameMode, Registry!IInv, Joined, [ServerNext]_serverVars
                PROVE  Cmd!Next \/ UNCHANGED Cmd!cmdvars
    OBVIOUS
  <2>1. CASE UNCHANGED serverVars
    BY <2>1 DEF serverVars, vars, poolVars, Cmd!cmdvars
  <2>. QED
    BY <2>1, ServeRefines, PlayerStepRefines, ConnectionStepRefines DEF ServerNext
<1>. QED
  BY <1>1, <1>2, JoinedInvariance, PTL DEF ServerSpec, ImplementsCommands, Cmd!Spec
===============================================================================
