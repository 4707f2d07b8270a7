----------------------------- MODULE SessionsProofs ----------------------------
(***************************************************************************)
(* Theorems about Sessions, for any set of clients, any number of          *)
(* descriptors and both builds.                                            *)
(***************************************************************************)
EXTENDS Sessions, FiniteSetTheorems, TLAPS

\* The parts of the inductive invariant; each is also an invariant of the runs.
IInv ==
  /\ TypeOK
  /\ DeadlineArmed
  /\ ClosedIsQuiet
  /\ ExchangeOrder
  /\ OneIncoming

LEMMA InitIInv == Init => IInv
BY DEF Init, IInv, TypeOK, DeadlineArmed, ClosedIsQuiet, ExchangeOrder, OneIncoming,
       SocketState, OpState, Queued

\* What Listen leaves behind, called with the sockets s while Endpoint::socket_ is empty.
LEMMA ListenEffect ==
  ASSUME NEW s \in [Clients -> SocketState], Listen(s),
         \A c \in Clients : s[c] # "accepted"
  PROVE  /\ socket' \in [Clients -> SocketState]
         /\ accept' \in {"pending", "ok", "failed"}
         /\ \A c \in Clients :
              socket'[c] = s[c] \/ (s[c] = "queued" /\ socket'[c] = "accepted")
         /\ OneIncoming'
<1>1. CASE accept' = "ok" /\ \E c \in Backlog(s) : socket' = [s EXCEPT ![c] = "accepted"]
  <2>1. PICK c \in Backlog(s) : socket' = [s EXCEPT ![c] = "accepted"]
    BY <1>1
  <2>2. c \in Clients /\ s[c] = "queued"
    BY <2>1 DEF Backlog
  <2>. QED
    BY <1>1, <2>1, <2>2 DEF OneIncoming, SocketState
<1>2. CASE accept' \in {"pending", "failed"} /\ socket' = s
  BY <1>2 DEF OneIncoming
<1>. QED
  BY <1>1, <1>2 DEF Listen, AcceptNow

\* One step per action of Next.
LEMMA StepIInv == IInv /\ [Next]_vars => IInv'
<1>. SUFFICES ASSUME IInv, [Next]_vars
              PROVE  IInv'
  OBVIOUS
<1>. USE DEF IInv
<1>1. ASSUME NEW c \in Clients, Connect(c)
      PROVE  IInv'
  BY <1>1 DEF Connect, ops, TypeOK, DeadlineArmed, ClosedIsQuiet, ExchangeOrder,
              OneIncoming, SocketState, OpState, Queued
<1>2. ASSUME NEW c \in Clients, PeerResets(c)
      PROVE  IInv'
  BY <1>2 DEF PeerResets, ops, TypeOK, DeadlineArmed, ClosedIsQuiet, ExchangeOrder,
              OneIncoming
<1>3. CASE AcceptCompletes
  <2>1. Listen(socket) /\ \A c \in Clients : socket[c] # "accepted"
    BY <1>3 DEF AcceptCompletes, Listen, OneIncoming
  <2>. QED
    BY <1>3, <2>1, ListenEffect
       DEF AcceptCompletes, ops, TypeOK, DeadlineArmed, ClosedIsQuiet, ExchangeOrder
<1>4. ASSUME NEW c \in Clients, ReadCompletes(c)
      PROVE  IInv'
  BY <1>4 DEF ReadCompletes, TypeOK, DeadlineArmed, ClosedIsQuiet, ExchangeOrder,
              OneIncoming, OpState, Queued
<1>5. ASSUME NEW c \in Clients, WriteCompletes(c)
      PROVE  IInv'
  BY <1>5 DEF WriteCompletes, TypeOK, DeadlineArmed, ClosedIsQuiet, ExchangeOrder,
              OneIncoming, OpState, Queued
<1>6. ASSUME NEW c \in Clients, DeadlineExpires(c)
      PROVE  IInv'
  BY <1>6 DEF DeadlineExpires, TypeOK, DeadlineArmed, ClosedIsQuiet, ExchangeOrder,
              OneIncoming, OpState, Queued
<1>7. CASE OnGameModeInit \/ OnGameModeExit \/ TickBegin \/ TickEnd \/ UNCHANGED vars
  BY <1>7 DEF OnGameModeInit, OnGameModeExit, TickBegin, TickEnd, vars, ops, TypeOK,
              DeadlineArmed, ClosedIsQuiet, ExchangeOrder, OneIncoming
<1>8. ASSUME NEW c \in Clients, AcceptDone(c)
      PROVE  IInv'
  <2>. DEFINE s == [socket EXCEPT ![c] = "open"]
  <2>1. /\ s \in [Clients -> SocketState]
        /\ \A d \in Clients : s[d] # "accepted"
        /\ Listen(s)
    BY <1>8 DEF AcceptDone, OneIncoming, TypeOK, SocketState
  <2>2. /\ socket' \in [Clients -> SocketState]
        /\ accept' \in {"pending", "ok", "failed"}
        /\ \A d \in Clients :
             socket'[d] = s[d] \/ (s[d] = "queued" /\ socket'[d] = "accepted")
        /\ OneIncoming'
    BY <2>1, ListenEffect
  <2>3. /\ c \notin sessions /\ read[c] = "none" /\ reply[c] = "none" /\ write[c] = "none"
        /\ socket'[c] = "open" /\ sessions' = sessions \cup {c}
        /\ read' = [read EXCEPT ![c] = "pending"]
        /\ deadline' = [deadline EXCEPT ![c] = "pending"]
        /\ UNCHANGED <<ready, tick, reset, write, reply>>
    BY <1>8, <2>2 DEF AcceptDone, Start, ExchangeOrder, TypeOK, Queued
  <2>4. \A d \in Clients \ {c} :
          socket'[d] = socket[d] \/ (socket[d] = "queued" /\ socket'[d] = "accepted")
    BY <2>2 DEF TypeOK
  <2>. HIDE DEF s
  <2>5. TypeOK'
    BY <2>2, <2>3 DEF TypeOK, OpState
  <2>6. DeadlineArmed' /\ ClosedIsQuiet'
    BY <2>3, <2>4 DEF TypeOK, DeadlineArmed, ClosedIsQuiet
  <2>7. ExchangeOrder'
    BY <2>3, <2>4 DEF TypeOK, ExchangeOrder, Queued
  <2>. QED
    BY <2>2, <2>5, <2>6, <2>7
<1>9. CASE AcceptFailed
  <2>1. Listen(socket) /\ \A c \in Clients : socket[c] # "accepted"
    BY <1>9 DEF AcceptFailed, OneIncoming
  <2>. QED
    BY <1>9, <2>1, ListenEffect
       DEF AcceptFailed, ops, TypeOK, DeadlineArmed, ClosedIsQuiet, ExchangeOrder
<1>10. ASSUME NEW c \in Clients, ReadFailed(c)
       PROVE  IInv'
  BY <1>10 DEF ReadFailed, TypeOK, DeadlineArmed, ClosedIsQuiet, ExchangeOrder,
               OneIncoming, OpState, Queued
<1>11. ASSUME NEW c \in Clients, NEW method \in Methods, ProcessRequest(c, method)
       PROVE  IInv'
  BY <1>11 DEF ProcessRequest, TypeOK, DeadlineArmed, ClosedIsQuiet, ExchangeOrder,
               OneIncoming, OpState, SocketState, Queued
<1>12. ASSUME NEW c \in Clients, NEW method \in Methods, RequestThrows(c, method)
       PROVE  IInv'
  BY <1>12 DEF RequestThrows, TypeOK, DeadlineArmed, ClosedIsQuiet, ExchangeOrder,
               OneIncoming, OpState, Queued
<1>13. ASSUME NEW c \in Clients, WriteDone(c)
       PROVE  IInv'
  BY <1>13 DEF WriteDone, Cancelled, TypeOK, DeadlineArmed, ClosedIsQuiet, ExchangeOrder,
               OneIncoming, OpState, SocketState, Queued
<1>14. ASSUME NEW c \in Clients, DeadlineClosed(c)
       PROVE  IInv'
  BY <1>14 DEF DeadlineClosed, Cancelled, TypeOK, DeadlineArmed, ClosedIsQuiet,
               ExchangeOrder, OneIncoming, OpState, SocketState, Queued
<1>15. ASSUME NEW c \in Clients, DeadlineCancelled(c)
       PROVE  IInv'
  BY <1>15 DEF DeadlineCancelled, TypeOK, DeadlineArmed, ClosedIsQuiet, ExchangeOrder,
               OneIncoming, OpState, Queued
<1>. QED
  BY <1>1, <1>2, <1>3, <1>4, <1>5, <1>6, <1>7, <1>8, <1>9, <1>10, <1>11, <1>12, <1>13,
     <1>14, <1>15 DEF Next, Environment, Handlers

LEMMA Invariance == Spec => []IInv
BY InitIInv, StepIInv, PTL DEF Spec

\* Every variable stays in its range.
THEOREM TypeCorrect == Spec => []TypeOK
BY Invariance, PTL DEF IInv

\* No session's connection is ever open without a running or expired deadline.
THEOREM DeadlineTheorem == Spec => []DeadlineArmed
BY Invariance, PTL DEF IInv

\* The close at the deadline leaves no operation waiting on the socket.
THEOREM QuietTheorem == Spec => []ClosedIsQuiet
BY Invariance, PTL DEF IInv

\* Request, reply, write and shutdown come in order in every session.
THEOREM OrderTheorem == Spec => []ExchangeOrder
BY Invariance, PTL DEF IInv

\* Endpoint::socket_ holds one connection exactly while its handler is queued.
THEOREM IncomingTheorem == Spec => []OneIncoming
BY Invariance, PTL DEF IInv

-----------------------------------------------------------------------------
\* A tick is only under way in a gamemode: OnGameModeExit never runs inside poll().
PollsInGameMode == tick = "polling" => ready

LEMMA PollsInvariance == Spec => []PollsInGameMode
<1>1. Init => PollsInGameMode
  BY DEF Init, PollsInGameMode
<1>2. PollsInGameMode /\ [Next]_vars => PollsInGameMode'
  BY DEF PollsInGameMode, Next, Environment, Handlers, vars, ops, AcceptCompletes,
         OnGameModeInit, OnGameModeExit, Connect, PeerResets, ReadCompletes, WriteCompletes,
         DeadlineExpires, TickBegin, TickEnd, AcceptDone, AcceptFailed, ReadFailed,
         ProcessRequest, RequestThrows, WriteDone, DeadlineClosed, DeadlineCancelled
<1>. QED
  BY <1>1, <1>2, PTL DEF Spec

\* No reply is made, and no command run, outside a gamemode.
THEOREM GameModeTheorem == Spec => RepliesInGameMode
<1>1. PollsInGameMode /\ [Next]_vars => [reply' # reply => ready]_vars
  BY DEF PollsInGameMode, Next, Environment, Handlers, vars, ops, AcceptCompletes,
         OnGameModeInit, OnGameModeExit, Connect, PeerResets, ReadCompletes, WriteCompletes,
         DeadlineExpires, TickBegin, TickEnd, AcceptDone, AcceptFailed, ReadFailed,
         ProcessRequest, RequestThrows, WriteDone, DeadlineClosed, DeadlineCancelled
<1>. QED
  BY <1>1, PollsInvariance, PTL DEF Spec, RepliesInGameMode

-----------------------------------------------------------------------------
\* A failed accept has left a connection in the backlog, and only a successful one
\* takes it from there.
FailedAcceptWaits == accept = "failed" => Backlog(socket) # {}

LEMMA ListenWaits ==
  ASSUME NEW s \in [Clients -> SocketState], Listen(s)
  PROVE  FailedAcceptWaits'
BY DEF Listen, AcceptNow, FailedAcceptWaits, Backlog

LEMMA StepFailedAcceptWaits ==
  IInv /\ FailedAcceptWaits /\ [Next]_vars => FailedAcceptWaits'
<1>. SUFFICES ASSUME IInv, FailedAcceptWaits, [Next]_vars
              PROVE  FailedAcceptWaits'
  OBVIOUS
<1>1. CASE AcceptCompletes
  BY <1>1, ListenWaits DEF AcceptCompletes, Listen, IInv, TypeOK
<1>2. CASE AcceptFailed
  BY <1>2, ListenWaits DEF AcceptFailed, IInv, TypeOK
<1>3. ASSUME NEW c \in Clients, AcceptDone(c)
      PROVE  FailedAcceptWaits'
  <2>1. [socket EXCEPT ![c] = "open"] \in [Clients -> SocketState]
    BY DEF IInv, TypeOK, SocketState
  <2>. QED
    BY <1>3, <2>1, ListenWaits DEF AcceptDone
<1>4. CASE /\ accept' = accept
           /\ \A c \in Clients : socket[c] = "queued" => socket'[c] = "queued"
  BY <1>4 DEF FailedAcceptWaits, Backlog
<1>5. ASSUME NEW c \in Clients,
             Connect(c) \/ WriteDone(c) \/ DeadlineClosed(c)
      PROVE  /\ accept' = accept
             /\ \A d \in Clients : socket[d] = "queued" => socket'[d] = "queued"
  BY <1>5 DEF Connect, WriteDone, DeadlineClosed, IInv, TypeOK, ExchangeOrder, Queued
<1>. QED
  BY <1>1, <1>2, <1>3, <1>4, <1>5
     DEF Next, Environment, Handlers, vars, ops, OnGameModeInit, OnGameModeExit, PeerResets,
         ReadCompletes, WriteCompletes, DeadlineExpires, TickBegin, TickEnd, ReadFailed,
         ProcessRequest, RequestThrows, DeadlineCancelled

\* What has been answered, and has its deadline cancelled, stays so.
LEMMA AnsweredStays ==
  ASSUME IInv, [Next]_vars, NEW c \in Clients, Answered(c)
  PROVE  Answered(c)'
<1>1. CASE AcceptCompletes
  <2>1. Listen(socket) /\ \A d \in Clients : socket[d] # "accepted"
    BY <1>1 DEF AcceptCompletes, Listen, OneIncoming, IInv
  <2>. QED
    BY <1>1, <2>1, ListenEffect DEF AcceptCompletes, ops, Answered, IInv, TypeOK
<1>2. CASE AcceptFailed
  <2>1. Listen(socket) /\ \A d \in Clients : socket[d] # "accepted"
    BY <1>2 DEF AcceptFailed, OneIncoming, IInv
  <2>. QED
    BY <1>2, <2>1, ListenEffect DEF AcceptFailed, ops, Answered, IInv, TypeOK
<1>3. ASSUME NEW d \in Clients, AcceptDone(d)
      PROVE  Answered(c)'
  <2>. DEFINE s == [socket EXCEPT ![d] = "open"]
  <2>1. /\ s \in [Clients -> SocketState]
        /\ \A e \in Clients : s[e] # "accepted"
        /\ Listen(s)
        /\ c # d
    BY <1>3 DEF AcceptDone, OneIncoming, Answered, IInv, TypeOK, SocketState
  <2>2. socket'[c] = s[c] \/ s[c] = "queued"
    BY <2>1, ListenEffect
  <2>. QED
    BY <1>3, <2>1, <2>2 DEF AcceptDone, Start, Answered, IInv, TypeOK
<1>4. ASSUME NEW d \in Clients,
             \/ Connect(d) \/ DeadlineExpires(d) \/ WriteDone(d)
             \/ DeadlineClosed(d) \/ DeadlineCancelled(d)
      PROVE  Answered(c)'
  BY <1>4 DEF Connect, DeadlineExpires, WriteDone, DeadlineClosed, DeadlineCancelled, ops,
              Answered, Cancelled, IInv, TypeOK, ExchangeOrder, Queued
<1>5. CASE UNCHANGED <<socket, deadline>>
  BY <1>5 DEF Answered
<1>. QED
  BY <1>1, <1>2, <1>3, <1>4, <1>5
     DEF Next, Environment, Handlers, vars, ops, OnGameModeInit, OnGameModeExit, PeerResets,
         ReadCompletes, WriteCompletes, TickBegin, TickEnd, ReadFailed, ProcessRequest,
         RequestThrows

\* Once every descriptor is held by an answered session and a connection waits, the tick
\* never ends but by an exception.
THEOREM HangTheorem == Spec => HungForever
<1>. DEFINE Full == {c \in Clients : Answered(c)}
            HungStep == Hung => Hung' \/ tick' = "thrown"
<1>1. Init => FailedAcceptWaits
  BY DEF Init, FailedAcceptWaits
<1>2. ASSUME IInv, FailedAcceptWaits, [Next]_vars
      PROVE  [HungStep]_vars
  <2>. SUFFICES ASSUME Hung
                PROVE  Hung' \/ tick' = "thrown"
    OBVIOUS
  <2>1. Cardinality(Full') >= Descriptors
    <3>1. Full \subseteq Full'
      BY <1>2, AnsweredStays
    <3>2. IsFiniteSet(Full') /\ IsFiniteSet(Full)
      BY ClientsAssumption, FS_Subset
    <3>3. /\ Cardinality(Full) <= Cardinality(Full')
          /\ Cardinality(Full) \in Nat /\ Cardinality(Full') \in Nat
      BY <3>1, <3>2, FS_Subset, FS_CardinalityType
    <3>. QED
      BY <3>3, DescriptorsAssumption DEF Hung
  <2>2. Cardinality(Held(socket)) >= Descriptors
    <3>1. Full \subseteq Held(socket)
      BY DEF Held, Answered
    <3>2. IsFiniteSet(Held(socket)) /\ IsFiniteSet(Full)
      BY ClientsAssumption, FS_Subset DEF Held
    <3>3. /\ Cardinality(Full) <= Cardinality(Held(socket))
          /\ Cardinality(Full) \in Nat /\ Cardinality(Held(socket)) \in Nat
      BY <3>1, <3>2, FS_Subset, FS_CardinalityType
    <3>. QED
      BY <3>3, DescriptorsAssumption DEF Hung
  <2>3. CASE AcceptFailed
    <3>1. ~ (Cardinality(Held(socket)) < Descriptors)
      <4>1. IsFiniteSet(Held(socket))
        BY ClientsAssumption, FS_Subset DEF Held
      <4>. QED
        BY <2>2, <4>1, FS_CardinalityType, DescriptorsAssumption
    <3>2. accept' = "failed"
      BY <2>3, <1>2, <3>1 DEF AcceptFailed, Listen, AcceptNow, FailedAcceptWaits, Hung
    <3>. QED
      BY <2>1, <2>3, <3>2 DEF AcceptFailed, Hung
  <2>4. CASE accept' = accept /\ tick' \in {tick, "thrown"}
    BY <2>1, <2>4 DEF Hung
  <2>. QED
    BY <1>2, <2>3, <2>4
       DEF Next, Environment, Handlers, vars, ops, Hung, NothingQueued, Queued,
           AcceptCompletes, OnGameModeInit, OnGameModeExit, Connect, PeerResets,
           ReadCompletes, WriteCompletes, DeadlineExpires, TickBegin, TickEnd, AcceptDone,
           ReadFailed, ProcessRequest, RequestThrows, WriteDone, DeadlineClosed,
           DeadlineCancelled
<1>. QED
  BY <1>1, <1>2, Invariance, StepFailedAcceptWaits, PTL DEF Spec, HungForever

-----------------------------------------------------------------------------
\* The refinement: each step of the connection layer is a step of Connections or leaves
\* what Connections sees unchanged.

PhaseMap == [c \in Clients |-> Phase(c)]

\* Steps that put no socket into another phase.
LEMMA PhaseUnchanged ==
  ASSUME \A c \in Clients :
           \/ socket'[c] = socket[c]
           \/ {socket[c], socket'[c]} \subseteq {"none", "queued", "accepted"}
  PROVE  PhaseMap' = PhaseMap
<1>1. ASSUME NEW c \in Clients
      PROVE  Phase(c)' = Phase(c)
  BY DEF Phase
<1>. QED
  BY <1>1 DEF PhaseMap

\* Steps that change the phase of one socket only.
LEMMA PhaseChanged ==
  ASSUME NEW c \in Clients,
         \A d \in Clients \ {c} :
           \/ socket'[d] = socket[d]
           \/ {socket[d], socket'[d]} \subseteq {"none", "queued", "accepted"}
  PROVE  PhaseMap' = [PhaseMap EXCEPT ![c] = Phase(c)']
<1>1. ASSUME NEW d \in Clients \ {c}
      PROVE  Phase(d)' = Phase(d)
  BY DEF Phase
<1>. QED
  BY <1>1 DEF PhaseMap

LEMMA StepRefines == IInv /\ [Next]_vars => [Conn!Next]_(Conn!cvars)
<1>. SUFFICES ASSUME IInv, [Next]_vars
              PROVE  Conn!Next \/ UNCHANGED Conn!cvars
  OBVIOUS
<1>. DEFINE Still == UNCHANGED <<PhaseMap, reply, tick>>
<1>1. ASSUME Still PROVE UNCHANGED Conn!cvars
  BY <1>1 DEF Conn!cvars, PhaseMap
<1>2. CASE AcceptCompletes
  <2>1. Listen(socket) /\ \A d \in Clients : socket[d] # "accepted"
    BY <1>2 DEF AcceptCompletes, Listen, OneIncoming, IInv
  <2>2. PhaseMap' = PhaseMap
    BY <2>1, ListenEffect, PhaseUnchanged DEF IInv, TypeOK
  <2>. QED
    BY <1>1, <1>2, <2>2 DEF AcceptCompletes, ops
<1>3. CASE AcceptFailed
  <2>1. Listen(socket) /\ \A d \in Clients : socket[d] # "accepted"
    BY <1>3 DEF AcceptFailed, OneIncoming, IInv
  <2>2. PhaseMap' = PhaseMap
    BY <2>1, ListenEffect, PhaseUnchanged DEF IInv, TypeOK
  <2>. QED
    BY <1>1, <1>3, <2>2 DEF AcceptFailed, ops
<1>4. ASSUME NEW c \in Clients, Connect(c)
      PROVE  UNCHANGED Conn!cvars
  <2>1. PhaseMap' = PhaseMap
    BY <1>4, PhaseUnchanged DEF Connect, IInv, TypeOK
  <2>. QED
    BY <1>1, <1>4, <2>1 DEF Connect, ops
<1>5. ASSUME NEW c \in Clients, AcceptDone(c)
      PROVE  Conn!Next
  <2>. DEFINE s == [socket EXCEPT ![c] = "open"]
  <2>1. /\ s \in [Clients -> SocketState]
        /\ \A d \in Clients : s[d] # "accepted"
        /\ Listen(s)
    BY <1>5 DEF AcceptDone, OneIncoming, IInv, TypeOK, SocketState
  <2>2. \A d \in Clients :
          socket'[d] = s[d] \/ (s[d] = "queued" /\ socket'[d] = "accepted")
    BY <2>1, ListenEffect
  <2>3. PhaseMap' = [PhaseMap EXCEPT ![c] = Phase(c)']
    <3>1. \A d \in Clients \ {c} :
            \/ socket'[d] = socket[d]
            \/ {socket[d], socket'[d]} \subseteq {"none", "queued", "accepted"}
      BY <2>2 DEF IInv, TypeOK
    <3>. QED
      BY <3>1, PhaseChanged
  <2>4. PhaseMap[c] = "absent" /\ Phase(c)' = "serving"
    BY <1>5, <2>2 DEF AcceptDone, PhaseMap, Phase, IInv, TypeOK
  <2>5. Conn!Accept(c)
    BY <1>5, <2>3, <2>4 DEF Conn!Accept, PhaseMap, AcceptDone
  <2>. QED
    BY <1>5, <2>5 DEF Conn!Next, AcceptDone
<1>6. ASSUME NEW c \in Clients, NEW method \in Methods, ProcessRequest(c, method)
      PROVE  Conn!Next
  <2>1. reply[c] = "none" /\ socket[c] \in {"open", "closed"}
    BY <1>6 DEF ProcessRequest, IInv, TypeOK, ExchangeOrder, Queued
  <2>2. PhaseMap[c] = IF socket[c] = "open" THEN "serving" ELSE "expired"
    BY <2>1 DEF PhaseMap, Phase
  <2>3. PhaseMap' = PhaseMap
    BY <1>6, PhaseUnchanged DEF ProcessRequest
  <2>4. CASE method = "served"
    <3>1. Conn!RunCommand(c)
      BY <1>6, <2>1, <2>2, <2>3, <2>4 DEF ProcessRequest, AsksPeer, Conn!RunCommand, PhaseMap
    <3>. QED
      BY <1>6, <3>1 DEF Conn!Next, ProcessRequest
  <2>5. CASE method # "served"
    <3>1. Conn!ReplyEmpty(c)
      BY <1>6, <2>1, <2>2, <2>3, <2>5 DEF ProcessRequest, Conn!ReplyEmpty, PhaseMap
    <3>. QED
      BY <1>6, <3>1 DEF Conn!Next, ProcessRequest
  <2>. QED
    BY <2>4, <2>5
<1>7. ASSUME NEW c \in Clients, NEW method \in Methods, RequestThrows(c, method)
      PROVE  Conn!Next
  <2>1. reply[c] = "none" /\ socket[c] \in {"open", "closed"}
    BY <1>7 DEF RequestThrows, IInv, TypeOK, ExchangeOrder, Queued
  <2>2. PhaseMap[c] \in {"serving", "expired"} /\ PhaseMap' = PhaseMap
    BY <1>7, <2>1, PhaseUnchanged DEF RequestThrows, PhaseMap, Phase
  <2>3. Conn!Fail(c)
    BY <1>7, <2>1, <2>2 DEF RequestThrows, Conn!Fail, PhaseMap
  <2>. QED
    BY <1>7, <2>3 DEF Conn!Next, RequestThrows
<1>8. ASSUME NEW c \in Clients, WriteDone(c)
      PROVE  Conn!Next \/ UNCHANGED Conn!cvars
  <2>1. socket[c] \in {"open", "closed"} /\ reply[c] # "none"
    BY <1>8 DEF WriteDone, IInv, TypeOK, ExchangeOrder, SocketState, Queued
  <2>2. CASE socket[c] = "closed"
    <3>1. PhaseMap' = PhaseMap
      BY <1>8, <2>2, PhaseUnchanged DEF WriteDone, IInv, TypeOK
    <3>. QED
      BY <1>1, <1>8, <3>1 DEF WriteDone
  <2>3. CASE socket[c] = "open"
    <3>1. PhaseMap' = [PhaseMap EXCEPT ![c] = Phase(c)']
      BY <1>8, PhaseChanged DEF WriteDone, IInv, TypeOK
    <3>2. PhaseMap[c] = "serving" /\ Phase(c)' = "answered"
      BY <1>8, <2>3 DEF WriteDone, PhaseMap, Phase, IInv, TypeOK
    <3>3. Conn!Answer(c)
      BY <1>8, <2>1, <3>1, <3>2 DEF WriteDone, Conn!Answer, PhaseMap
    <3>. QED
      BY <1>8, <3>3 DEF Conn!Next, WriteDone
  <2>. QED
    BY <2>1, <2>2, <2>3
<1>9. ASSUME NEW c \in Clients, DeadlineClosed(c)
      PROVE  Conn!Next \/ UNCHANGED Conn!cvars
  <2>1. socket[c] \in {"open", "shut", "closed"}
    BY <1>9 DEF DeadlineClosed, IInv, ExchangeOrder
  <2>2. CASE socket[c] = "closed"
    <3>1. PhaseMap' = PhaseMap
      BY <1>9, <2>2, PhaseUnchanged DEF DeadlineClosed, IInv, TypeOK
    <3>. QED
      BY <1>1, <1>9, <3>1 DEF DeadlineClosed
  <2>3. CASE socket[c] \in {"open", "shut"}
    <3>1. PhaseMap' = [PhaseMap EXCEPT ![c] = Phase(c)']
      BY <1>9, PhaseChanged DEF DeadlineClosed, IInv, TypeOK
    <3>2. PhaseMap[c] \in {"serving", "answered"} /\ Phase(c)' = "expired"
      BY <1>9, <2>3 DEF DeadlineClosed, PhaseMap, Phase, IInv, TypeOK
    <3>3. Conn!Expire(c)
      BY <1>9, <3>1, <3>2 DEF DeadlineClosed, Conn!Expire, PhaseMap
    <3>. QED
      BY <1>9, <3>3 DEF Conn!Next, DeadlineClosed
  <2>. QED
    BY <2>1, <2>2, <2>3
<1>10. CASE UNCHANGED <<socket, reply>> /\ (tick' = "thrown" <=> tick = "thrown")
  BY <1>10, PhaseUnchanged DEF Conn!cvars, PhaseMap
<1>. QED
  BY <1>2, <1>3, <1>4, <1>5, <1>6, <1>7, <1>8, <1>9, <1>10, <1>1
     DEF Next, Environment, Handlers, vars, ops, OnGameModeInit, OnGameModeExit, PeerResets,
         ReadCompletes, WriteCompletes, DeadlineExpires, TickBegin, TickEnd, ReadFailed,
         DeadlineCancelled

\* The connection layer implements Connections.
THEOREM RefinementTheorem == Spec => ImplementsConnections
<1>1. Init => Conn!Init
  BY DEF Init, Conn!Init, Phase
<1>. QED
  BY <1>1, StepRefines, Invariance, PTL DEF Spec, ImplementsConnections, Conn!Spec
===============================================================================
