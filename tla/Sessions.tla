------------------------------- MODULE Sessions -------------------------------
(***************************************************************************)
(* The connection layer of the plugin: Endpoint (the acceptor), Session    *)
(* (one HTTP exchange and its 60 s deadline), SessionManager (the set of   *)
(* sessions) and ProcessTick, which runs their completion handlers.        *)
(*                                                                         *)
(* Everything runs on the SA-MP main thread.  An asynchronous operation is *)
(* "pending" until the operating system completes it, which queues its     *)
(* handler with an error code ("ok" or "failed"); io_service::poll() runs  *)
(* queued handlers, one at a time, in any order, until none is queued; an  *)
(* operation whose handler has run is "done".                              *)
(***************************************************************************)
EXTENDS Naturals, FiniteSets

CONSTANTS
  Clients,      \* remote peers; each makes at most one connection
  Descriptors,  \* connections the process can hold open at once
  DebugBuild    \* is _DEBUG defined (SAMP_DEBUG evaluates its arguments)?

ASSUME ClientsAssumption     == IsFiniteSet(Clients)
ASSUME DescriptorsAssumption == Descriptors \in Nat \ {0}
ASSUME DebugBuildAssumption  == DebugBuild \in BOOLEAN

VARIABLES
  ready,     \* Api.cpp's flag: a gamemode is running
  tick,      \* "idle", "polling" inside poll(), "thrown" once an exception left it
  accept,    \* the acceptor's async_accept: "pending", "ok" or "failed"
  sessions,  \* SessionManager::sessions_
  socket,    \* where each client's connection is, see SocketState
  reset,     \* connections their peer has reset
  read,      \* Session::ReadRequest's async_read
  write,     \* Session::Write's async_write
  deadline,  \* Session::CheckDeadline's async_wait
  reply      \* "none", "command" (made by the Handler) or "empty"

ops  == <<read, write, deadline, reply>>
vars == <<ready, tick, accept, sessions, socket, reset, ops>>

SocketState ==
  { "none",      \* no connection
    "queued",    \* in the listen backlog
    "accepted",  \* in Endpoint::socket_, the accept handler has not run
    "open",      \* in Session::socket_
    "shut",      \* shutdown(shutdown_send) after the response; still held
    "closed" }   \* close(): the descriptor is given back

OpState == {"none", "pending", "ok", "failed", "done"}
Queued  == {"ok", "failed"}          \* the handler waits in the io_service

\* The type invariant.  An accept is never "done": whatever became of it, Endpoint's handler has
\* started the next one before it returns, so the plugin never stops listening.
TypeOK ==
  /\ ready \in BOOLEAN
  /\ tick \in {"idle", "polling", "thrown"}
  /\ accept \in {"pending", "ok", "failed"}
  /\ sessions \in SUBSET Clients
  /\ socket \in [Clients -> SocketState]
  /\ reset \in SUBSET Clients
  /\ read \in [Clients -> OpState]
  /\ write \in [Clients -> OpState]
  /\ deadline \in [Clients -> OpState]
  /\ reply \in [Clients -> {"none", "command", "empty"}]

-----------------------------------------------------------------------------
\* The operating system's side of the acceptor, on the sockets s.

Backlog(s) == {c \in Clients : s[c] = "queued"}
Held(s)    == {c \in Clients : s[c] \in {"accepted", "open", "shut"}}

\* An accept that needs not wait: it takes a connection off the backlog, or fails
\* because every descriptor is in use, which leaves the connection queued.
AcceptNow(s) ==
  /\ Backlog(s) # {}
  /\ \/ /\ Cardinality(Held(s)) < Descriptors
        /\ accept' = "ok"
        /\ \E c \in Backlog(s) : socket' = [s EXCEPT ![c] = "accepted"]
     \/ /\ Cardinality(Held(s)) >= Descriptors
        /\ accept' = "failed"
        /\ socket' = s

\* Endpoint::Listen: async_accept tries at once, and waits on an empty backlog.
Listen(s) ==
  \/ AcceptNow(s)
  \/ Backlog(s) = {} /\ accept' = "pending" /\ socket' = s

-----------------------------------------------------------------------------
\* The environment: peers, the operating system, the game server.

Connect(c) ==
  /\ socket[c] = "none"
  /\ socket' = [socket EXCEPT ![c] = "queued"]
  /\ UNCHANGED <<ready, tick, accept, sessions, reset, ops>>

PeerResets(c) ==
  /\ socket[c] \notin {"none", "closed"}
  /\ reset' = reset \cup {c}
  /\ UNCHANGED <<ready, tick, accept, sessions, socket, ops>>

AcceptCompletes ==
  /\ accept = "pending"
  /\ AcceptNow(socket)
  /\ UNCHANGED <<ready, tick, sessions, reset, ops>>

\* "failed": the peer went away, or what it sent is no request or outgrows buffer_.
ReadCompletes(c) ==
  /\ read[c] = "pending"
  /\ \E ec \in Queued : read' = [read EXCEPT ![c] = ec]
  /\ UNCHANGED <<ready, tick, accept, sessions, socket, reset, write, deadline, reply>>

WriteCompletes(c) ==
  /\ write[c] = "pending"
  /\ \E ec \in Queued : write' = [write EXCEPT ![c] = ec]
  /\ UNCHANGED <<ready, tick, accept, sessions, socket, reset, read, deadline, reply>>

DeadlineExpires(c) ==
  /\ deadline[c] = "pending"
  /\ deadline' = [deadline EXCEPT ![c] = "ok"]
  /\ UNCHANGED <<ready, tick, accept, sessions, socket, reset, read, write, reply>>

OnGameModeInit ==
  /\ tick = "idle"
  /\ ready' = TRUE
  /\ UNCHANGED <<tick, accept, sessions, socket, reset, ops>>

OnGameModeExit ==
  /\ tick = "idle"
  /\ ready' = FALSE
  /\ UNCHANGED <<tick, accept, sessions, socket, reset, ops>>

-----------------------------------------------------------------------------
\* ProcessTick: nothing unless ready; else poll(), which returns once it finds no
\* handler queued, and reset().

\* Mutant: ProcessTick without its early return.
TickBegin_Always ==
  /\ tick = "idle"
  /\ tick' = "polling"
  /\ UNCHANGED <<ready, accept, sessions, socket, reset, ops>>

TickBegin ==
  /\ tick = "idle"
  /\ ready
  /\ tick' = "polling"
  /\ UNCHANGED <<ready, accept, sessions, socket, reset, ops>>

NothingQueued ==
  /\ accept \notin Queued
  /\ \A c \in Clients : {read[c], write[c], deadline[c]} \cap Queued = {}

TickEnd ==
  /\ tick = "polling"
  /\ NothingQueued
  /\ tick' = "idle"
  /\ UNCHANGED <<ready, accept, sessions, socket, reset, ops>>

-----------------------------------------------------------------------------
\* The completion handlers, which only poll() runs.

\* Mutant: the session is started without CheckDeadline.
Start_NoDeadline(c) ==
  /\ sessions' = sessions \cup {c}
  /\ read'     = [read EXCEPT ![c] = "pending"]
  /\ UNCHANGED deadline

\* SessionManager::Start and Session::Start: ReadRequest, then CheckDeadline.
Start(c) ==
  /\ sessions' = sessions \cup {c}
  /\ read'     = [read EXCEPT ![c] = "pending"]
  /\ deadline' = [deadline EXCEPT ![c] = "pending"]

\* Mutant: Listen before the connection has moved out of Endpoint::socket_.
AcceptDone_ListenFirst(c) ==
  /\ tick = "polling"
  /\ accept = "ok"
  /\ socket[c] = "accepted"
  /\ Start(c)
  /\ Listen(socket)
  /\ UNCHANGED <<ready, tick, reset, write, reply>>

\* Endpoint::Listen's handler on success: socket_ moves into a new Session, which
\* SessionManager::Start starts; then Listen again.
AcceptDone(c) ==
  /\ tick = "polling"
  /\ accept = "ok"
  /\ socket[c] = "accepted"
  /\ Start(c)
  /\ Listen([socket EXCEPT ![c] = "open"])
  /\ UNCHANGED <<ready, tick, reset, write, reply>>

\* Mutant: the handler returns on an error.
AcceptFailed_Returns ==
  /\ tick = "polling"
  /\ accept = "failed"
  /\ accept' = "done"
  /\ UNCHANGED <<ready, tick, sessions, socket, reset, ops>>

\* The same handler on an error: only Listen.
AcceptFailed ==
  /\ tick = "polling"
  /\ accept = "failed"
  /\ Listen(socket)
  /\ UNCHANGED <<ready, tick, sessions, reset, ops>>

ReadFailed(c) ==
  /\ tick = "polling"
  /\ read[c] = "failed"
  /\ read' = [read EXCEPT ![c] = "done"]
  /\ UNCHANGED <<ready, tick, accept, sessions, socket, reset, write, deadline, reply>>

\* GET and POST reach the Handler through CreateResponse; any other method is
\* answered with the empty response.
Methods == {"served", "other"}

\* Does ProcessRequest call socket_.remote_endpoint() for this method?  CreateResponse
\* does, and so does the SAMP_DEBUG line of a debug build.
AsksPeer(method) == method = "served" \/ DebugBuild

\* Mutant: remote_endpoint(ec), whose error is ignored, in place of the throwing overload.
ProcessRequest_NoThrow(c, method) ==
  /\ tick = "polling"
  /\ read[c] = "ok"
  /\ read'  = [read EXCEPT ![c] = "done"]
  /\ reply' = [reply EXCEPT ![c] = IF method = "served" THEN "command" ELSE "empty"]
  /\ write' = [write EXCEPT ![c] = IF socket[c] = "closed" THEN "failed" ELSE "pending"]
  /\ UNCHANGED <<ready, tick, accept, sessions, socket, reset, deadline>>

\* ReadRequest's handler on success: ProcessRequest, CreateResponse and Write.  An
\* async_write on a closed socket fails at once.
ProcessRequest(c, method) ==
  /\ tick = "polling"
  /\ read[c] = "ok"
  /\ ~ (AsksPeer(method) /\ socket[c] = "closed")
  /\ read'  = [read EXCEPT ![c] = "done"]
  /\ reply' = [reply EXCEPT ![c] = IF method = "served" THEN "command" ELSE "empty"]
  /\ write' = [write EXCEPT ![c] = IF socket[c] = "closed" THEN "failed" ELSE "pending"]
  /\ UNCHANGED <<ready, tick, accept, sessions, socket, reset, deadline>>

\* The same handler when remote_endpoint() throws, as it does on a closed socket and
\* may on a connection the peer has reset.  Nothing catches the exception: it leaves
\* poll() and ProcessTick.
RequestThrows(c, method) ==
  /\ tick = "polling"
  /\ read[c] = "ok"
  /\ AsksPeer(method)
  /\ socket[c] = "closed" \/ c \in reset
  /\ tick' = "thrown"
  /\ read' = [read EXCEPT ![c] = "done"]
  /\ UNCHANGED <<ready, accept, sessions, socket, reset, write, deadline, reply>>

\* What closing a socket, or cancelling a timer, does to an operation: one that is
\* pending completes with operation_aborted; one already complete stays as it is.
Cancelled(op) == IF op = "pending" THEN "failed" ELSE op

\* Mutant: the deadline goes on after the response.
WriteDone_KeepsDeadline(c) ==
  /\ tick = "polling"
  /\ write[c] \in Queued
  /\ write'    = [write EXCEPT ![c] = "done"]
  /\ socket'   = [socket EXCEPT ![c] = IF @ = "closed" THEN @ ELSE "shut"]
  /\ UNCHANGED <<ready, tick, accept, sessions, reset, read, deadline, reply>>

\* Write's handler, whatever its error code: shutdown (which ignores its own error),
\* then deadline_.cancel().
WriteDone(c) ==
  /\ tick = "polling"
  /\ write[c] \in Queued
  /\ write'    = [write EXCEPT ![c] = "done"]
  /\ socket'   = [socket EXCEPT ![c] = IF @ = "closed" THEN @ ELSE "shut"]
  /\ deadline' = [deadline EXCEPT ![c] = Cancelled(@)]
  /\ UNCHANGED <<ready, tick, accept, sessions, reset, read, reply>>

\* Mutant: the handler waits again on the timer, whose expiry has passed.
DeadlineClosed_Rearms(c) ==
  /\ tick = "polling"
  /\ deadline[c] = "ok"
  /\ socket' = [socket EXCEPT ![c] = "closed"]
  /\ read'   = [read EXCEPT ![c] = Cancelled(@)]
  /\ write'  = [write EXCEPT ![c] = Cancelled(@)]
  /\ UNCHANGED <<ready, tick, accept, sessions, reset, deadline, reply>>

\* Mutant: the handler puts the timer off and waits on it again.
DeadlineClosed_WaitsAgain(c) ==
  /\ tick = "polling"
  /\ deadline[c] = "ok"
  /\ deadline' = [deadline EXCEPT ![c] = "pending"]
  /\ socket'   = [socket EXCEPT ![c] = "closed"]
  /\ read'     = [read EXCEPT ![c] = Cancelled(@)]
  /\ write'    = [write EXCEPT ![c] = Cancelled(@)]
  /\ UNCHANGED <<ready, tick, accept, sessions, reset, reply>>

\* CheckDeadline's handler when the 60 s are over: it closes the socket.
DeadlineClosed(c) ==
  /\ tick = "polling"
  /\ deadline[c] = "ok"
  /\ deadline' = [deadline EXCEPT ![c] = "done"]
  /\ socket'   = [socket EXCEPT ![c] = "closed"]
  /\ read'     = [read EXCEPT ![c] = Cancelled(@)]
  /\ write'    = [write EXCEPT ![c] = Cancelled(@)]
  /\ UNCHANGED <<ready, tick, accept, sessions, reset, reply>>

\* Mutant: the handler closes the socket without looking at its error code.
DeadlineCancelled_Closes(c) ==
  /\ tick = "polling"
  /\ deadline[c] = "failed"
  /\ deadline' = [deadline EXCEPT ![c] = "done"]
  /\ socket'   = [socket EXCEPT ![c] = "closed"]
  /\ UNCHANGED <<ready, tick, accept, sessions, reset, read, write, reply>>

\* The same handler after Write's handler has cancelled the wait: nothing.
DeadlineCancelled(c) ==
  /\ tick = "polling"
  /\ deadline[c] = "failed"
  /\ deadline' = [deadline EXCEPT ![c] = "done"]
  /\ UNCHANGED <<ready, tick, accept, sessions, socket, reset, read, write, reply>>

-----------------------------------------------------------------------------
\* Load has constructed the Endpoint and called Listen; no gamemode is up.
Init ==
  /\ ready = FALSE
  /\ tick = "idle"
  /\ accept = "pending"
  /\ sessions = {}
  /\ reset = {}
  /\ socket   = [c \in Clients |-> "none"]
  /\ read     = [c \in Clients |-> "none"]
  /\ write    = [c \in Clients |-> "none"]
  /\ deadline = [c \in Clients |-> "none"]
  /\ reply    = [c \in Clients |-> "none"]

\* The exception that leaves ProcessTick ends the process.
Alive == tick # "thrown"

Environment ==
  /\ Alive
  /\ \/ AcceptCompletes \/ OnGameModeInit \/ OnGameModeExit
     \/ \E c \in Clients :
          \/ Connect(c) \/ PeerResets(c)
          \/ ReadCompletes(c) \/ WriteCompletes(c) \/ DeadlineExpires(c)

Handlers ==
  \/ AcceptFailed
  \/ \E c \in Clients :
       \/ AcceptDone(c) \/ ReadFailed(c)
       \/ \E method \in Methods : ProcessRequest(c, method) \/ RequestThrows(c, method)
       \/ WriteDone(c) \/ DeadlineClosed(c) \/ DeadlineCancelled(c)

Next == Environment \/ TickBegin \/ TickEnd \/ Handlers

Spec == Init /\ [][Next]_vars

\* Fairness.  The operating system reports what is there to accept and every expiry of
\* a timer; it need never complete a read or a write, which wait for the peer.  poll()
\* runs every handler queued before it returns, and returns when none is.  The server
\* calls ProcessTick in every round of its main loop, so a gamemode that is up again and
\* again is ticked again and again: strong fairness.  Peers and gamemodes owe nothing.
Fairness ==
  /\ WF_vars(Alive /\ AcceptCompletes)
  /\ SF_vars(TickBegin)
  /\ WF_vars(TickEnd)
  /\ WF_vars(AcceptFailed)
  /\ \A c \in Clients :
       /\ WF_vars(Alive /\ DeadlineExpires(c))
       /\ WF_vars(AcceptDone(c))
       /\ WF_vars(ReadFailed(c))
       /\ WF_vars(\E method \in Methods :
                      ProcessRequest(c, method) \/ RequestThrows(c, method))
       /\ WF_vars(WriteDone(c))
       /\ WF_vars(DeadlineClosed(c))
       /\ WF_vars(DeadlineCancelled(c))

FairSpec == Spec /\ Fairness

-----------------------------------------------------------------------------
\* Safety.

\* A session's connection is never open without a deadline over it: until Write's
\* handler has shut the socket, the timer is running or its expiry is already queued
\* (Session::Start, Write and CheckDeadline).
DeadlineArmed ==
  \A c \in Clients : socket[c] = "open" => deadline[c] \in {"pending", "ok"}

\* Closing the socket at the deadline leaves no operation waiting on it, so no handler
\* keeps its session alive for ever (Session::CheckDeadline).
ClosedIsQuiet ==
  \A c \in Clients : socket[c] = "closed" => "pending" \notin {read[c], write[c], deadline[c]}

\* The steps of a session come in order, whatever the deadline and the peer do in between:
\* nothing before it is started, a reply only once the request is read, a write for every
\* reply, and the socket shut only when the write is over and the deadline called off
\* (Session::Start, ProcessRequest and Write).
ExchangeOrder ==
  \A c \in Clients :
    /\ c \in sessions <=> socket[c] \in {"open", "shut", "closed"}
    /\ c \notin sessions => read[c] = "none" /\ deadline[c] = "none"
    /\ read[c] \in {"none", "pending"} \cup Queued => reply[c] = "none"
    /\ reply[c] = "none" <=> write[c] = "none"
    /\ socket[c] = "shut" => write[c] = "done" /\ deadline[c] # "pending"
    /\ write[c] = "done" => socket[c] \in {"shut", "closed"}

\* Endpoint has a single socket_: it holds a connection exactly while the handler that
\* will move it into a Session is queued, and never receives a second one on top.
OneIncoming ==
  LET Incoming == {c \in Clients : socket[c] = "accepted"}
  IN  /\ \A c, d \in Incoming : c = d
      /\ accept = "ok" <=> Incoming # {}

\* No reply is made, hence no command run, between OnGameModeExit and the next
\* OnGameModeInit, although connections and requests keep arriving meanwhile.
RepliesInGameMode == [][reply' # reply => ready]_vars

\* Every descriptor is held by a session that has answered and whose deadline Write's
\* handler has cancelled, and a connection is waiting.
Answered(c) == socket[c] = "shut" /\ deadline[c] \in {"failed", "done"}
Hung ==
  /\ tick = "polling"
  /\ accept = "failed"
  /\ Cardinality({c \in Clients : Answered(c)}) >= Descriptors

\* SessionManager never lets a session go and an answered session has no deadline left,
\* so the tick that exhausts the descriptors never ends: each failed accept is followed
\* by another (Endpoint::Listen).  Only an exception leaves it.
HungForever == [][Hung => Hung' \/ tick' = "thrown"]_vars

\* The detailed connection layer implements the abstract one.
Phase(c) ==
  CASE socket[c] = "open"   -> "serving"
    [] socket[c] = "shut"   -> "answered"
    [] socket[c] = "closed" -> "expired"
    [] OTHER                -> "absent"

Conn == INSTANCE Connections WITH
          phase <- [c \in Clients |-> Phase(c)],
          down  <- tick = "thrown"

\* Each connection gets at most one reply, runs a command only while its socket is open,
\* is answered only after its reply, and never comes back from the close at its deadline.
ImplementsConnections == Conn!Spec

\* Session::CheckDeadline closes the socket "to cancel any outstanding operation": once
\* the deadline has closed it, the session's request is not processed any more.
CloseCancelsRead ==
  [][\A c \in Clients : socket[c] = "closed" =>
       ~ \E method \in Methods : ProcessRequest(c, method) \/ RequestThrows(c, method)]_vars

-----------------------------------------------------------------------------
\* Liveness, under Fairness.

\* While gamemodes keep coming up, a session that was started ends: it is answered, or
\* its socket is closed by the deadline, however slow or silent the peer.
SessionEnds ==
  []<>ready =>
    \A c \in Clients :
      c \in sessions ~> (socket[c] \in {"shut", "closed"} \/ tick = "thrown")

\* ProcessTick gives the main thread back to the game server, unless the descriptors
\* have run out for good.
TickReturns == tick = "polling" ~> (tick # "polling" \/ Hung)
===============================================================================
