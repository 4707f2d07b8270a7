------------------------------ MODULE Connections ------------------------------
(***************************************************************************)
(* What the connection layer promises about each connection, without       *)
(* sockets, timers, the io_service or ticks: it is served, then answered   *)
(* or expired; it gets at most one reply; and a command runs only for a    *)
(* connection that is still being served.                                  *)
(***************************************************************************)
CONSTANT Clients

VARIABLES
  phase,  \* "absent", "serving", "answered" or "expired"
  reply,  \* "none", "command" or "empty"
  down    \* an exception has ended the service

cvars == <<phase, reply, down>>

Init ==
  /\ phase = [c \in Clients |-> "absent"]
  /\ reply = [c \in Clients |-> "none"]
  /\ down = FALSE

Accept(c) ==
  /\ phase[c] = "absent"
  /\ phase' = [phase EXCEPT ![c] = "serving"]
  /\ UNCHANGED <<reply, down>>

RunCommand(c) ==
  /\ phase[c] = "serving"
  /\ reply[c] = "none"
  /\ reply' = [reply EXCEPT ![c] = "command"]
  /\ UNCHANGED <<phase, down>>

\* The empty response asks nothing of the connection: it may even be prepared late.
ReplyEmpty(c) ==
  /\ phase[c] \in {"serving", "expired"}
  /\ reply[c] = "none"
  /\ reply' = [reply EXCEPT ![c] = "empty"]
  /\ UNCHANGED <<phase, down>>

Answer(c) ==
  /\ phase[c] = "serving"
  /\ reply[c] # "none"
  /\ phase' = [phase EXCEPT ![c] = "answered"]
  /\ UNCHANGED <<reply, down>>

\* The deadline can also overtake an answer already given.
Expire(c) ==
  /\ phase[c] \in {"serving", "answered"}
  /\ phase' = [phase EXCEPT ![c] = "expired"]
  /\ UNCHANGED <<reply, down>>

Fail(c) ==
  /\ phase[c] \in {"serving", "expired"}
  /\ reply[c] = "none"
  /\ down' = TRUE
  /\ UNCHANGED <<phase, reply>>

Next ==
  /\ ~ down
  /\ \E c \in Clients :
       \/ Accept(c) \/ RunCommand(c) \/ ReplyEmpty(c)
       \/ Answer(c) \/ Expire(c) \/ Fail(c)

Spec == Init /\ [][Next]_cvars
===============================================================================
