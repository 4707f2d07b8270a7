------------------------------- MODULE ApiServer -------------------------------
(***************************************************************************)
(* The plugin as its users see it: the connection layer (Sessions) and the *)
(* registry of players (Players) in one server process.                    *)
(*                                                                         *)
(* They meet in two places.  Session::ProcessRequest hands a GET or POST   *)
(* to the Handler, whose command runs to its end, inside the same          *)
(* completion handler, on the registry as it is then.  And both are driven *)
(* by the main thread: the callbacks about players come between two ticks, *)
(* never during poll().                                                    *)
(***************************************************************************)
EXTENDS Sessions

CONSTANTS Ids, Names, NoName

ASSUME NoNamesakeAssumption == NoName \notin Names

VARIABLES
  name, entered, leaving, players_, listed, answer,  \* see Players
  told  \* what Session::response_ says, of each client

poolVars   == <<name, entered, leaving, players_, listed, answer>>
serverVars == <<vars, poolVars, told>>

\* The addresses in a listing play no part here.
Pool == INSTANCE Players WITH Address <- [n \in Names |-> << >>], AddrSize <- 1

Nothing == [to |-> NoName, says |-> "nothing"]
Says    == Pool!Messages \cup {"nothing", "other"}

-----------------------------------------------------------------------------
\* The completion handlers that reach no command.

QuietHandlers ==
  \/ AcceptFailed
  \/ \E c \in Clients :
       \/ AcceptDone(c) \/ ReadFailed(c)
       \/ ProcessRequest(c, "other")
       \/ \E method \in Methods : RequestThrows(c, method)
       \/ WriteDone(c) \/ DeadlineClosed(c) \/ DeadlineCancelled(c)

ConnectionStep ==
  /\ Environment \/ TickBegin \/ TickEnd \/ QuietHandlers
  /\ UNCHANGED <<poolVars, told>>

\* The game server's main loop calls back between two ticks.
PlayerStep ==
  /\ tick = "idle"
  /\ \E id \in Ids :
       \/ Pool!Disconnect(id)
       \/ \E n \in Names : Pool!Connect(id, n) \/ Pool!Rename(id, n)
  /\ UNCHANGED <<vars, told>>

-----------------------------------------------------------------------------
\* CreateResponse: the Handler's command makes the response.

Tell(c, to, says) == told' = [told EXCEPT ![c] = [to |-> to, says |-> says]]

\* Mutant: the result of the native is taken the wrong way round.
ServeRemove_Inverted(c, n, id, message) ==
  /\ ProcessRequest(c, "served")
  /\ Pool!Remove(n, id, message)
  /\ Tell(c, n, "invalid player")

ServeRemove(c, n, id, message) ==
  /\ ProcessRequest(c, "served")
  /\ Pool!Remove(n, id, message)
  /\ Tell(c, n, message)

ServeRefuse(c, n) ==
  /\ ProcessRequest(c, "served")
  /\ Pool!Refuse(n)
  /\ Tell(c, n, "invalid player")

ServeList(c) ==
  /\ ProcessRequest(c, "served")
  /\ Pool!List
  /\ Tell(c, NoName, "other")

\* A request that is refused, or whose command is not about players.
ServeOther(c) ==
  /\ ProcessRequest(c, "served")
  /\ Tell(c, NoName, "other")
  /\ UNCHANGED poolVars

Serve(c) ==
  \/ ServeList(c)
  \/ ServeOther(c)
  \/ \E n \in Names :
       \/ ServeRefuse(c, n)
       \/ \E id \in Ids : ServeRemove(c, n, id, "got kicked") \/ ServeRemove(c, n, id, "got banned")

-----------------------------------------------------------------------------
ServerInit ==
  /\ Init
  /\ Pool!Init
  /\ told = [c \in Clients |-> Nothing]

ServerNext == ConnectionStep \/ PlayerStep \/ \E c \in Clients : Serve(c)

ServerSpec == ServerInit /\ [][ServerNext]_serverVars

-----------------------------------------------------------------------------
\* Properties.

\* Nobody is removed in silence: of each player about to go, some client's response says
\* so, by the name they came under; and a response has been made of a command, never for
\* a request that another method, an exception or the deadline kept from the Handler
\* (Session::ProcessRequest, player::kick and player::ban).
EffectsAnswered ==
  /\ \A c \in Clients : told[c] # Nothing <=> reply[c] = "command"
  /\ \A id \in leaving : \E c \in Clients :
       told[c].to = entered[id] /\ told[c].says \in {"got kicked", "got banned"}

Cmd == INSTANCE Commands WITH open <- ready, player <- entered

\* Sessions, ticks and the registry together are one object that serves each request
\* at one instant, on the players in the game at that instant.
ImplementsCommands == Cmd!Spec
===============================================================================
