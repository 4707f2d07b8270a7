------------------------------- MODULE Commands --------------------------------
(***************************************************************************)
(* What the plugin promises about the commands on players, without         *)
(* sockets, ticks or a registry of its own: while a gamemode is up, each   *)
(* client's request is served at most once and at one instant, on the      *)
(* players who are in the game at that instant, known by the name they     *)
(* came under; and what it does is what its response says.                 *)
(***************************************************************************)
CONSTANTS Clients, Ids, Names, NoName

VARIABLES
  open,     \* a gamemode is up
  player,   \* the name each slot's player came under
  leaving,  \* players who are being removed
  told      \* the response made for each client

cmdvars == <<open, player, leaving, told>>

Nothing == [to |-> NoName, says |-> "nothing"]

Init ==
  /\ open = FALSE
  /\ player = [id \in Ids |-> NoName]
  /\ leaving = {}
  /\ told = [c \in Clients |-> Nothing]

OpenClose ==
  /\ open' = ~ open
  /\ UNCHANGED <<player, leaving, told>>

Enter(id, n) ==
  /\ player[id] = NoName
  /\ player' = [player EXCEPT ![id] = n]
  /\ UNCHANGED <<open, leaving, told>>

Leave(id) ==
  /\ player[id] # NoName
  /\ player' = [player EXCEPT ![id] = NoName]
  /\ leaving' = leaving \ {id}
  /\ UNCHANGED <<open, told>>

Tell(c, n, message) ==
  /\ open
  /\ told[c] = Nothing
  /\ told' = [told EXCEPT ![c] = [to |-> n, says |-> message]]
  /\ UNCHANGED <<open, player>>

Remove(c, n, message) ==
  /\ Tell(c, n, message)
  /\ \E id \in Ids : player[id] = n /\ leaving' = leaving \cup {id}

Refuse(c, n) ==
  /\ Tell(c, n, "invalid player")
  /\ \A id \in Ids : player[id] # n
  /\ UNCHANGED leaving

\* A request that is no command on a player.
Other(c) ==
  /\ Tell(c, NoName, "other")
  /\ UNCHANGED leaving

Next ==
  \/ OpenClose
  \/ \E id \in Ids : Leave(id) \/ \E n \in Names : Enter(id, n)
  \/ \E c \in Clients :
       \/ Other(c)
       \/ \E n \in Names :
            Remove(c, n, "got kicked") \/ Remove(c, n, "got banned") \/ Refuse(c, n)

Spec == Init /\ [][Next]_cmdvars
===============================================================================
