-------------------------------- MODULE Players --------------------------------
(***************************************************************************)
(* PlayerManager, the plugin's registry of connected players, beside the   *)
(* game server's own player pool, which it shadows.                        *)
(*                                                                         *)
(* The registry is written by two callbacks, when a player enters or       *)
(* leaves a slot of the pool, and read by three requests.  It keeps, as    *)
(* the player's login, the name at the time of connecting; the gamemode    *)
(* may rename a player at any time without a callback.  Requests run in    *)
(* ProcessTick, so the state may have moved on between two of them.        *)
(***************************************************************************)
EXTENDS Functions, Integers, Sequences

CONSTANTS
  Ids,     \* the slots of the pool
  Names,   \* player names
  NoName,  \* no name: of an empty slot, of no request
  Address, \* the address that whoever comes under a name plays from, as its characters
  AddrSize \* the size of GetPlayerData's buffer for an address

ASSUME NoNameAssumption  == NoName \notin Names
ASSUME AddressAssumption == AddrSize \in Nat \ {0} /\ \A n \in Names : Len(Address[n]) \in Nat

VARIABLES
  name,      \* the pool: the present name of each slot's player
  entered,   \* the name each slot's player connected under
  leaving,   \* slots whose player the server is about to disconnect
  players_,  \* PlayerManager::players_: logins by id
  listed,    \* the rows of the last response to player/list
  answer     \* the last response to player/kick and player/ban: to which name, and what

vars == <<name, entered, leaving, players_, listed, answer>>

Slots      == [Ids -> Names \cup {NoName}]
Connected  == {id \in Ids : name[id] # NoName}
Registered == DOMAIN players_
Messages   == {"got kicked", "got banned", "invalid player"}

\* GetPlayerIp copies as many characters as the buffer holds beside the final zero.
Copied(address) ==
  IF Len(address) < AddrSize THEN address ELSE SubSeq(address, 1, AddrSize - 1)

\* What GetPlayerData collects of a slot, as far as the codec of PlayerData lets it out: the
\* present name and the address, not the login.  (The numbers are left out.)  The natives leave
\* both buffers as they are, uninitialised, for an empty slot.
Row(id) ==
  [name |-> name[id],
   ip   |-> IF entered[id] = NoName THEN NoName ELSE Copied(Address[entered[id]])]
Rows    == [name : Names, ip : {Copied(Address[n]) : n \in Names}]

TypeOK ==
  /\ name \in Slots
  /\ entered \in Slots
  /\ leaving \in SUBSET Ids
  /\ Registered \in SUBSET Ids
  /\ players_ \in [Registered -> Names]
  /\ listed \in SUBSET Rows
  /\ answer \in [to : Names \cup {NoName}, says : Messages]

-----------------------------------------------------------------------------
\* PlayerManager's registry.

\* std::unordered_map::emplace: an entry that exists is left as it is.
Emplace(map, key, value) ==
  [k \in DOMAIN map \cup {key} |-> IF k \in DOMAIN map THEN map[k] ELSE value]

AddPlayer(id) == players_' = Emplace(players_, id, name'[id])

\* Mutant: the entry of a player who left is kept.
RemovePlayer_Keeps(id) == UNCHANGED players_

RemovePlayer(id) == players_' = Restrict(players_, Registered \ {id})

\* Mutant: players are looked up by their present name.
Bearers_Live(n) == {id \in Registered : name[id] = n}

\* The entries with that login.  The loops of Kick and Ban act on the first of them in
\* the order of an unordered_map, which is any order.
Bearers(n) == {id \in Registered : players_[id] = n}

-----------------------------------------------------------------------------
\* The game server: the pool, and the callbacks it makes as the pool changes.

\* A player takes a free slot, under a name nobody bears; OnPlayerConnect.
Connect(id, n) ==
  /\ name[id] = NoName
  /\ \A other \in Ids : name[other] # n
  /\ name' = [name EXCEPT ![id] = n]
  /\ entered' = [entered EXCEPT ![id] = n]
  /\ AddPlayer(id)
  /\ UNCHANGED <<leaving, listed, answer>>

\* A player leaves, of their own accord or kicked; OnPlayerDisconnect.
Disconnect(id) ==
  /\ name[id] # NoName
  /\ name' = [name EXCEPT ![id] = NoName]
  /\ entered' = [entered EXCEPT ![id] = NoName]
  /\ leaving' = leaving \ {id}
  /\ RemovePlayer(id)
  /\ UNCHANGED <<listed, answer>>

\* The gamemode renames a player: no callback.
Rename(id, n) ==
  /\ name[id] # NoName
  /\ \A other \in Ids : name[other] # n
  /\ name' = [name EXCEPT ![id] = n]
  /\ UNCHANGED <<entered, leaving, players_, listed, answer>>

-----------------------------------------------------------------------------
\* The requests, run in ProcessTick.

\* Mutant: the rows are made of the logins.
List_Logins ==
  /\ listed' = {[Row(id) EXCEPT !.name = players_[id]] : id \in Registered}
  /\ UNCHANGED <<name, entered, leaving, players_, answer>>

\* player::list and GetPlayerData: one row for each entry.
List ==
  /\ listed' = {Row(id) : id \in Registered}
  /\ UNCHANGED <<name, entered, leaving, players_, answer>>

\* player::kick and player::ban with an entry whose native succeeds, as it does on a
\* connected player.
Remove(n, id, message) ==
  /\ id \in Bearers(n) \cap Connected
  /\ leaving' = leaving \cup {id}
  /\ answer' = [to |-> n, says |-> message]
  /\ UNCHANGED <<name, entered, players_, listed>>

\* May they answer "Invalid player": no entry has the login, or the native fails on the
\* first that has?
Refuses(n) == Bearers(n) = {} \/ Bearers(n) \ Connected # {}

Refuse(n) ==
  /\ Refuses(n)
  /\ answer' = [to |-> n, says |-> "invalid player"]
  /\ UNCHANGED <<name, entered, leaving, players_, listed>>

-----------------------------------------------------------------------------
Init ==
  /\ name = [id \in Ids |-> NoName]
  /\ entered = [id \in Ids |-> NoName]
  /\ leaving = {}
  /\ players_ = [id \in {} |-> NoName]
  /\ listed = {}
  /\ answer = [to |-> NoName, says |-> "invalid player"]

Next ==
  \/ \E id \in Ids :
       \/ Disconnect(id)
       \/ \E n \in Names :
            \/ Connect(id, n) \/ Rename(id, n)
            \/ Remove(n, id, "got kicked") \/ Remove(n, id, "got banned")
  \/ \E n \in Names : Refuse(n)
  \/ List

Spec == Init /\ [][Next]_vars

-----------------------------------------------------------------------------
\* Properties.

\* The registry is the pool: each connected player has exactly one entry, under the name
\* they connected with; none has the login of somebody who had the slot before
\* (PlayerManager::AddPlayer, whose emplace overwrites nothing, and RemovePlayer).
RegistryIsPool ==
  /\ Registered = Connected
  /\ \A id \in Connected : players_[id] = entered[id]

\* "Invalid player" is the answer only when nobody now connected came under that name: no
\* entry of a player who has left hides a player who has not (PlayerManager::Kick and Ban,
\* which stop at the first entry whether or not the native succeeds).
InvalidMeansAbsent ==
  \A n \in Names : Refuses(n) => \A id \in Connected : entered[id] # n

\* Kick and Ban cannot miss a player who was never renamed for another one like that: two
\* players have the same login only if one of them bears another name by now
\* (PlayerManager::Kick and Ban).
LoginsToldApart ==
  \A id, other \in Registered :
    id # other /\ players_[id] = players_[other]
      => name[id] # entered[id] \/ name[other] # entered[other]

\* A request takes at most one player away, and only one who connected under the name it
\* is answered for (PlayerManager::Kick and Ban).
OneGoesByLogin ==
  [][\A id, other \in leaving' \ leaving :
       id = other /\ answer'.to = entered[id] /\ answer'.says # "invalid player"]_vars

\* player/list has exactly one row for each player connected when it is asked, with the name in
\* use then and with that player's own data, not those of a namesake or of the slot's last
\* owner (PlayerManager::GetPlayerData).
ListIsPool == [][listed' # listed => listed' = {Row(id) : id \in Connected}]_vars

\* The answer "Player n got kicked" (or "banned") is about a player called n.
NamedPlayerGoes ==
  [][\A id \in leaving' \ leaving : answer'.to = name[id]]_vars
===============================================================================
