----------------------------- MODULE PlayersProofs -----------------------------
(***************************************************************************)
(* Theorems about Players, for any slots and names.                        *)
(***************************************************************************)
EXTENDS Players, TLAPS

\* The game server lets no two connected players bear the same name.
NamesDistinct == \A id, other \in Connected : name[id] = name[other] => id = other

\* The inductive invariant: the registry never holds an empty slot, so that every row of a
\* listing and every login is a name.
IInv ==
  /\ TypeOK
  /\ NamesDistinct
  /\ RegistryIsPool
  /\ \A id \in Connected : entered[id] \in Names

LEMMA InitIInv == Init => IInv
<1>. SUFFICES ASSUME Init
              PROVE  IInv
  OBVIOUS
<1>1. Connected = {} /\ Registered = {}
  BY DEF Init, Connected, Registered
<1>2. TypeOK
  <2>1. players_ \in [Registered -> Names]
    BY <1>1 DEF Init
  <2>. QED
    BY <1>1, <2>1 DEF Init, TypeOK, Slots, Messages
<1>. QED
  BY <1>1, <1>2 DEF IInv, NamesDistinct, RegistryIsPool

LEMMA StepIInv == IInv /\ [Next]_vars => IInv'
<1>. SUFFICES ASSUME IInv, [Next]_vars
              PROVE  IInv'
  OBVIOUS
<1>. USE NoNameAssumption DEF IInv
<1>1. ASSUME NEW id \in Ids, NEW n \in Names, Connect(id, n)
      PROVE  IInv'
  <2>1. Connected' = Connected \cup {id} /\ id \notin Connected
    BY <1>1 DEF Connect, Connected, TypeOK, Slots
  <2>2. /\ Registered' = Registered \cup {id}
        /\ \A k \in Registered : players_'[k] = players_[k]
        /\ players_'[id] = n
    BY <1>1, <2>1 DEF Connect, AddPlayer, Emplace, Registered, RegistryIsPool, TypeOK, Slots
  <2>3. TypeOK'
    <3>1. players_' \in [Registered' -> Names]
      BY <1>1, <2>2 DEF Connect, AddPlayer, Emplace, Registered, TypeOK, Slots
    <3>. QED
      BY <1>1, <2>2, <3>1 DEF Connect, TypeOK, Slots
  <2>4. NamesDistinct'
    BY <1>1, <2>1 DEF Connect, NamesDistinct, Connected, TypeOK, Slots
  <2>5. RegistryIsPool' /\ \A k \in Connected' : entered'[k] \in Names
    BY <1>1, <2>1, <2>2 DEF Connect, RegistryIsPool, Connected, TypeOK, Slots
  <2>. QED
    BY <2>3, <2>4, <2>5
<1>2. ASSUME NEW id \in Ids, Disconnect(id)
      PROVE  IInv'
  <2>1. Connected' = Connected \ {id}
    BY <1>2 DEF Disconnect, Connected, TypeOK, Slots
  <2>2. /\ Registered' = Registered \ {id}
        /\ \A k \in Registered' : players_'[k] = players_[k]
    BY <1>2 DEF Disconnect, RemovePlayer, Restrict, Registered
  <2>3. TypeOK'
    <3>1. players_' \in [Registered' -> Names]
      BY <1>2, <2>2 DEF Disconnect, RemovePlayer, Restrict, Registered, TypeOK
    <3>. QED
      BY <1>2, <2>2, <3>1 DEF Disconnect, TypeOK, Slots
  <2>4. NamesDistinct' /\ \A k \in Connected' : entered'[k] \in Names
    BY <1>2, <2>1 DEF Disconnect, NamesDistinct, Connected, TypeOK, Slots
  <2>5. RegistryIsPool'
    BY <1>2, <2>1, <2>2 DEF Disconnect, RegistryIsPool, Connected, TypeOK, Slots
  <2>. QED
    BY <2>3, <2>4, <2>5
<1>3. ASSUME NEW id \in Ids, NEW n \in Names, Rename(id, n)
      PROVE  IInv'
  <2>1. Connected' = Connected /\ Registered' = Registered
    BY <1>3 DEF Rename, Connected, Registered, TypeOK, Slots
  <2>2. TypeOK'
    BY <1>3, <2>1 DEF Rename, TypeOK, Slots
  <2>3. NamesDistinct'
    BY <1>3, <2>1 DEF Rename, NamesDistinct, Connected, TypeOK, Slots
  <2>. QED
    BY <1>3, <2>1, <2>2, <2>3 DEF Rename, RegistryIsPool
<1>4. ASSUME NEW id \in Ids, NEW n \in Names, NEW message \in Messages, Remove(n, id, message)
      PROVE  IInv'
  BY <1>4 DEF Remove, TypeOK, NamesDistinct, RegistryIsPool, Registered, Connected
<1>5. ASSUME NEW n \in Names, Refuse(n)
      PROVE  IInv'
  BY <1>5 DEF Refuse, TypeOK, NamesDistinct, RegistryIsPool, Registered, Connected, Messages
<1>6. CASE List
  <2>1. ASSUME NEW id \in Registered
        PROVE  Row(id) \in Rows
    <3>1. name[id] \in Names /\ entered[id] \in Names
      BY <2>1 DEF RegistryIsPool, Connected, TypeOK, Slots
    <3>2. Row(id) = [name |-> name[id], ip |-> Copied(Address[entered[id]])]
      BY <3>1 DEF Row
    <3>. QED
      BY <3>1, <3>2 DEF Rows
  <2>. QED
    BY <1>6, <2>1 DEF List, TypeOK, NamesDistinct, RegistryIsPool, Registered, Connected
<1>7. CASE UNCHANGED vars
  BY <1>7 DEF vars, TypeOK, NamesDistinct, RegistryIsPool, Registered, Connected
<1>. QED
  BY <1>1, <1>2, <1>3, <1>4, <1>5, <1>6, <1>7 DEF Next, Messages

LEMMA Invariance == Spec => []IInv
BY InitIInv, StepIInv, PTL DEF Spec

\* The registry never holds an id that is no slot, nor a login that is no name.
THEOREM PlayersTypeTheorem == Spec => []TypeOK
BY Invariance, PTL DEF IInv

\* The registry holds the connected players, each under the name they came with.
THEOREM RegistryTheorem == Spec => [](TypeOK /\ RegistryIsPool)
BY Invariance, PTL DEF IInv

\* "Invalid player" means that nobody connected came under that name.
THEOREM InvalidTheorem == Spec => []InvalidMeansAbsent
<1>1. IInv => InvalidMeansAbsent
  BY DEF IInv, InvalidMeansAbsent, RegistryIsPool, Refuses, Bearers, Connected
<1>. QED
  BY <1>1, Invariance, PTL

\* Of two players with one login, one has been renamed.
THEOREM ToldApartTheorem == Spec => []LoginsToldApart
<1>1. IInv => LoginsToldApart
  BY DEF IInv, LoginsToldApart, RegistryIsPool, NamesDistinct, Connected
<1>. QED
  BY <1>1, Invariance, PTL

\* A request takes away at most one player, who came under the name it asks for.
THEOREM OneGoesTheorem == Spec => OneGoesByLogin
<1>. DEFINE A == \A id, other \in leaving' \ leaving :
                   id = other /\ answer'.to = entered[id] /\ answer'.says # "invalid player"
<1>1. IInv /\ [Next]_vars => [A]_vars
  <2>. SUFFICES ASSUME IInv, Next
                PROVE  A
    BY DEF vars
  <2>1. ASSUME NEW id \in Ids, NEW n \in Names, NEW message \in {"got kicked", "got banned"},
               Remove(n, id, message)
        PROVE  A
    <3>1. leaving' \ leaving \subseteq {id} /\ answer'.to = n /\ answer'.says = message
      BY <2>1 DEF Remove
    <3>2. entered[id] = n
      BY <2>1 DEF Remove, Bearers, IInv, RegistryIsPool
    <3>. QED
      BY <3>1, <3>2
  <2>2. CASE leaving' \subseteq leaving
    BY <2>2
  <2>. QED
    BY <2>1, <2>2 DEF Next, Connect, Disconnect, Rename, Refuse, List
<1>. QED
  BY <1>1, Invariance, PTL DEF Spec, OneGoesByLogin

\* A listing has one row for each connected player.
THEOREM ListTheorem == Spec => ListIsPool
<1>. DEFINE A == listed' # listed => listed' = {Row(id) : id \in Connected}
<1>1. IInv /\ [Next]_vars => [A]_vars
  BY DEF IInv, RegistryIsPool, Next, vars, Connect, Disconnect, Rename, Remove, Refuse, List
<1>. QED
  BY <1>1, Invariance, PTL DEF Spec, ListIsPool
===============================================================================
