------------------------------- MODULE MCPlayers -------------------------------
(***************************************************************************)
(* Instances of Players for TLC.                                           *)
(***************************************************************************)
EXTENDS Players, TLC

CONSTANTS anna, bert, carl, dora

TwoNames  == {anna, carl}
FourNames == {anna, bert, carl, dora}

\* Anna and Bert play from an address that fits the buffer, the others from one that does not.
Addresses == [n \in Names |-> IF n \in {anna, bert} THEN <<1, 2>> ELSE <<1, 3, 2>>]

\* Slots are only compared with one another, and so are names of one address.
PlayerSymmetry ==
  Permutations(Ids) \cup Permutations({anna, bert}) \cup Permutations({carl, dora})
===============================================================================
