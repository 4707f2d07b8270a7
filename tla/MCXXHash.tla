------------------------------- MODULE MCXXHash --------------------------------
(***************************************************************************)
(* A caller of both widths of the hash, for TLC.  They have nothing but    *)
(* the CPU in common, so the caller takes up one after it let go of the    *)
(* other.                                                                  *)
(***************************************************************************)
EXTENDS XXH32, XXH64, TLC

MCInit == Init /\ Init64

Use32 ==
  /\ \A s \in States : phase64[s] = "none"
  /\ Next
  /\ UNCHANGED <<phase64, state64, seed64, fed64>>

Use64 ==
  /\ \A s \in States : phase[s] = "none"
  /\ Next64
  /\ UNCHANGED <<phase, state, seed, fed>>

MCSpec == MCInit /\ [][Use32 \/ Use64]_<<vars, vars64>>

\* Hash states are only told from one another.
StateSymmetry == Permutations(States)
================================================================================
