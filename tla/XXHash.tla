------------------------------- MODULE XXHash -------------------------------
(***************************************************************************)
(* What both widths of xxHash (src/share/xxhash.c) share: their caller,    *)
(* the two kinds of CPU, the reads of memory and the canonical             *)
(* representation.                                                         *)
(*                                                                         *)
(* An integer is the sequence of its bytes, the most significant one       *)
(* first; memory is the sequence of its bytes, the lowest address first.   *)
(* A round is a free constructor: an accumulator is the sequence of its    *)
(* start value and of the words it absorbed.  Two hashes that are the same *)
(* term are the same number on every machine.                              *)
(***************************************************************************)
EXTENDS Integers, Sequences

CONSTANTS
    States,     \* the hash states a caller may allocate
    Seeds,
    Lengths,    \* lengths of the segments a caller feeds
    MaxFed      \* bound of the model on the bytes fed to one state

ASSUME LengthsAssumption == Lengths \subseteq Nat /\ MaxFed \in Nat

VARIABLE cpu    \* the CPU the program runs on

Zero == <<"zero", 0>>

Cpus == {"little", "big"}

Swap(word) == [k \in 1..Len(word) |-> word[Len(word) + 1 - k]]

\* A load and a store of the machine.
Read(memory, c) == IF c = "little" THEN Swap(memory) ELSE memory
Written(word, c) == IF c = "little" THEN Swap(word) ELSE word

\* Mutant: the words of the input are read as the machine stores its own.
ReadLE_Native(memory, c) == Read(memory, c)

\* The words of the input are little-endian on every machine.
ReadLE(memory, c) ==
    IF c = "little" THEN Read(memory, c) ELSE Swap(Read(memory, c))

ReadBE(memory, c) ==
    IF c = "little" THEN Swap(Read(memory, c)) ELSE Read(memory, c)

\* The bytes of a hash, most significant first.
Digits(hash, size) == [k \in 1..size |-> <<hash, k>>]

CanonicalFromHash(digits, c) ==
    Written(IF c = "little" THEN Swap(digits) ELSE digits, c)

HashFromCanonical(canonical, c) == ReadBE(canonical, c)

-----------------------------------------------------------------------------
\* size bytes of memory after its first from ones.
Bytes(memory, from, size) == [k \in 1..size |-> memory[from + k]]

\* memcpy(memory + at, input, Len(input)).
Copied(memory, at, input) ==
    [k \in 1..Len(memory) |->
        IF k > at /\ k <= at + Len(input) THEN input[k - at] ELSE memory[k]]

=============================================================================
