------------------------------- MODULE XXH32 --------------------------------
(***************************************************************************)
(* XXH32 of src/share/xxhash.c: the hash of one block, which the router    *)
(* takes of the path of a request, and the streaming interface that gives  *)
(* the hash of an input provided in segments.                              *)
(*                                                                         *)
(* total_len_32 is an unsigned of 32 bits; the model counts it modulo Wrap.*)
(* A state that was not reset holds what malloc left there: the caller     *)
(* resets it before anything else (xxhash.h:185).                          *)
(***************************************************************************)
EXTENDS XXHash

CONSTANT Wrap   \* 2^32

ASSUME WrapAssumption == Wrap \in Nat /\ Wrap >= 32

VARIABLES
    phase,      \* of each state: "none", "raw" out of malloc or "live" after a reset
    state,      \* the XXH32_state_t of each, which means nothing before a reset
    seed,       \* ghost: what reset was given
    fed         \* ghost: every byte fed since the reset

vars == <<cpu, phase, state, seed, fed>>

Live == {s \in States : phase[s] = "live"}

-----------------------------------------------------------------------------
(* The start values: seed + P1 + P2, seed + P2, seed and seed - P1.        *)

Start(sd) == [lane \in 1..4 |-> <<<<sd, lane>>>>]

\* The accumulators after the stripes of memory that follow its first from bytes.
Rounds(v, memory, from, stripes, c) ==
    [lane \in 1..4 |->
        v[lane] \o [j \in 1..stripes |->
                       ReadLE(Bytes(memory, from + 16 * (j - 1) + 4 * (lane - 1), 4), c)]]

\* The rest of the input word by word and then byte by byte, and the avalanche.
Finish(head, len, rest, c) ==
    [head  |-> head,
     len   |-> len,
     words |-> [j \in 1..Len(rest) \div 4 |-> ReadLE(Bytes(rest, 4 * (j - 1), 4), c)],
     bytes |-> Bytes(rest, 4 * (Len(rest) \div 4), Len(rest) % 4)]

XXH32_endian_align(input, sd, c) ==
    LET len     == Len(input)
        stripes == len \div 16
    IN  Finish(IF len >= 16 THEN Rounds(Start(sd), input, 0, stripes, c)
                            ELSE <<Start(sd)[3]>>,
               len % Wrap,
               Bytes(input, 16 * stripes, len % 16),
               c)

XXH32(input, sd, c) == XXH32_endian_align(input, sd, c)

-----------------------------------------------------------------------------
ResetState(sd) ==
    [total_len_32 |-> 0, large_len |-> FALSE, v |-> Start(sd),
     mem32 |-> [k \in 1..16 |-> Zero], memsize |-> 0]

\* Memory out of malloc, of which nothing is known and nothing is read.
Unset == ResetState(Zero)

\* Mutant: large_len is computed anew by each update.
Counted_NotSticky(st, len) ==
    LET total == (st.total_len_32 + len) % Wrap
    IN  [st EXCEPT !.total_len_32 = total,
                   !.large_len = len >= 16 \/ total >= 16]

Counted(st, len) ==
    LET total == (st.total_len_32 + len) % Wrap
    IN  [st EXCEPT !.total_len_32 = total,
                   !.large_len = @ \/ len >= 16 \/ total >= 16]

\* memsize + len < 16: the segment only goes to the buffer.
Buffered(st, input) ==
    [st EXCEPT !.mem32 = Copied(@, st.memsize, input), !.memsize = @ + Len(input)]

\* The bytes of the segment that complete a stripe left from previous updates.
Taken(st) == IF st.memsize = 0 THEN 0 ELSE 16 - st.memsize

Completed(st, input, c) ==
    IF st.memsize = 0 THEN st
    ELSE LET mem == Copied(st.mem32, st.memsize, Bytes(input, 0, Taken(st)))
         IN  [st EXCEPT !.mem32 = mem, !.v = Rounds(@, mem, 0, 1, c), !.memsize = 0]

\* The stripes of the segment itself, and its last bytes to the buffer.
Absorbed(st, rest, c) ==
    LET stripes == Len(rest) \div 16
        left    == Len(rest) % 16
    IN  [st EXCEPT !.v       = Rounds(@, rest, 0, stripes, c),
                   !.mem32   = Copied(@, 0, Bytes(rest, 16 * stripes, left)),
                   !.memsize = left]

\* Mutant: a stripe that a segment just completes stays in the buffer.
XXH32_update_endian_Refilled(st, input, c) ==
    LET counted == Counted(st, Len(input))
    IN  IF st.memsize + Len(input) <= 16 THEN Buffered(counted, input)
        ELSE Absorbed(Completed(counted, input, c),
                      Bytes(input, Taken(st), Len(input) - Taken(st)), c)

XXH32_update_endian(st, input, c) ==
    LET counted == Counted(st, Len(input))
    IN  IF st.memsize + Len(input) < 16 THEN Buffered(counted, input)
        ELSE Absorbed(Completed(counted, input, c),
                      Bytes(input, Taken(st), Len(input) - Taken(st)), c)

XXH32_digest_endian(st, c) ==
    Finish(IF st.large_len THEN st.v ELSE <<st.v[3]>>,
           st.total_len_32,
           Bytes(st.mem32, 0, st.memsize),
           c)

-----------------------------------------------------------------------------
XXH32_createState(s) ==
    /\ phase[s] = "none"
    /\ phase' = [phase EXCEPT ![s] = "raw"]
    /\ UNCHANGED <<cpu, state, seed, fed>>

XXH32_freeState(s) ==
    /\ phase[s] /= "none"
    /\ phase' = [phase EXCEPT ![s] = "none"]
    /\ state' = [state EXCEPT ![s] = Unset]
    /\ fed' = [fed EXCEPT ![s] = <<>>]
    /\ UNCHANGED <<cpu, seed>>

XXH32_reset(s, sd) ==
    /\ phase[s] /= "none"
    /\ phase' = [phase EXCEPT ![s] = "live"]
    /\ state' = [state EXCEPT ![s] = ResetState(sd)]
    /\ seed' = [seed EXCEPT ![s] = sd]
    /\ fed' = [fed EXCEPT ![s] = <<>>]
    /\ UNCHANGED cpu

XXH32_update(s, input) ==
    /\ phase[s] = "live"
    /\ Len(fed[s]) + Len(input) <= MaxFed
    /\ state' = [state EXCEPT ![s] = XXH32_update_endian(@, input, cpu)]
    /\ fed' = [fed EXCEPT ![s] = @ \o input]
    /\ UNCHANGED <<cpu, phase, seed>>

XXH32_copyState(dst, src) ==
    /\ phase[dst] /= "none"
    /\ phase[src] = "live"
    /\ dst /= src
    /\ phase' = [phase EXCEPT ![dst] = "live"]
    /\ state' = [state EXCEPT ![dst] = state[src]]
    /\ seed' = [seed EXCEPT ![dst] = seed[src]]
    /\ fed' = [fed EXCEPT ![dst] = fed[src]]
    /\ UNCHANGED cpu

\* Every byte that is fed is told from every other one.
Segment(s, n) == [k \in 1..n |-> <<s, Len(fed[s]) + k>>]

Init ==
    /\ cpu \in Cpus
    /\ phase = [s \in States |-> "none"]
    /\ state = [s \in States |-> Unset]
    /\ seed \in [States -> Seeds]
    /\ fed = [s \in States |-> <<>>]

Next ==
    \E s \in States :
        \/ XXH32_createState(s)
        \/ XXH32_freeState(s)
        \/ \E sd \in Seeds : XXH32_reset(s, sd)
        \/ \E n \in Lengths : XXH32_update(s, Segment(s, n))
        \/ \E src \in States : XXH32_copyState(s, src)

Spec == Init /\ [][Next]_vars

-----------------------------------------------------------------------------
(* Properties.                                                             *)

\* The values of the fields: the buffer holds sixteen bytes and is never left full.
TypeOK ==
    /\ cpu \in Cpus
    /\ seed \in [States -> Seeds]
    /\ \A s \in States : Len(fed[s]) \in 0..MaxFed
    /\ \A s \in Live :
        /\ state[s].total_len_32 \in 0..(Wrap - 1)
        /\ state[s].large_len \in BOOLEAN
        /\ state[s].memsize \in 0..15
        /\ DOMAIN state[s].mem32 = 1..16

\* However the input is cut, and even after total_len_32 went round, the fields
\* that XXH32_digest trusts account for every byte: the buffer holds those that
\* complete no stripe, and large_len says whether a stripe was absorbed at all.
Accounted ==
    \A s \in Live :
        /\ state[s].memsize = Len(fed[s]) % 16
        /\ state[s].large_len = (Len(fed[s]) >= 16)
        /\ state[s].total_len_32 = Len(fed[s]) % Wrap

\* "A hash value can be produced anytime" (xxhash.h:191): the digest of a state is
\* the hash, in one call, of all the bytes fed since its reset or in the state it
\* was copied of, whatever the segments were.
DigestIsOneShot ==
    \A s \in Live : XXH32_digest_endian(state[s], cpu) = XXH32(fed[s], seed[s], cpu)

\* "Results are identical for little-endian and big-endian CPU" (xxhash.c:71) and
\* canonical values "remain comparable on different systems" (xxhash.h:210): a
\* digest written here is, read there, the hash that machine computes itself.
Comparable ==
    \A s \in Live, there \in Cpus :
        HashFromCanonical(
            CanonicalFromHash(Digits(XXH32_digest_endian(state[s], cpu), 4), cpu), there)
            = Digits(XXH32(fed[s], seed[s], there), 4)

=============================================================================
