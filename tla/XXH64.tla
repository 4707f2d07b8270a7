------------------------------- MODULE XXH64 --------------------------------
(***************************************************************************)
(* XXH64 of src/share/xxhash.c.  It differs from XXH32 in more than its    *)
(* width: the accumulators are merged into the hash once more, a half word *)
(* of the rest is read as one, and no flag remembers that a stripe was     *)
(* absorbed, total_len does.  It counts 64 bits: no caller lives to see it *)
(* go round, so the model counts it in the naturals.                       *)
(***************************************************************************)
EXTENDS XXHash

VARIABLES
    phase64,    \* of each state: "none", "raw" out of malloc or "live" after a reset
    state64,    \* the XXH64_state_t of each, which means nothing before a reset
    seed64,     \* ghost: what reset was given
    fed64       \* ghost: every byte fed since the reset

vars64 == <<cpu, phase64, state64, seed64, fed64>>

Live64 == {s \in States : phase64[s] = "live"}

-----------------------------------------------------------------------------
(* The start values: seed + P1 + P2, seed + P2, seed and seed - P1.        *)

Start64(sd) == [lane \in 1..4 |-> <<<<sd, lane>>>>]

\* The accumulators after the stripes of memory that follow its first from bytes.
Rounds64(v, memory, from, stripes, c) ==
    [lane \in 1..4 |->
        v[lane] \o [j \in 1..stripes |->
                       ReadLE(Bytes(memory, from + 32 * (j - 1) + 8 * (lane - 1), 8), c)]]

\* XXH64_round(0, word).
Round0(word) == <<Zero, word>>

\* The sum of the accumulators, then each of them by XXH64_mergeRound.
Merged(v) == <<v>> \o [lane \in 1..4 |-> Round0(v[lane])]

\* The rest of the input by words, at most one half word and bytes, and the avalanche.
Finish64(head, len, rest, c) ==
    LET size  == Len(rest)
        whole == 8 * (size \div 8)
        half  == IF whole + 4 <= size THEN 4 ELSE 0
    IN  [head  |-> head,
         len   |-> len,
         words |-> [j \in 1..size \div 8 |-> Round0(ReadLE(Bytes(rest, 8 * (j - 1), 8), c))],
         half  |-> ReadLE(Bytes(rest, whole, half), c),
         bytes |-> Bytes(rest, whole + half, size - whole - half)]

XXH64_endian_align(input, sd, c) ==
    LET len     == Len(input)
        stripes == len \div 32
    IN  Finish64(IF len >= 32 THEN Merged(Rounds64(Start64(sd), input, 0, stripes, c))
                              ELSE <<Start64(sd)[3]>>,
                 len,
                 Bytes(input, 32 * stripes, len % 32),
                 c)

XXH64(input, sd, c) == XXH64_endian_align(input, sd, c)

-----------------------------------------------------------------------------
ResetState64(sd) ==
    [total_len |-> 0, v |-> Start64(sd), mem64 |-> [k \in 1..32 |-> Zero], memsize |-> 0]

\* Memory out of malloc, of which nothing is known and nothing is read.
Unset64 == ResetState64(Zero)

\* memsize + len < 32: the segment only goes to the buffer.
Buffered64(st, input) ==
    [st EXCEPT !.mem64 = Copied(@, st.memsize, input), !.memsize = @ + Len(input)]

\* The bytes of the segment that complete a stripe left from previous updates.
Taken64(st) == IF st.memsize = 0 THEN 0 ELSE 32 - st.memsize

Completed64(st, input, c) ==
    IF st.memsize = 0 THEN st
    ELSE LET mem == Copied(st.mem64, st.memsize, Bytes(input, 0, Taken64(st)))
         IN  [st EXCEPT !.mem64 = mem, !.v = Rounds64(@, mem, 0, 1, c), !.memsize = 0]

\* The stripes of the segment itself, and its last bytes to the buffer.
Absorbed64(st, rest, c) ==
    LET stripes == Len(rest) \div 32
        left    == Len(rest) % 32
    IN  [st EXCEPT !.v       = Rounds64(@, rest, 0, stripes, c),
                   !.mem64   = Copied(@, 0, Bytes(rest, 32 * stripes, left)),
                   !.memsize = left]

\* Mutant: a stripe that a segment just completes stays in the buffer.
XXH64_update_endian_Refilled(st, input, c) ==
    LET counted == [st EXCEPT !.total_len = @ + Len(input)]
    IN  IF st.memsize + Len(input) <= 32 THEN Buffered64(counted, input)
        ELSE Absorbed64(Completed64(counted, input, c),
                        Bytes(input, Taken64(st), Len(input) - Taken64(st)), c)

\* Mutant: the segment is counted only where its stripes are absorbed.
XXH64_update_endian_Uncounted(st, input, c) ==
    LET counted == [st EXCEPT !.total_len = @ + Len(input)]
    IN  IF st.memsize + Len(input) < 32 THEN Buffered64(st, input)
        ELSE Absorbed64(Completed64(counted, input, c),
                        Bytes(input, Taken64(st), Len(input) - Taken64(st)), c)

XXH64_update_endian(st, input, c) ==
    LET counted == [st EXCEPT !.total_len = @ + Len(input)]
    IN  IF st.memsize + Len(input) < 32 THEN Buffered64(counted, input)
        ELSE Absorbed64(Completed64(counted, input, c),
                        Bytes(input, Taken64(st), Len(input) - Taken64(st)), c)

\* Mutant: the test of a small input is off by one.
XXH64_digest_endian_Exact(st, c) ==
    Finish64(IF st.total_len > 32 THEN Merged(st.v) ELSE <<st.v[3]>>,
             st.total_len,
             Bytes(st.mem64, 0, st.memsize),
             c)

XXH64_digest_endian(st, c) ==
    Finish64(IF st.total_len >= 32 THEN Merged(st.v) ELSE <<st.v[3]>>,
             st.total_len,
             Bytes(st.mem64, 0, st.memsize),
             c)

-----------------------------------------------------------------------------
XXH64_createState(s) ==
    /\ phase64[s] = "none"
    /\ phase64' = [phase64 EXCEPT ![s] = "raw"]
    /\ UNCHANGED <<cpu, state64, seed64, fed64>>

XXH64_freeState(s) ==
    /\ phase64[s] /= "none"
    /\ phase64' = [phase64 EXCEPT ![s] = "none"]
    /\ state64' = [state64 EXCEPT ![s] = Unset64]
    /\ fed64' = [fed64 EXCEPT ![s] = <<>>]
    /\ UNCHANGED <<cpu, seed64>>

XXH64_reset(s, sd) ==
    /\ phase64[s] /= "none"
    /\ phase64' = [phase64 EXCEPT ![s] = "live"]
    /\ state64' = [state64 EXCEPT ![s] = ResetState64(sd)]
    /\ seed64' = [seed64 EXCEPT ![s] = sd]
    /\ fed64' = [fed64 EXCEPT ![s] = <<>>]
    /\ UNCHANGED cpu

XXH64_update(s, input) ==
    /\ phase64[s] = "live"
    /\ Len(fed64[s]) + Len(input) <= MaxFed
    /\ state64' = [state64 EXCEPT ![s] = XXH64_update_endian(@, input, cpu)]
    /\ fed64' = [fed64 EXCEPT ![s] = @ \o input]
    /\ UNCHANGED <<cpu, phase64, seed64>>

XXH64_copyState(dst, src) ==
    /\ phase64[dst] /= "none"
    /\ phase64[src] = "live"
    /\ dst /= src
    /\ phase64' = [phase64 EXCEPT ![dst] = "live"]
    /\ state64' = [state64 EXCEPT ![dst] = state64[src]]
    /\ seed64' = [seed64 EXCEPT ![dst] = seed64[src]]
    /\ fed64' = [fed64 EXCEPT ![dst] = fed64[src]]
    /\ UNCHANGED cpu

\* Every byte that is fed is told from every other one.
Segment64(s, n) == [k \in 1..n |-> <<s, Len(fed64[s]) + k>>]

Init64 ==
    /\ cpu \in Cpus
    /\ phase64 = [s \in States |-> "none"]
    /\ state64 = [s \in States |-> Unset64]
    /\ seed64 \in [States -> Seeds]
    /\ fed64 = [s \in States |-> <<>>]

Next64 ==
    \E s \in States :
        \/ XXH64_createState(s)
        \/ XXH64_freeState(s)
        \/ \E sd \in Seeds : XXH64_reset(s, sd)
        \/ \E n \in Lengths : XXH64_update(s, Segment64(s, n))
        \/ \E src \in States : XXH64_copyState(s, src)

Spec64 == Init64 /\ [][Next64]_vars64

-----------------------------------------------------------------------------
(* Properties.                                                             *)

\* The values of the fields: the buffer holds 32 bytes and is never left full.
TypeOK64 ==
    /\ cpu \in Cpus
    /\ seed64 \in [States -> Seeds]
    /\ \A s \in States : Len(fed64[s]) \in 0..MaxFed
    /\ \A s \in Live64 :
        /\ state64[s].total_len \in Nat
        /\ state64[s].memsize \in 0..31
        /\ DOMAIN state64[s].mem64 = 1..32

\* However the input is cut, the fields that XXH64_digest trusts account for every
\* byte: total_len counts them all, and the buffer those that complete no stripe.
Accounted64 ==
    \A s \in Live64 :
        /\ state64[s].memsize = Len(fed64[s]) % 32
        /\ state64[s].total_len = Len(fed64[s])

\* "A hash value can be produced anytime" (xxhash.h:191): the digest of a state is
\* the hash, in one call, of all the bytes fed since its reset or in the state it
\* was copied of, whatever the segments were.
DigestIsOneShot64 ==
    \A s \in Live64 : XXH64_digest_endian(state64[s], cpu) = XXH64(fed64[s], seed64[s], cpu)

\* "Results are identical for little-endian and big-endian CPU" (xxhash.c:71) and
\* canonical values "remain comparable on different systems" (xxhash.h:210): a
\* digest written here is, read there, the hash that machine computes itself.
Comparable64 ==
    \A s \in Live64, there \in Cpus :
        HashFromCanonical(
            CanonicalFromHash(Digits(XXH64_digest_endian(state64[s], cpu), 8), cpu), there)
            = Digits(XXH64(fed64[s], seed64[s], there), 8)

=============================================================================
