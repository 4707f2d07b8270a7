----------------------------- MODULE XXHashProofs -----------------------------
(***************************************************************************)
(* Theorems about XXH32 and XXH64, for any states, seeds, segments, bound  *)
(* on the input and width of the counter of XXH32.                         *)
(*                                                                         *)
(* First come the lemmas that both need, about remainders, sequences,      *)
(* memory and byte orders; then XXH32 and, laid out like it, XXH64, each   *)
(* from its accumulators over what one state stands for to its inductive   *)
(* invariant and its theorems.                                             *)
(***************************************************************************)
EXTENDS XXH32, XXH64, SequenceTheorems, TLAPS

(* Arithmetic. *)

\* A quotient and a remainder are the only ones.
LEMMA ModUnique ==
  ASSUME NEW w \in Nat, w > 0, NEW q \in Nat, NEW r \in Nat, r < w
  PROVE  (w * q + r) \div w = q /\ (w * q + r) % w = r
<1>. DEFINE n == w * q + r
            p == n \div w
            u == n % w
<1>1. n \in Nat /\ p \in Nat /\ u \in Nat /\ u < w /\ n = w * p + u
  OBVIOUS
<1>2. CASE p > q
  <2>1. w * p >= w * (q + 1)
    BY <1>1, <1>2
  <2>. QED
    BY <1>1, <2>1
<1>3. CASE p < q
  <2>1. w * q >= w * (p + 1)
    BY <1>1, <1>3
  <2>. QED
    BY <1>1, <2>1
<1>4. CASE p = q
  BY <1>1, <1>4
<1>. QED
  BY <1>1, <1>2, <1>3, <1>4

\* Counting modulo w, a segment at a time.
LEMMA ModAdds ==
  ASSUME NEW w \in Nat, w > 0, NEW m \in Nat, NEW n \in Nat
  PROVE  ((m % w) + n) % w = (m + n) % w
<1>. DEFINE q  == m \div w
            r  == m % w
            q2 == (r + n) \div w
            r2 == (r + n) % w
<1>1. q \in Nat /\ r \in Nat /\ r < w /\ m = w * q + r
  OBVIOUS
<1>2. q2 \in Nat /\ r2 \in Nat /\ r2 < w /\ r + n = w * q2 + r2
  BY <1>1
<1>3. m + n = w * (q + q2) + r2
  BY <1>1, <1>2
<1>4. (w * (q + q2) + r2) % w = r2
  <2>1. q + q2 \in Nat
    BY <1>1, <1>2
  <2>. HIDE DEF q, q2, r2
  <2>. QED
    BY <2>1, <1>2, ModUnique
<1>. QED
  BY <1>3, <1>4

-----------------------------------------------------------------------------
(* Sequences and memory. *)

\* What memory may hold: the bytes that are fed, and the zeros of a reset.
Cell == (States \union {"zero"}) \X Nat

\* A sequence appended in two parts.
LEMMA AppendedInParts ==
  ASSUME NEW S, NEW h \in Seq(S), NEW a \in Seq(S), NEW b \in Seq(S), NEW c \in Seq(S),
         Len(c) = Len(a) + Len(b),
         \A j \in 1..Len(a) : a[j] = c[j],
         \A j \in 1..Len(b) : b[j] = c[Len(a) + j]
  PROVE  (h \o a) \o b = h \o c
<1>1. (h \o a) \o b = h \o (a \o b)
  BY ConcatAssociative
<1>2. /\ a \o b \in Seq(S)
      /\ Len(a \o b) = Len(a) + Len(b)
      /\ \A i \in 1..(Len(a) + Len(b)) :
           (a \o b)[i] = IF i <= Len(a) THEN a[i] ELSE b[i - Len(a)]
  BY ConcatProperties
<1>3. Len(a) \in Nat /\ Len(b) \in Nat
  BY LenProperties
<1>4. ASSUME NEW i \in 1..Len(c)
      PROVE  (a \o b)[i] = c[i]
  <2>1. CASE i <= Len(a)
    BY <1>2, <1>3, <2>1
  <2>2. CASE i > Len(a)
    <3>1. i - Len(a) \in 1..Len(b) /\ Len(a) + (i - Len(a)) = i
      BY <1>3, <2>2
    <3>. QED
      BY <1>2, <1>3, <2>2, <3>1
  <2>. QED
    BY <1>3, <2>1, <2>2
<1>5. a \o b = c
  BY <1>2, <1>4, SeqEqual
<1>. QED
  BY <1>1, <1>5

\* What the buffer holds after a copy to it.
LEMMA CopiedCells ==
  ASSUME NEW mem \in Seq(Cell), NEW input \in Seq(Cell), NEW at \in Nat
  PROVE  /\ Copied(mem, at, input) \in Seq(Cell)
         /\ Len(Copied(mem, at, input)) = Len(mem)
         /\ \A k \in 1..Len(mem) :
              Copied(mem, at, input)[k] =
                IF k > at /\ k <= at + Len(input) THEN input[k - at] ELSE mem[k]
<1>0. Len(mem) \in Nat
  BY LenProperties
<1>1. ASSUME NEW k \in 1..Len(mem), k > at, k <= at + Len(input)
      PROVE  input[k - at] \in Cell
  <2>1. Len(input) \in Nat
    BY LenProperties
  <2>2. k - at \in 1..Len(input)
    BY <1>1, <2>1
  <2>. QED
    BY <2>2, ElementOfSeq
<1>2. \A k \in 1..Len(mem) : mem[k] \in Cell
  BY ElementOfSeq
<1>3. Copied(mem, at, input) \in [1..Len(mem) -> Cell]
  BY <1>1, <1>2 DEF Copied
<1>. QED
  BY <1>0, <1>3 DEF Copied

\* A part of a memory.
LEMMA BytesCells ==
  ASSUME NEW memory \in Seq(Cell), NEW from \in Nat, NEW size \in Nat,
         from + size <= Len(memory)
  PROVE  /\ Bytes(memory, from, size) \in Seq(Cell)
         /\ Len(Bytes(memory, from, size)) = size
         /\ \A k \in 1..size : Bytes(memory, from, size)[k] = memory[from + k]
<1>1. Len(memory) \in Nat
  BY LenProperties
<1>2. ASSUME NEW k \in 1..size
      PROVE  memory[from + k] \in Cell
  <2>1. from + k \in 1..Len(memory)
    BY <1>1
  <2>. QED
    BY <2>1, ElementOfSeq
<1>. QED
  BY <1>2 DEF Bytes

\* Nothing fed is within every bound.
LEMMA EmptyFed == << >> \in Seq(Cell) /\ Len(<< >>) = 0 /\ 0 <= MaxFed
<1>1. << >> \in Seq(Cell)
  BY EmptySeq
<1>2. Len(<< >>) = 0
  OBVIOUS
<1>3. 0 <= MaxFed
  BY LengthsAssumption
<1>. QED
  BY <1>1, <1>2, <1>3

-----------------------------------------------------------------------------
(* The two kinds of CPU. *)

\* The words of the input are the same on both.
LEMMA SameWords ==
  ASSUME NEW memory, NEW here \in Cpus, NEW there \in Cpus
  PROVE  ReadLE(memory, here) = ReadLE(memory, there)
BY DEF Cpus, ReadLE, Read

\* A byte order written and read back is the one before.
LEMMA CanonicalBack ==
  ASSUME NEW hash, NEW size \in Nat, NEW here \in Cpus, NEW there \in Cpus
  PROVE  HashFromCanonical(CanonicalFromHash(Digits(hash, size), here), there) = Digits(hash, size)
<1>. DEFINE d == Digits(hash, size)
            At(k) == size + 1 - k
<1>1. Len(d) = size /\ d = [k \in 1..size |-> d[k]]
  BY DEF Digits
<1>. HIDE DEF d
<1>2. Swap(d) = [k \in 1..size |-> d[At(k)]] /\ Len([k \in 1..size |-> d[At(k)]]) = size
  BY <1>1 DEF Swap
<1>3. Swap(Swap(d)) = [k \in 1..size |-> Swap(d)[At(k)]]
  <2>. DEFINE w == Swap(d)
  <2>1. Len(w) = size
    BY <1>2
  <2>. HIDE DEF w
  <2>2. Swap(w) = [k \in 1..size |-> w[At(k)]]
    BY <2>1 DEF Swap
  <2>. QED
    BY <2>2 DEF w
<1>4. ASSUME NEW k \in 1..size
      PROVE  Swap(d)[At(k)] = d[k]
  <2>1. At(k) \in 1..size /\ At(At(k)) = k
    OBVIOUS
  <2>. HIDE DEF At
  <2>. QED
    BY <1>2, <2>1
<1>5. Swap(Swap(d)) = d
  <2>. HIDE DEF At
  <2>. QED
    BY <1>1, <1>3, <1>4
<1>6. CanonicalFromHash(d, here) = d
  BY <1>5 DEF CanonicalFromHash, Written, Cpus
<1>7. HashFromCanonical(d, there) = d
  BY <1>5 DEF HashFromCanonical, ReadBE, Read, Cpus
<1>. QED
  BY <1>6, <1>7 DEF d

-----------------------------------------------------------------------------
(* XXH32: the accumulators. *)

\* The word of memory after its first at bytes, and the words of a lane.
Word(memory, at, c) == ReadLE(Bytes(memory, at, 4), c)
Column(memory, lane, from, n, c) ==
  [j \in 1..n |-> Word(memory, from + 16 * (j - 1) + 4 * (lane - 1), c)]

LEMMA RoundsColumns ==
  ASSUME NEW v, NEW memory, NEW from, NEW n, NEW c
  PROVE  Rounds(v, memory, from, n, c) =
           [lane \in 1..4 |-> v[lane] \o Column(memory, lane, from, n, c)]
BY DEF Rounds, Column, Word

\* A word depends on nothing but its four bytes.
LEMMA WordSame ==
  ASSUME NEW m1, NEW m2, NEW p \in Int, NEW q \in Int, NEW c,
         \A k \in 1..4 : m1[p + k] = m2[q + k]
  PROVE  Word(m1, p, c) = Word(m2, q, c)
<1>1. Bytes(m1, p, 4) = Bytes(m2, q, 4)
  BY DEF Bytes
<1>. QED
  BY <1>1 DEF Word

\* The stripes of part go on where those of whole stop.
LEMMA RoundsGoOn ==
  ASSUME NEW whole, NEW part, NEW sd, NEW c, NEW a \in Nat, NEW b \in Nat,
         \A i \in 1..(16 * b) : part[i] = whole[16 * a + i]
  PROVE  Rounds(Rounds(Start(sd), whole, 0, a, c), part, 0, b, c) =
           Rounds(Start(sd), whole, 0, a + b, c)
<1>. DEFINE S == {<<sd, lane>> : lane \in 1..4} \union
                 {Word(whole, p, c) : p \in Int} \union {Word(part, p, c) : p \in Int}
            Lane(lane) == <<<<sd, lane>>>> \o Column(whole, lane, 0, a, c)
<1>1. ASSUME NEW lane \in 1..4
      PROVE  Lane(lane) \o Column(part, lane, 0, b, c) =
               <<<<sd, lane>>>> \o Column(whole, lane, 0, a + b, c)
  <2>. DEFINE H == <<<<sd, lane>>>>
              A == Column(whole, lane, 0, a, c)
              B == Column(part, lane, 0, b, c)
              C == Column(whole, lane, 0, a + b, c)
  <2>1. H \in Seq(S)
    OBVIOUS
  <2>2. A \in Seq(S) /\ Len(A) = a
    BY DEF Column
  <2>3. B \in Seq(S) /\ Len(B) = b
    BY DEF Column
  <2>4. C \in Seq(S) /\ Len(C) = a + b
    BY DEF Column
  <2>5. ASSUME NEW j \in 1..b
        PROVE  B[j] = C[a + j]
    <3>. DEFINE p == 0 + 16 * (j - 1) + 4 * (lane - 1)
                q == 0 + 16 * (a + j - 1) + 4 * (lane - 1)
    <3>1. B[j] = Word(part, p, c) /\ C[a + j] = Word(whole, q, c)
      BY DEF Column
    <3>2. p \in Int /\ q \in Int /\ q = 16 * a + p
      OBVIOUS
    <3>3. ASSUME NEW k \in 1..4
          PROVE  part[p + k] = whole[q + k]
      <4>1. p + k \in 1..(16 * b) /\ 16 * a + (p + k) = q + k
        OBVIOUS
      <4>. QED
        BY <4>1
    <3>. HIDE DEF p, q
    <3>. QED
      BY <3>1, <3>2, <3>3, WordSame
  <2>6. ASSUME NEW j \in 1..a
        PROVE  A[j] = C[j]
    BY DEF Column
  <2>. HIDE DEF H, A, B, C, S
  <2>7. /\ Len(C) = Len(A) + Len(B)
        /\ \A j \in 1..Len(A) : A[j] = C[j]
        /\ \A j \in 1..Len(B) : B[j] = C[Len(A) + j]
    BY <2>2, <2>3, <2>4, <2>5, <2>6
  <2>8. (H \o A) \o B = H \o C
    BY <2>1, <2>2, <2>3, <2>4, <2>7, AppendedInParts, ZenonT(60)
  <2>. QED
    BY <2>8 DEF H, A, B, C
<1>2. Rounds(Start(sd), whole, 0, a, c) = [lane \in 1..4 |-> Lane(lane)]
  BY RoundsColumns DEF Start
<1>3. Rounds(Start(sd), whole, 0, a + b, c) =
        [lane \in 1..4 |-> <<<<sd, lane>>>> \o Column(whole, lane, 0, a + b, c)]
  BY RoundsColumns DEF Start
<1>4. Rounds(Rounds(Start(sd), whole, 0, a, c), part, 0, b, c) =
        [lane \in 1..4 |-> Lane(lane) \o Column(part, lane, 0, b, c)]
  <2>. HIDE DEF Lane
  <2>. QED
    BY <1>2, RoundsColumns
<1>. QED
  <2>. HIDE DEF Lane
  <2>. QED
    BY <1>1, <1>3, <1>4

\* More input after the stripes changes nothing of them.
LEMMA RoundsSame ==
  ASSUME NEW whole, NEW more, NEW sd, NEW c, NEW a \in Nat,
         \A i \in 1..(16 * a) : more[i] = whole[i]
  PROVE  Rounds(Start(sd), more, 0, a, c) = Rounds(Start(sd), whole, 0, a, c)
<1>1. ASSUME NEW lane \in 1..4
      PROVE  Column(more, lane, 0, a, c) = Column(whole, lane, 0, a, c)
  <2>1. ASSUME NEW j \in 1..a
        PROVE  Word(more, 0 + 16 * (j - 1) + 4 * (lane - 1), c) =
                 Word(whole, 0 + 16 * (j - 1) + 4 * (lane - 1), c)
    <3>. DEFINE p == 0 + 16 * (j - 1) + 4 * (lane - 1)
    <3>1. p \in Int /\ \A k \in 1..4 : p + k \in 1..(16 * a)
      OBVIOUS
    <3>. HIDE DEF p
    <3>2. Word(more, p, c) = Word(whole, p, c)
      BY <3>1, WordSame
    <3>. QED
      BY <3>2 DEF p
  <2>. QED
    BY <2>1 DEF Column
<1>. QED
  BY <1>1, RoundsColumns

\* No stripe, no change.
LEMMA RoundsNone ==
  ASSUME NEW memory, NEW sd, NEW c
  PROVE  Rounds(Start(sd), memory, 0, 0, c) = Start(sd)
<1>1. ASSUME NEW lane \in 1..4
      PROVE  <<<<sd, lane>>>> \o Column(memory, lane, 0, 0, c) = <<<<sd, lane>>>>
  <2>1. Column(memory, lane, 0, 0, c) = << >>
    BY DEF Column
  <2>2. <<<<sd, lane>>>> \in Seq({<<sd, lane>>})
    OBVIOUS
  <2>. QED
    BY <2>1, <2>2, ConcatEmptySeq
<1>. QED
  BY <1>1, RoundsColumns DEF Start

-----------------------------------------------------------------------------
(* XXH32: one state, and the segments fed to it. *)

\* A state by its fields.
Made(total, large, v, mem, size) ==
  [total_len_32 |-> total, large_len |-> large, v |-> v, mem32 |-> mem, memsize |-> size]

\* The fields of st after the bytes f, since a reset with sd.
Stands(st, sd, f, c) ==
  /\ st = Made(Len(f) % Wrap, Len(f) >= 16, Rounds(Start(sd), f, 0, Len(f) \div 16, c),
               st.mem32, Len(f) % 16)
  /\ st.mem32 \in Seq(Cell)
  /\ Len(st.mem32) = 16
  /\ \A k \in 1..(Len(f) % 16) : st.mem32[k] = f[16 * (Len(f) \div 16) + k]

\* A reset state stands for no bytes at all.
LEMMA ResetStands ==
  ASSUME NEW sd, NEW c
  PROVE  Stands(ResetState(sd), sd, << >>, c)
<1>1. Zero \in Cell
  BY DEF Zero, Cell
<1>2. [k \in 1..16 |-> Zero] \in Seq(Cell) /\ Len([k \in 1..16 |-> Zero]) = 16
  BY <1>1
<1>3. 0 % Wrap = 0
  BY WrapAssumption, ModUnique
<1>4. Len(<< >>) = 0 /\ 0 \div 16 = 0 /\ 0 % 16 = 0 /\ (0 >= 16) = FALSE
  OBVIOUS
<1>. DEFINE st == ResetState(sd)
<1>5. st.mem32 = [k \in 1..16 |-> Zero]
  BY DEF ResetState
<1>6. st = Made(0, FALSE, Start(sd), st.mem32, 0)
  BY DEF ResetState, Made
<1>. HIDE DEF st
<1>7. st = Made(Len(<< >>) % Wrap, Len(<< >>) >= 16,
                Rounds(Start(sd), << >>, 0, Len(<< >>) \div 16, c), st.mem32, Len(<< >>) % 16)
  BY <1>3, <1>4, <1>6, RoundsNone, Zenon
<1>8. \A k \in 1..(Len(<< >>) % 16) : FALSE
  BY <1>4
<1>9. Stands(st, sd, << >>, c)
  BY <1>2, <1>5, <1>7, <1>8 DEF Stands
<1>. QED
  BY <1>9 DEF st

\* The fields that count.
LEMMA CountedFields ==
  ASSUME NEW L \in Nat, NEW n \in Nat
  PROVE  /\ ((L % Wrap) + n) % Wrap = (L + n) % Wrap
         /\ (L >= 16 \/ n >= 16 \/ ((L % Wrap) + n) % Wrap >= 16) = (L + n >= 16)
<1>1. ((L % Wrap) + n) % Wrap = (L + n) % Wrap
  <2>1. Wrap \in Nat /\ Wrap > 0
    BY WrapAssumption
  <2>. QED
    BY <2>1, ModAdds, Zenon
<1>2. CASE L < 16 /\ n < 16
  <2>1. (L + n) % Wrap = L + n
    <3>. DEFINE r == L + n
    <3>1. r \in Nat /\ r < Wrap /\ Wrap \in Nat /\ Wrap > 0
      BY <1>2, WrapAssumption
    <3>2. (Wrap * 0 + r) % Wrap = r
      BY <3>1, ModUnique
    <3>3. Wrap * 0 + r = r
      BY <3>1
    <3>. HIDE DEF r
    <3>4. r % Wrap = r
      BY <3>2, <3>3
    <3>. QED
      BY <3>4 DEF r
  <2>2. (L >= 16 \/ n >= 16 \/ L + n >= 16) = (L + n >= 16)
    BY <1>2
  <2>. QED
    BY <1>1, <2>1, <2>2
<1>3. CASE L >= 16 \/ n >= 16
  <2>1. L + n >= 16
    BY <1>3
  <2>. QED
    BY <1>1, <1>3, <2>1
<1>. QED
  BY <1>2, <1>3

LEMMA MadeFields ==
  ASSUME NEW T, NEW B, NEW V, NEW M, NEW S
  PROVE  /\ Made(T, B, V, M, S).total_len_32 = T
         /\ Made(T, B, V, M, S).large_len = B
         /\ Made(T, B, V, M, S).v = V
         /\ Made(T, B, V, M, S).mem32 = M
         /\ Made(T, B, V, M, S).memsize = S
BY DEF Made

\* The fields of a state are set one by one.
LEMMA MadeTotal ==
  ASSUME NEW T, NEW B, NEW V, NEW M, NEW S, NEW X
  PROVE  [Made(T, B, V, M, S) EXCEPT !.total_len_32 = X] = Made(X, B, V, M, S)
BY DEF Made

LEMMA MadeLarge ==
  ASSUME NEW T, NEW B, NEW V, NEW M, NEW S, NEW X
  PROVE  [Made(T, B, V, M, S) EXCEPT !.large_len = X] = Made(T, X, V, M, S)
BY DEF Made

LEMMA MadeV ==
  ASSUME NEW T, NEW B, NEW V, NEW M, NEW S, NEW X
  PROVE  [Made(T, B, V, M, S) EXCEPT !.v = X] = Made(T, B, X, M, S)
BY DEF Made

LEMMA MadeMem ==
  ASSUME NEW T, NEW B, NEW V, NEW M, NEW S, NEW X
  PROVE  [Made(T, B, V, M, S) EXCEPT !.mem32 = X] = Made(T, B, V, X, S)
BY DEF Made

LEMMA MadeSize ==
  ASSUME NEW T, NEW B, NEW V, NEW M, NEW S, NEW X
  PROVE  [Made(T, B, V, M, S) EXCEPT !.memsize = X] = Made(T, B, V, M, X)
BY DEF Made

\* What the steps of an update make of the fields.
LEMMA CountedMade ==
  ASSUME NEW T, NEW B, NEW V, NEW M, NEW S, NEW st,
         st = Made(T, B, V, M, S), NEW n,
         NEW X, X = (T + n) % Wrap, NEW Y, Y = (B \/ n >= 16 \/ X >= 16)
  PROVE  Counted(st, n) = Made(X, Y, V, M, S)
<1>1. [st EXCEPT !.total_len_32 = X] = Made(X, B, V, M, S)
  BY MadeTotal
<1>2. [Made(X, B, V, M, S) EXCEPT !.large_len = Y] = Made(X, Y, V, M, S)
  BY MadeLarge
<1>3. [st EXCEPT !.total_len_32 = X, !.large_len = Y] =
        [[st EXCEPT !.total_len_32 = X] EXCEPT !.large_len = Y]
  OBVIOUS
<1>4. st.total_len_32 = T /\ st.large_len = B
  BY MadeFields
<1>5. Counted(st, n) = [st EXCEPT !.total_len_32 = X, !.large_len = Y]
  BY <1>4 DEF Counted
<1>. QED
  BY <1>1, <1>2, <1>3, <1>5

LEMMA BufferedMade ==
  ASSUME NEW T, NEW B, NEW V, NEW M, NEW S, NEW st,
         st = Made(T, B, V, M, S), NEW input,
         NEW X, X = Copied(M, S, input), NEW Y, Y = S + Len(input)
  PROVE  Buffered(st, input) = Made(T, B, V, X, Y)
<1>1. [st EXCEPT !.mem32 = X] = Made(T, B, V, X, S)
  BY MadeMem
<1>2. [Made(T, B, V, X, S) EXCEPT !.memsize = Y] = Made(T, B, V, X, Y)
  BY MadeSize
<1>3. [st EXCEPT !.mem32 = X, !.memsize = Y] =
        [[st EXCEPT !.mem32 = X] EXCEPT !.memsize = Y]
  OBVIOUS
<1>4. st.mem32 = M /\ st.memsize = S
  BY MadeFields
<1>5. Buffered(st, input) = [st EXCEPT !.mem32 = X, !.memsize = Y]
  BY <1>4 DEF Buffered
<1>. QED
  BY <1>1, <1>2, <1>3, <1>5

LEMMA CompletedMade ==
  ASSUME NEW T, NEW B, NEW V, NEW M, NEW S, NEW st,
         st = Made(T, B, V, M, S), NEW input, NEW c, S /= 0,
         NEW X, X = Copied(M, S, Bytes(input, 0, 16 - S)),
         NEW Y, Y = Rounds(V, X, 0, 1, c), NEW Z, Z = 0
  PROVE  Completed(st, input, c) = Made(T, B, Y, X, Z)
<1>1. [st EXCEPT !.mem32 = X] = Made(T, B, V, X, S)
  BY MadeMem
<1>2. [Made(T, B, V, X, S) EXCEPT !.v = Y] = Made(T, B, Y, X, S)
  BY MadeV
<1>3. [Made(T, B, Y, X, S) EXCEPT !.memsize = Z] = Made(T, B, Y, X, Z)
  BY MadeSize
<1>4. [st EXCEPT !.mem32 = X, !.v = Y, !.memsize = Z] = Made(T, B, Y, X, Z)
  <2>1. [st EXCEPT !.mem32 = X, !.v = Y, !.memsize = Z] =
          [[[st EXCEPT !.mem32 = X] EXCEPT !.v = Y] EXCEPT !.memsize = Z]
    OBVIOUS
  <2>2. [[[st EXCEPT !.mem32 = X] EXCEPT !.v = Y] EXCEPT !.memsize = Z] =
          [[Made(T, B, V, X, S) EXCEPT !.v = Y] EXCEPT !.memsize = Z]
    BY <1>1
  <2>3. [[Made(T, B, V, X, S) EXCEPT !.v = Y] EXCEPT !.memsize = Z] =
          [Made(T, B, Y, X, S) EXCEPT !.memsize = Z]
    BY <1>2
  <2>. QED
    BY <1>3, <2>1, <2>2, <2>3
<1>5. st.mem32 = M /\ st.v = V /\ st.memsize = S
  BY MadeFields
<1>6. Completed(st, input, c) = [st EXCEPT !.mem32 = X, !.v = Y, !.memsize = Z]
  BY <1>5 DEF Completed, Taken
<1>. QED
  BY <1>4, <1>6

LEMMA AbsorbedMade ==
  ASSUME NEW T, NEW B, NEW V, NEW M, NEW S, NEW st,
         st = Made(T, B, V, M, S), NEW rest, NEW c,
         NEW X, X = Rounds(V, rest, 0, Len(rest) \div 16, c), NEW Z, Z = Len(rest) % 16,
         NEW Y, Y = Copied(M, 0, Bytes(rest, 16 * (Len(rest) \div 16), Z))
  PROVE  Absorbed(st, rest, c) = Made(T, B, X, Y, Z)
<1>1. [st EXCEPT !.v = X] = Made(T, B, X, M, S)
  BY MadeV
<1>2. [Made(T, B, X, M, S) EXCEPT !.mem32 = Y] = Made(T, B, X, Y, S)
  BY MadeMem
<1>3. [Made(T, B, X, Y, S) EXCEPT !.memsize = Z] = Made(T, B, X, Y, Z)
  BY MadeSize
<1>4. [st EXCEPT !.v = X, !.mem32 = Y, !.memsize = Z] = Made(T, B, X, Y, Z)
  <2>1. [st EXCEPT !.v = X, !.mem32 = Y, !.memsize = Z] =
          [[[st EXCEPT !.v = X] EXCEPT !.mem32 = Y] EXCEPT !.memsize = Z]
    OBVIOUS
  <2>2. [[[st EXCEPT !.v = X] EXCEPT !.mem32 = Y] EXCEPT !.memsize = Z] =
          [[Made(T, B, X, M, S) EXCEPT !.mem32 = Y] EXCEPT !.memsize = Z]
    BY <1>1
  <2>3. [[Made(T, B, X, M, S) EXCEPT !.mem32 = Y] EXCEPT !.memsize = Z] =
          [Made(T, B, X, Y, S) EXCEPT !.memsize = Z]
    BY <1>2
  <2>. QED
    BY <1>3, <2>1, <2>2, <2>3
<1>5. st.v = V /\ st.mem32 = M
  BY MadeFields
<1>6. Absorbed(st, rest, c) = [st EXCEPT !.v = X, !.mem32 = Y, !.memsize = Z]
  BY <1>5 DEF Absorbed
<1>. QED
  BY <1>4, <1>6

\* Segments go to the buffer, which has no stripe yet.
LEMMA BufferStands ==
  ASSUME NEW f \in Seq(Cell), NEW input \in Seq(Cell), NEW st, NEW sd, NEW c,
         Stands(st, sd, f, c), st.memsize + Len(input) < 16
  PROVE  Stands(Buffered(Counted(st, Len(input)), input), sd, f \o input, c)
<1>. DEFINE L == Len(f)
            n == Len(input)
            q == L \div 16
            m == L % 16
            g == f \o input
            V == Rounds(Start(sd), f, 0, q, c)
            mem == Copied(st.mem32, m, input)
            total == ((L % Wrap) + n) % Wrap
            large == L >= 16 \/ n >= 16 \/ total >= 16
            new == Buffered(Counted(st, n), input)
<1>1. L \in Nat /\ n \in Nat
  BY LenProperties
<1>2. q \in Nat /\ m \in 0..15 /\ L = 16 * q + m
  BY <1>1
<1>3. /\ st = Made(L % Wrap, L >= 16, V, st.mem32, m)
      /\ st.mem32 \in Seq(Cell)
      /\ Len(st.mem32) = 16
      /\ \A k \in 1..m : st.mem32[k] = f[16 * q + k]
  BY DEF Stands
<1>4. m + n < 16
  <2>1. st.memsize = m
    <3>. HIDE DEF m, V, L
    <3>. QED
      BY <1>3, MadeFields
  <2>. QED
    BY <2>1
<1>5. /\ g \in Seq(Cell)
      /\ Len(g) = L + n
      /\ \A i \in 1..(L + n) : g[i] = IF i <= L THEN f[i] ELSE input[i - L]
  BY ConcatProperties
<1>6. (L + n) \div 16 = q /\ (L + n) % 16 = m + n
  <2>. HIDE DEF L, n, q, m
  <2>. QED
    BY <1>1, <1>2, <1>4
<1>7. total = (L + n) % Wrap /\ large = (L + n >= 16)
  BY <1>1, CountedFields
<1>8. V = Rounds(Start(sd), g, 0, q, c)
  <2>1. \A i \in 1..(16 * q) : g[i] = f[i]
    BY <1>1, <1>2, <1>5
  <2>. HIDE DEF q, g
  <2>. QED
    BY <1>2, <2>1, RoundsSame
<1>9. new = Made(total, large, V, mem, m + n)
  <2>. HIDE DEF L, n, V, m
  <2>1. Counted(st, n) = Made(total, large, V, st.mem32, m)
    <3>. DEFINE was == L >= 16
                 old == L % Wrap
    <3>1. total = (old + n) % Wrap
      OBVIOUS
    <3>2. large = (was \/ n >= 16 \/ total >= 16)
      OBVIOUS
    <3>3. st = Made(old, was, V, st.mem32, m)
      BY <1>3
    <3>. HIDE DEF total, large, was, old
    <3>. QED
      BY <3>1, <3>2, <3>3, CountedMade
  <2>2. Buffered(Counted(st, n), input) = Made(total, large, V, mem, m + Len(input))
    <3>. HIDE DEF total, large, mem
    <3>1. mem = Copied(st.mem32, m, input)
      BY DEF mem
    <3>. QED
      BY <2>1, <3>1, BufferedMade
  <2>. QED
    BY <2>2 DEF n
<1>10. /\ mem \in Seq(Cell)
       /\ Len(mem) = 16
       /\ \A k \in 1..16 :
            mem[k] = IF k > m /\ k <= m + n THEN input[k - m] ELSE st.mem32[k]
  <2>1. m \in Nat
    BY <1>2
  <2>2. /\ mem \in Seq(Cell)
        /\ Len(mem) = Len(st.mem32)
        /\ \A k \in 1..Len(st.mem32) :
             mem[k] = IF k > m /\ k <= m + n THEN input[k - m] ELSE st.mem32[k]
    <3>. HIDE DEF m
    <3>. QED
      BY <1>3, <2>1, CopiedCells
  <2>. HIDE DEF m, mem, n
  <2>. QED
    BY <1>3, <2>2
<1>. HIDE DEF mem
<1>11. ASSUME NEW k \in 1..(m + n)
       PROVE  mem[k] = g[16 * q + k]
  <2>. mem[k] = IF k > m /\ k <= m + n THEN input[k - m] ELSE st.mem32[k]
    <3>1. k \in 1..16
      BY <1>1, <1>2, <1>4
    <3>. QED
      BY <1>10, <3>1
  <2>0. k \in 1..16 /\ 16 * q + k \in 1..(L + n)
    BY <1>1, <1>2, <1>4
  <2>1. CASE k > m
    <3>1. mem[k] = input[k - m]
      <4>. HIDE DEF L, m, q, mem, n
      <4>. QED
        BY <1>1, <1>2, <1>10, <2>0, <2>1
    <3>2. ~(16 * q + k <= L) /\ (16 * q + k) - L = k - m
      BY <1>2, <2>1
    <3>. HIDE DEF L, m, q, mem, g, n
    <3>. QED
      BY <1>5, <2>0, <3>1, <3>2
  <2>2. CASE k <= m
    <3>1. mem[k] = st.mem32[k]
      <4>. HIDE DEF L, m, q, mem, n
      <4>. QED
        BY <1>2, <1>10, <2>0, <2>2
    <3>2. 16 * q + k <= L /\ k \in 1..m
      BY <1>2, <2>2
    <3>. HIDE DEF L, m, q, mem, g, n
    <3>. QED
      BY <1>3, <1>5, <2>0, <3>1, <3>2
  <2>. QED
    BY <1>2, <2>1, <2>2
<1>12. new.mem32 = mem
  <2>. HIDE DEF new, total, large, V, mem, m, n
  <2>. QED
    BY <1>9, MadeFields
<1>13. new = Made(Len(g) % Wrap, Len(g) >= 16,
                  Rounds(Start(sd), g, 0, Len(g) \div 16, c), new.mem32, Len(g) % 16)
  <2>. HIDE DEF new, total, large, V, mem, m, n, g, L, q
  <2>. QED
    BY <1>5, <1>6, <1>7, <1>8, <1>9, <1>12, Zenon
<1>14. \A k \in 1..(Len(g) % 16) : new.mem32[k] = g[16 * (Len(g) \div 16) + k]
  <2>. HIDE DEF new, mem, m, n, g, L, q
  <2>. QED
    BY <1>5, <1>6, <1>11, <1>12
<1>15. Stands(new, sd, g, c)
  <2>. HIDE DEF new, mem, g
  <2>. QED
    BY <1>10, <1>12, <1>13, <1>14 DEF Stands
<1>. QED
  BY <1>15

\* A state without anything in the buffer absorbs the rest of its bytes.
LEMMA AbsorbStands ==
  ASSUME NEW g \in Seq(Cell), NEW rest \in Seq(Cell), NEW p \in Nat, NEW sd, NEW c,
         Len(g) = 16 * p + Len(rest),
         \A i \in 1..Len(rest) : rest[i] = g[16 * p + i],
         NEW mem \in Seq(Cell), Len(mem) = 16, NEW st,
         st = Made(Len(g) % Wrap, Len(g) >= 16, Rounds(Start(sd), g, 0, p, c), mem, 0)
  PROVE  Stands(Absorbed(st, rest, c), sd, g, c)
<1>. DEFINE G == Len(g)
            r == Len(rest)
            stripes == r \div 16
            left == r % 16
            V == Rounds(Start(sd), g, 0, p, c)
            W == Rounds(V, rest, 0, stripes, c)
            tail == Bytes(rest, 16 * stripes, left)
            M == Copied(mem, 0, tail)
            new == Absorbed(st, rest, c)
<1>1. G \in Nat /\ r \in Nat /\ G = 16 * p + r
  BY LenProperties
<1>2. stripes \in Nat /\ left \in 0..15 /\ r = 16 * stripes + left
  <2>. HIDE DEF r
  <2>. QED
    BY <1>1
<1>3. G \div 16 = p + stripes /\ G % 16 = left
  <2>. HIDE DEF G, r, stripes, left
  <2>. QED
    BY <1>1, <1>2
<1>4. new = Made(G % Wrap, G >= 16, W, M, left)
  <2>. DEFINE T == G % Wrap
              B == G >= 16
  <2>1. st = Made(T, B, V, mem, 0)
    OBVIOUS
  <2>2. W = Rounds(V, rest, 0, Len(rest) \div 16, c) /\ left = Len(rest) % 16
    OBVIOUS
  <2>3. M = Copied(mem, 0, Bytes(rest, 16 * (Len(rest) \div 16), left))
    OBVIOUS
  <2>. HIDE DEF T, B, V, W, M, left
  <2>4. new = Made(T, B, W, M, left)
    BY <2>1, <2>2, <2>3, AbsorbedMade
  <2>. QED
    BY <2>4 DEF T, B
<1>5. W = Rounds(Start(sd), g, 0, p + stripes, c)
  <2>1. \A i \in 1..(16 * stripes) : rest[i] = g[16 * p + i]
    <3>1. \A i \in 1..(16 * stripes) : i \in 1..r
      <4>. HIDE DEF r, stripes
      <4>. QED
        BY <1>1, <1>2
    <3>. QED
      BY <3>1
  <2>2. stripes \in Nat /\ p \in Nat
    BY <1>2
  <2>3. W = Rounds(Rounds(Start(sd), g, 0, p, c), rest, 0, stripes, c)
    OBVIOUS
  <2>. HIDE DEF stripes, W
  <2>4. Rounds(Rounds(Start(sd), g, 0, p, c), rest, 0, stripes, c) =
          Rounds(Start(sd), g, 0, p + stripes, c)
    BY <2>1, <2>2, RoundsGoOn
  <2>. QED
    BY <2>3, <2>4
<1>6. /\ tail \in Seq(Cell)
      /\ Len(tail) = left
      /\ \A k \in 1..left : tail[k] = rest[16 * stripes + k]
  <2>1. 16 * stripes \in Nat /\ left \in Nat /\ 16 * stripes + left <= Len(rest)
    BY <1>1, <1>2
  <2>. HIDE DEF stripes, left
  <2>. QED
    BY <2>1, BytesCells
<1>7. /\ M \in Seq(Cell)
      /\ Len(M) = 16
      /\ \A k \in 1..16 : M[k] = IF k > 0 /\ k <= 0 + Len(tail) THEN tail[k - 0] ELSE mem[k]
  <2>1. 0 \in Nat /\ tail \in Seq(Cell)
    BY <1>6
  <2>2. /\ M \in Seq(Cell)
        /\ Len(M) = Len(mem)
        /\ \A k \in 1..Len(mem) :
             M[k] = IF k > 0 /\ k <= 0 + Len(tail) THEN tail[k - 0] ELSE mem[k]
    <3>. HIDE DEF tail
    <3>. QED
      BY <2>1, CopiedCells, Zenon
  <2>. HIDE DEF M, tail
  <2>. QED
    BY <2>2
<1>8. ASSUME NEW k \in 1..left
      PROVE  M[k] = g[16 * (p + stripes) + k]
  <2>1. k \in 1..16 /\ k > 0 /\ k <= 0 + left /\ k - 0 = k
    BY <1>2
  <2>2. M[k] = tail[k]
    <3>. HIDE DEF M, tail, left
    <3>. QED
      BY <1>6, <1>7, <2>1
  <2>3. tail[k] = rest[16 * stripes + k]
    BY <1>6
  <2>4. 16 * stripes + k \in 1..Len(rest) /\ 16 * p + (16 * stripes + k) = 16 * (p + stripes) + k
    BY <1>1, <1>2
  <2>5. rest[16 * stripes + k] = g[16 * p + (16 * stripes + k)]
    <3>. HIDE DEF stripes
    <3>. QED
      BY <2>4
  <2>. HIDE DEF stripes, left, M, tail
  <2>. QED
    BY <2>2, <2>3, <2>4, <2>5
<1>9. new.mem32 = M
  <2>. HIDE DEF new, W, M, left
  <2>. QED
    BY <1>4, MadeFields
<1>10. new = Made(Len(g) % Wrap, Len(g) >= 16,
                  Rounds(Start(sd), g, 0, Len(g) \div 16, c), new.mem32, Len(g) % 16)
  <2>1. Len(g) \div 16 = p + stripes /\ Len(g) % 16 = left
    BY <1>3
  <2>2. new = Made(Len(g) % Wrap, Len(g) >= 16, W, M, left)
    BY <1>4
  <2>. HIDE DEF new, W, M, left, stripes
  <2>. QED
    BY <1>5, <1>9, <2>1, <2>2, Zenon
<1>11. \A k \in 1..(Len(g) % 16) : new.mem32[k] = g[16 * (Len(g) \div 16) + k]
  <2>. HIDE DEF new, M, left, stripes
  <2>. QED
    BY <1>3, <1>8, <1>9
<1>12. Stands(new, sd, g, c)
  <2>. HIDE DEF new, M
  <2>. QED
    BY <1>7, <1>9, <1>10, <1>11 DEF Stands
<1>. QED
  BY <1>12

\* The stripe in the buffer is completed: what is left of the segment starts one.
LEMMA CompleteStands ==
  ASSUME NEW f \in Seq(Cell), NEW input \in Seq(Cell), NEW st, NEW sd, NEW c,
         Stands(st, sd, f, c), st.memsize + Len(input) >= 16
  PROVE  LET g   == f \o input
             t   == Taken(st)
             new == Completed(Counted(st, Len(input)), input, c)
         IN  \E p \in Nat :
               /\ t \in 0..Len(input)
               /\ Len(f) + t = 16 * p
               /\ new = Made(Len(g) % Wrap, Len(g) >= 16,
                             Rounds(Start(sd), g, 0, p, c), new.mem32, 0)
               /\ new.mem32 \in Seq(Cell)
               /\ Len(new.mem32) = 16
<1>. DEFINE L == Len(f)
            n == Len(input)
            q == L \div 16
            m == L % 16
            g == f \o input
            V == Rounds(Start(sd), f, 0, q, c)
            was == L >= 16
            old == L % Wrap
            total == (old + n) % Wrap
            large == was \/ n >= 16 \/ total >= 16
            cnt == Counted(st, n)
            new == Completed(cnt, input, c)
            Witnessed ==
              \E p \in Nat :
                /\ Taken(st) \in 0..n
                /\ L + Taken(st) = 16 * p
                /\ new = Made(total, large, Rounds(Start(sd), g, 0, p, c), new.mem32, 0)
                /\ new.mem32 \in Seq(Cell)
                /\ Len(new.mem32) = 16
<1>1. L \in Nat /\ n \in Nat
  BY LenProperties
<1>2. q \in Nat /\ m \in 0..15 /\ L = 16 * q + m
  <2>. HIDE DEF L
  <2>. QED
    BY <1>1
<1>3. /\ st = Made(old, was, V, st.mem32, m)
      /\ st.mem32 \in Seq(Cell)
      /\ Len(st.mem32) = 16
      /\ \A k \in 1..m : st.mem32[k] = f[16 * q + k]
  BY DEF Stands
<1>4. st.memsize = m
  <2>. HIDE DEF m, V, old, was
  <2>. QED
    BY <1>3, MadeFields
<1>5. /\ g \in Seq(Cell)
      /\ Len(g) = L + n
      /\ \A i \in 1..(L + n) : g[i] = IF i <= L THEN f[i] ELSE input[i - L]
  BY ConcatProperties
<1>6. total = (L + n) % Wrap /\ large = (L + n >= 16)
  BY <1>1, CountedFields
<1>7. V = Rounds(Start(sd), g, 0, q, c)
  <2>1. \A i \in 1..(16 * q) : g[i] = f[i]
    <3>. HIDE DEF L, n, q, m, g
    <3>. QED
      BY <1>1, <1>2, <1>5
  <2>. HIDE DEF q, g
  <2>. QED
    BY <1>2, <2>1, RoundsSame
<1>8. cnt = Made(total, large, V, st.mem32, m)
  <2>1. total = (old + n) % Wrap
    OBVIOUS
  <2>2. large = (was \/ n >= 16 \/ total >= 16)
    OBVIOUS
  <2>. HIDE DEF total, large, was, old, V, m, n
  <2>. QED
    BY <1>3, <2>1, <2>2, CountedMade
<1>9. ASSUME m = 0 PROVE Witnessed
  <2>1. Taken(st) = 0 /\ L + Taken(st) = 16 * q
    BY <1>1, <1>2, <1>4, <1>9 DEF Taken
  <2>2. new = cnt
    <3>1. cnt.memsize = 0
      <4>. HIDE DEF cnt, total, large, V, m
      <4>. QED
        BY <1>8, <1>9, MadeFields
    <3>. HIDE DEF cnt
    <3>. QED
      BY <3>1 DEF Completed
  <2>3. new.mem32 = st.mem32
    <3>. HIDE DEF new, cnt, total, large, V, m
    <3>. QED
      BY <1>8, <2>2, MadeFields
  <2>4. new = Made(total, large, Rounds(Start(sd), g, 0, q, c), new.mem32, 0)
    <3>. HIDE DEF new, cnt, total, large, V, m, g, q
    <3>. QED
      BY <1>7, <1>8, <1>9, <2>2, <2>3, Zenon
  <2>5. Taken(st) \in 0..n /\ L + Taken(st) = 16 * q /\ q \in Nat
    <3>. HIDE DEF q, L, n
    <3>. QED
      BY <1>1, <1>2, <2>1
  <2>6. new.mem32 \in Seq(Cell) /\ Len(new.mem32) = 16
    BY <1>3, <2>3
  <2>. HIDE DEF new, total, large, g, q, L, n
  <2>. QED
    BY <2>4, <2>5, <2>6, Zenon DEF Witnessed
<1>10. ASSUME m /= 0 PROVE Witnessed
  <2>. DEFINE t == 16 - m
              part == Bytes(input, 0, t)
              mem == Copied(st.mem32, m, part)
              W == Rounds(V, mem, 0, 1, c)
  <2>1. Taken(st) = t
    <3>. HIDE DEF m
    <3>. QED
      BY <1>4, <1>10 DEF Taken
  <2>2. t \in 1..15 /\ t <= n /\ L + t = 16 * (q + 1)
    <3>1. m + n >= 16
      BY <1>4
    <3>. HIDE DEF L, n, q, m
    <3>. QED
      BY <1>1, <1>2, <1>10, <3>1
  <2>3. /\ part \in Seq(Cell)
        /\ Len(part) = t
        /\ \A k \in 1..t : part[k] = input[0 + k]
    <3>1. 0 \in Nat /\ t \in Nat /\ 0 + t <= Len(input)
      BY <1>1, <2>2
    <3>. HIDE DEF t
    <3>. QED
      BY <3>1, BytesCells, Zenon
  <2>4. /\ mem \in Seq(Cell)
        /\ Len(mem) = 16
        /\ \A k \in 1..16 :
             mem[k] = IF k > m /\ k <= m + Len(part) THEN part[k - m] ELSE st.mem32[k]
    <3>1. m \in Nat /\ part \in Seq(Cell)
      BY <1>2, <2>3
    <3>2. st.mem32 \in Seq(Cell) /\ Len(st.mem32) = 16
      BY <1>3
    <3>. DEFINE M == st.mem32
                P == part
                at == m
    <3>3. M \in Seq(Cell) /\ Len(M) = 16 /\ P \in Seq(Cell) /\ at \in Nat
      BY <3>1, <3>2
    <3>. HIDE DEF M, P, at
    <3>4. Copied(M, at, P) \in Seq(Cell) /\ Len(Copied(M, at, P)) = 16
      BY <3>3, CopiedCells
    <3>5. ASSUME NEW k \in 1..16
          PROVE  Copied(M, at, P)[k] =
                   IF k > at /\ k <= at + Len(P) THEN P[k - at] ELSE M[k]
      BY <3>3 DEF Copied
    <3>. QED
      BY <3>4, <3>5 DEF M, P, at
  <2>5. ASSUME NEW i \in 1..(16 * 1)
        PROVE  mem[i] = g[16 * q + i]
    <3>0. i \in 1..16
      OBVIOUS
    <3>. HIDE DEF L, m, q, mem, g, n, part
    <3>1. mem[i] = IF i > m /\ i <= m + t THEN part[i - m] ELSE st.mem32[i]
      <4>1. mem[i] = IF i > m /\ i <= m + Len(part) THEN part[i - m] ELSE st.mem32[i]
        BY <2>4, <3>0
      <4>. HIDE DEF t
      <4>. QED
        BY <2>3, <4>1
    <3>2. 16 * q + i \in 1..(L + n)
      BY <1>1, <1>2, <2>2
    <3>3. CASE i > m
      <4>1. i <= m + t /\ i - m \in 1..t /\ 0 + (i - m) = i - m
        BY <1>2, <3>3
      <4>2. mem[i] = input[i - m]
        BY <2>3, <3>1, <3>3, <4>1
      <4>3. ~(16 * q + i <= L) /\ (16 * q + i) - L = i - m
        BY <1>2, <3>3
      <4>. HIDE DEF t
      <4>. QED
        BY <1>5, <3>2, <4>2, <4>3
    <3>4. CASE i <= m
      <4>1. i \in 1..m /\ ~(i > m) /\ 16 * q + i <= L
        BY <1>2, <3>4
      <4>2. mem[i] = f[16 * q + i]
        BY <1>3, <3>1, <4>1
      <4>. HIDE DEF t
      <4>. QED
        BY <1>5, <3>2, <4>1, <4>2
    <3>. QED
      BY <1>2, <3>3, <3>4
  <2>6. W = Rounds(Start(sd), g, 0, q + 1, c)
    <3>1. W = Rounds(Rounds(Start(sd), g, 0, q, c), mem, 0, 1, c)
      <4>. HIDE DEF mem, V, q, g
      <4>. QED
        BY <1>7
    <3>. DEFINE b == 1
    <3>2. b \in Nat /\ q \in Nat
      BY <1>2
    <3>3. \A i \in 1..(16 * b) : mem[i] = g[16 * q + i]
      BY <2>5
    <3>. HIDE DEF W, mem, q, g, b
    <3>4. Rounds(Rounds(Start(sd), g, 0, q, c), mem, 0, b, c) =
            Rounds(Start(sd), g, 0, q + b, c)
      BY <3>2, <3>3, RoundsGoOn
    <3>. QED
      BY <3>1, <3>4 DEF b
  <2>7. new = Made(total, large, W, mem, 0)
    <3>1. mem = Copied(st.mem32, m, Bytes(input, 0, 16 - m)) /\ W = Rounds(V, mem, 0, 1, c)
      OBVIOUS
    <3>. HIDE DEF total, large, W, mem, V, m, cnt
    <3>. QED
      BY <1>8, <1>10, <3>1, CompletedMade
  <2>8. new.mem32 = mem
    <3>. HIDE DEF new, total, large, W, mem
    <3>. QED
      BY <2>7, MadeFields
  <2>9. new = Made(total, large, Rounds(Start(sd), g, 0, q + 1, c), new.mem32, 0)
    <3>. HIDE DEF new, total, large, W, mem, g, q
    <3>. QED
      BY <2>6, <2>7, <2>8, Zenon
  <2>10. Taken(st) \in 0..n /\ q + 1 \in Nat /\ L + Taken(st) = 16 * (q + 1)
    <3>. HIDE DEF t, L, n, q
    <3>. QED
      BY <1>1, <1>2, <2>1, <2>2
  <2>11. new.mem32 \in Seq(Cell) /\ Len(new.mem32) = 16
    BY <2>4, <2>8
  <2>. HIDE DEF new, total, large, g, q, L, n
  <2>. QED
    BY <2>9, <2>10, <2>11, Zenon DEF Witnessed
<1>11. Witnessed
  <2>. HIDE DEF Witnessed
  <2>. QED
    BY <1>9, <1>10
<1>. QED
  <2>. HIDE DEF total, large
  <2>. QED
    BY <1>5, <1>6, <1>11

\* An update keeps the fields and the bytes fed together, wherever it cuts.
LEMMA UpdateStands ==
  ASSUME NEW f \in Seq(Cell), NEW input \in Seq(Cell), NEW st, NEW sd, NEW c,
         Stands(st, sd, f, c)
  PROVE  Stands(XXH32_update_endian(st, input, c), sd, f \o input, c)
<1>. DEFINE n == Len(input)
            m == st.memsize
            g == f \o input
<1>1. n \in Nat /\ Len(f) \in Nat
  BY LenProperties
<1>2. m \in 0..15
  <2>1. m = Len(f) % 16
    <3>. DEFINE x == Len(f) % 16
    <3>1. x = Len(f) % 16
      OBVIOUS
    <3>. HIDE DEF x
    <3>2. \E T, B, V, M : st = Made(T, B, V, M, x)
      BY <3>1 DEF Stands
    <3>. QED
      BY <3>2, MadeFields DEF x
  <2>. HIDE DEF m
  <2>. QED
    BY <1>1, <2>1
<1>3. CASE m + n < 16
  <2>1. Stands(Buffered(Counted(st, n), input), sd, g, c)
    BY <1>3, BufferStands
  <2>. QED
    BY <1>3, <2>1 DEF XXH32_update_endian
<1>4. CASE m + n >= 16
  <2>. DEFINE t == Taken(st)
              new == Completed(Counted(st, n), input, c)
              rest == Bytes(input, t, n - t)
  <2>1. PICK p \in Nat :
          /\ t \in 0..n
          /\ Len(f) + t = 16 * p
          /\ new = Made(Len(g) % Wrap, Len(g) >= 16, Rounds(Start(sd), g, 0, p, c),
                        new.mem32, 0)
          /\ new.mem32 \in Seq(Cell)
          /\ Len(new.mem32) = 16
    BY <1>4, CompleteStands
  <2>0. t \in 0..n /\ Len(f) + t = 16 * p
    BY <2>1
  <2>2. /\ rest \in Seq(Cell)
        /\ Len(rest) = n - t
        /\ \A k \in 1..(n - t) : rest[k] = input[t + k]
    <3>1. t \in Nat /\ n - t \in Nat /\ t + (n - t) <= Len(input)
      BY <1>1, <2>1
    <3>. HIDE DEF t
    <3>. QED
      BY <3>1, BytesCells
  <2>3. /\ g \in Seq(Cell)
        /\ Len(g) = Len(f) + n
        /\ \A i \in 1..(Len(f) + n) : g[i] = IF i <= Len(f) THEN f[i] ELSE input[i - Len(f)]
    BY ConcatProperties
  <2>4. Len(g) = 16 * p + Len(rest)
    <3>1. Len(g) = Len(f) + n /\ Len(rest) = n - t
      BY <2>2, <2>3
    <3>. HIDE DEF t, n, g, rest
    <3>. QED
      BY <1>1, <2>0, <3>1
  <2>5. ASSUME NEW i \in 1..Len(rest)
        PROVE  rest[i] = g[16 * p + i]
    <3>. HIDE DEF t, n, g, rest
    <3>1. rest[i] = input[t + i]
      BY <2>2
    <3>2. /\ 16 * p + i \in 1..(Len(f) + n)
          /\ ~(16 * p + i <= Len(f))
          /\ (16 * p + i) - Len(f) = t + i
      <4>1. Len(rest) = n - t
        BY <2>2
      <4>. QED
        BY <1>1, <2>0, <4>1
    <3>. QED
      BY <2>3, <3>1, <3>2
  <2>6. Stands(Absorbed(new, rest, c), sd, g, c)
    <3>. DEFINE M == new.mem32
    <3>1. new = Made(Len(g) % Wrap, Len(g) >= 16, Rounds(Start(sd), g, 0, p, c), M, 0)
      BY <2>1
    <3>2. M \in Seq(Cell) /\ Len(M) = 16
      BY <2>1
    <3>3. \A i \in 1..Len(rest) : rest[i] = g[16 * p + i]
      BY <2>5
    <3>. HIDE DEF new, rest, g, M
    <3>. QED
      BY <2>2, <2>3, <2>4, <3>1, <3>2, <3>3, AbsorbStands
  <2>7. ~(m + n < 16)
    <3>. HIDE DEF m, n
    <3>. QED
      BY <1>1, <1>2, <1>4
  <2>. QED
    BY <2>6, <2>7 DEF XXH32_update_endian
<1>5. m + n < 16 \/ m + n >= 16
  <2>. HIDE DEF m, n
  <2>. QED
    BY <1>1, <1>2
<1>. QED
  <2>. HIDE DEF m, n
  <2>. QED
    BY <1>3, <1>4, <1>5

\* The digest of a state is the hash of the bytes it stands for.
LEMMA DigestStands ==
  ASSUME NEW f \in Seq(Cell), NEW st, NEW sd, NEW c, Stands(st, sd, f, c)
  PROVE  XXH32_digest_endian(st, c) = XXH32(f, sd, c)
<1>. DEFINE L == Len(f)
            q == L \div 16
            m == L % 16
            V == Rounds(Start(sd), f, 0, q, c)
            rest == Bytes(f, 16 * q, m)
<1>1. L \in Nat /\ q \in Nat /\ m \in 0..15
  <2>1. L \in Nat
    BY LenProperties
  <2>. HIDE DEF L
  <2>. QED
    BY <2>1
<1>2. /\ st.total_len_32 = L % Wrap
      /\ st.large_len = (L >= 16)
      /\ st.v = V
      /\ st.memsize = m
  <2>. DEFINE T == L % Wrap
              B == L >= 16
              M == st.mem32
  <2>1. st = Made(T, B, V, M, m)
    BY DEF Stands
  <2>. HIDE DEF T, B, V, M, m
  <2>2. st.total_len_32 = T /\ st.large_len = B /\ st.v = V /\ st.memsize = m
    BY <2>1, MadeFields
  <2>. QED
    BY <2>2 DEF T, B
<1>3. Bytes(st.mem32, 0, m) = rest
  <2>1. \A k \in 1..m : st.mem32[k] = f[16 * q + k]
    BY DEF Stands
  <2>2. \A k \in 1..m : st.mem32[0 + k] = st.mem32[k]
    BY <1>1
  <2>. HIDE DEF m, q
  <2>. QED
    BY <2>1, <2>2 DEF Bytes
<1>4. CASE ~(L >= 16)
  <2>1. q = 0
    BY <1>1, <1>4
  <2>2. V = Start(sd)
    <3>. HIDE DEF q
    <3>. QED
      BY <2>1, RoundsNone
  <2>3. XXH32(f, sd, c) = Finish(<<Start(sd)[3]>>, L % Wrap, rest, c)
    BY <1>4 DEF XXH32, XXH32_endian_align
  <2>4. XXH32_digest_endian(st, c) =
          Finish(<<st.v[3]>>, st.total_len_32, Bytes(st.mem32, 0, st.memsize), c)
    BY <1>2, <1>4 DEF XXH32_digest_endian
  <2>. HIDE DEF V, m, rest, L, q
  <2>. QED
    BY <1>2, <1>3, <2>2, <2>3, <2>4
<1>5. CASE L >= 16
  <2>1. XXH32(f, sd, c) = Finish(V, L % Wrap, rest, c)
    BY <1>5 DEF XXH32, XXH32_endian_align
  <2>2. XXH32_digest_endian(st, c) =
          Finish(st.v, st.total_len_32, Bytes(st.mem32, 0, st.memsize), c)
    BY <1>2, <1>5 DEF XXH32_digest_endian
  <2>. HIDE DEF V, m, rest, L, q
  <2>. QED
    BY <1>2, <1>3, <2>1, <2>2
<1>. QED
  BY <1>4, <1>5

-----------------------------------------------------------------------------
(* XXH32: the inductive invariant. *)

\* Every live state stands for the bytes fed to it.
IInv ==
  /\ cpu \in Cpus
  /\ phase \in [States -> {"none", "raw", "live"}]
  /\ seed \in [States -> Seeds]
  /\ fed \in [States -> Seq(Cell)]
  /\ state = [s \in States |-> state[s]]
  /\ \A s \in States : Len(fed[s]) <= MaxFed
  /\ \A s \in Live : Stands(state[s], seed[s], fed[s], cpu)

LEMMA InitHolds == Init => IInv
<1>. SUFFICES ASSUME Init PROVE IInv
  OBVIOUS
<1>1. cpu \in Cpus /\ phase \in [States -> {"none", "raw", "live"}] /\ Live = {}
  BY DEF Init, Live
<1>2. seed \in [States -> Seeds] /\ state = [s \in States |-> state[s]]
  BY DEF Init
<1>3. fed \in [States -> Seq(Cell)] /\ \A s \in States : Len(fed[s]) <= MaxFed
  BY EmptyFed DEF Init
<1>. QED
  BY <1>1, <1>2, <1>3 DEF IInv

\* What a step changes is one state and what is known of it.
LEMMA OneChanges ==
  ASSUME IInv, NEW s \in States, NEW ph \in {"none", "raw", "live"}, NEW st,
         NEW sd \in Seeds, NEW f \in Seq(Cell), Len(f) <= MaxFed,
         cpu' = cpu,
         phase' = [phase EXCEPT ![s] = ph],
         state' = [state EXCEPT ![s] = st],
         seed' = [seed EXCEPT ![s] = sd],
         fed' = [fed EXCEPT ![s] = f],
         ph = "live" => Stands(st, sd, f, cpu)
  PROVE  IInv'
<1>1. cpu' \in Cpus /\ phase' \in [States -> {"none", "raw", "live"}]
  BY DEF IInv
<1>2. seed' \in [States -> Seeds]
  BY DEF IInv
<1>3. fed' \in [States -> Seq(Cell)]
  BY DEF IInv
<1>4. state' = [u \in States |-> state'[u]]
  <2>1. state = [u \in States |-> state[u]]
    BY DEF IInv
  <2>. QED
    BY <2>1
<1>5. ASSUME NEW u \in States
      PROVE  Len(fed'[u]) <= MaxFed
  BY DEF IInv
<1>6. ASSUME NEW u \in States, phase'[u] = "live"
      PROVE  Stands(state'[u], seed'[u], fed'[u], cpu')
  <2>1. CASE u = s
    <3>1. phase'[s] = ph /\ seed'[s] = sd /\ fed'[s] = f
      BY DEF IInv
    <3>2. state'[s] = st
      <4>1. state = [w \in States |-> state[w]]
        BY DEF IInv
      <4>. QED
        BY <4>1
    <3>. QED
      BY <1>6, <2>1, <3>1, <3>2
  <2>2. CASE u /= s
    <3>1. phase'[u] = phase[u] /\ seed'[u] = seed[u] /\ fed'[u] = fed[u]
      BY <2>2 DEF IInv
    <3>2. state'[u] = state[u]
      <4>1. state = [w \in States |-> state[w]]
        BY DEF IInv
      <4>. QED
        BY <2>2, <4>1
    <3>3. Stands(state[u], seed[u], fed[u], cpu)
      BY <1>6, <3>1 DEF IInv, Live
    <3>. QED
      BY <3>1, <3>2, <3>3
  <2>. QED
    BY <2>1, <2>2
<1>. QED
  BY <1>1, <1>2, <1>3, <1>4, <1>5, <1>6 DEF IInv, Live

LEMMA NextHolds == IInv /\ [Next]_vars => IInv'
<1>. SUFFICES ASSUME IInv, [Next]_vars PROVE IInv'
  OBVIOUS
<1>. cpu \in Cpus /\ seed \in [States -> Seeds] /\ fed \in [States -> Seq(Cell)]
  BY DEF IInv
<1>. phase \in [States -> {"none", "raw", "live"}] /\ \A s \in States : Len(fed[s]) <= MaxFed
  BY DEF IInv
<1>. state = [s \in States |-> state[s]]
  BY DEF IInv
<1>1. ASSUME NEW s \in States, XXH32_createState(s)
      PROVE  IInv'
  <2>1. /\ cpu' = cpu
        /\ phase' = [phase EXCEPT ![s] = "raw"]
        /\ state' = [state EXCEPT ![s] = state[s]]
        /\ seed' = [seed EXCEPT ![s] = seed[s]]
        /\ fed' = [fed EXCEPT ![s] = fed[s]]
    BY <1>1 DEF XXH32_createState
  <2>2. "raw" /= "live"
    OBVIOUS
  <2>. QED
    BY <2>1, <2>2, OneChanges
<1>2. ASSUME NEW s \in States, XXH32_freeState(s)
      PROVE  IInv'
  <2>1. /\ cpu' = cpu
        /\ phase' = [phase EXCEPT ![s] = "none"]
        /\ state' = [state EXCEPT ![s] = Unset]
        /\ seed' = [seed EXCEPT ![s] = seed[s]]
        /\ fed' = [fed EXCEPT ![s] = << >>]
    BY <1>2 DEF XXH32_freeState
  <2>2. "none" /= "live"
    OBVIOUS
  <2>. QED
    BY <2>1, <2>2, EmptyFed, OneChanges
<1>3. ASSUME NEW s \in States, NEW sd \in Seeds, XXH32_reset(s, sd)
      PROVE  IInv'
  <2>1. /\ cpu' = cpu
        /\ phase' = [phase EXCEPT ![s] = "live"]
        /\ state' = [state EXCEPT ![s] = ResetState(sd)]
        /\ seed' = [seed EXCEPT ![s] = sd]
        /\ fed' = [fed EXCEPT ![s] = << >>]
    BY <1>3 DEF XXH32_reset
  <2>2. Stands(ResetState(sd), sd, << >>, cpu)
    BY ResetStands
  <2>. QED
    BY <2>1, <2>2, EmptyFed, OneChanges
<1>4. ASSUME NEW s \in States, NEW n \in Lengths, XXH32_update(s, Segment(s, n))
      PROVE  IInv'
  <2>. DEFINE input == Segment(s, n)
              st == XXH32_update_endian(state[s], input, cpu)
              f == fed[s] \o input
  <2>1. n \in Nat /\ Len(fed[s]) \in Nat
    BY LengthsAssumption, LenProperties
  <2>2. input \in Seq(Cell)
    <3>. DEFINE L == Len(fed[s])
    <3>1. ASSUME NEW k \in 1..n
          PROVE  <<s, L + k>> \in Cell
      <4>1. L + k \in Nat
        BY <2>1
      <4>. QED
        BY <4>1 DEF Cell
    <3>2. input = [k \in 1..n |-> <<s, L + k>>]
      BY DEF Segment
    <3>3. input \in [1..n -> Cell]
      <4>. HIDE DEF L, input
      <4>. QED
        BY <3>1, <3>2, Zenon
    <3>. HIDE DEF input
    <3>. QED
      BY <2>1, <3>3, SeqDef
  <2>3. f \in Seq(Cell) /\ Len(f) = Len(fed[s]) + Len(input)
    <3>. HIDE DEF input
    <3>. QED
      BY <2>2, ConcatProperties
  <2>4. /\ phase[s] = "live"
        /\ Len(fed[s]) + Len(input) <= MaxFed
        /\ cpu' = cpu
        /\ phase' = phase
        /\ state' = [state EXCEPT ![s] = st]
        /\ seed' = seed
        /\ fed' = [fed EXCEPT ![s] = f]
    <3>. HIDE DEF input
    <3>. QED
      BY <1>4 DEF XXH32_update, input
  <2>5. Stands(st, seed[s], f, cpu)
    <3>1. Stands(state[s], seed[s], fed[s], cpu)
      BY <2>4 DEF IInv, Live
    <3>. HIDE DEF input
    <3>. QED
      BY <2>2, <3>1, UpdateStands
  <2>6. /\ phase' = [phase EXCEPT ![s] = "live"]
        /\ seed' = [seed EXCEPT ![s] = seed[s]]
        /\ Len(f) <= MaxFed
    <3>. HIDE DEF input, f, st
    <3>. QED
      BY <2>3, <2>4
  <2>. HIDE DEF f, st
  <2>. QED
    BY <2>3, <2>4, <2>5, <2>6, OneChanges
<1>5. ASSUME NEW dst \in States, NEW src \in States, XXH32_copyState(dst, src)
      PROVE  IInv'
  <2>1. /\ cpu' = cpu
        /\ phase' = [phase EXCEPT ![dst] = "live"]
        /\ state' = [state EXCEPT ![dst] = state[src]]
        /\ seed' = [seed EXCEPT ![dst] = seed[src]]
        /\ fed' = [fed EXCEPT ![dst] = fed[src]]
    BY <1>5 DEF XXH32_copyState
  <2>2. Stands(state[src], seed[src], fed[src], cpu)
    BY <1>5 DEF XXH32_copyState, IInv, Live
  <2>. QED
    BY <2>1, <2>2, OneChanges
<1>6. CASE UNCHANGED vars
  <2>1. cpu' = cpu /\ phase' = phase /\ state' = state /\ seed' = seed /\ fed' = fed
    BY <1>6 DEF vars
  <2>. QED
    BY <2>1 DEF IInv, Live
<1>. QED
  BY <1>1, <1>2, <1>3, <1>4, <1>5, <1>6 DEF Next

LEMMA IInvHolds == Spec => []IInv
BY InitHolds, NextHolds, PTL DEF Spec

-----------------------------------------------------------------------------
(* XXH32: the theorems. *)

\* What the fields of a state that stands for f are.
LEMMA StandsFields ==
  ASSUME NEW f \in Seq(Cell), NEW st, NEW sd, NEW c, Stands(st, sd, f, c)
  PROVE  /\ st.total_len_32 = Len(f) % Wrap
         /\ st.large_len = (Len(f) >= 16)
         /\ st.memsize = Len(f) % 16
         /\ DOMAIN st.mem32 = 1..16
<1>. DEFINE T == Len(f) % Wrap
            B == Len(f) >= 16
            V == Rounds(Start(sd), f, 0, Len(f) \div 16, c)
            M == st.mem32
            m == Len(f) % 16
<1>1. st = Made(T, B, V, M, m)
  BY DEF Stands
<1>2. DOMAIN st.mem32 = 1..16
  <2>1. M \in Seq(Cell) /\ Len(M) = 16
    BY DEF Stands
  <2>2. DOMAIN M = 1..Len(M)
    <3>. HIDE DEF M
    <3>. QED
      BY <2>1, LenProperties
  <2>. QED
    BY <2>1, <2>2
<1>3. st.total_len_32 = T /\ st.large_len = B /\ st.memsize = m
  <2>. HIDE DEF T, B, V, M, m
  <2>. QED
    BY <1>1, MadeFields
<1>. QED
  BY <1>2, <1>3

\* The fields of a live state keep their ranges, the buffer its sixteen bytes and
\* room for one more, whatever segments XXH32_update is given (xxhash.c).
THEOREM XXH32TypeTheorem == Spec => []TypeOK
<1>1. IInv => TypeOK
  <2>. SUFFICES ASSUME IInv PROVE TypeOK
    OBVIOUS
  <2>1. ASSUME NEW s \in States
        PROVE  Len(fed[s]) \in 0..MaxFed
    <3>1. fed[s] \in Seq(Cell) /\ Len(fed[s]) <= MaxFed
      BY DEF IInv
    <3>2. Len(fed[s]) \in Nat
      BY <3>1, LenProperties
    <3>. QED
      BY <3>1, <3>2, LengthsAssumption
  <2>2. ASSUME NEW s \in Live
        PROVE  /\ state[s].total_len_32 \in 0..(Wrap - 1)
               /\ state[s].large_len \in BOOLEAN
               /\ state[s].memsize \in 0..15
               /\ DOMAIN state[s].mem32 = 1..16
    <3>. DEFINE L == Len(fed[s])
    <3>1. fed[s] \in Seq(Cell) /\ Stands(state[s], seed[s], fed[s], cpu)
      BY DEF IInv, Live
    <3>2. L \in Nat
      BY <3>1, LenProperties
    <3>3. /\ state[s].total_len_32 = L % Wrap
          /\ state[s].large_len = (L >= 16)
          /\ state[s].memsize = L % 16
          /\ DOMAIN state[s].mem32 = 1..16
      BY <3>1, StandsFields
    <3>. HIDE DEF L
    <3>4. L % Wrap \in 0..(Wrap - 1)
      BY <3>2, WrapAssumption
    <3>5. L % 16 \in 0..15
      BY <3>2
    <3>. QED
      BY <3>3, <3>4, <3>5
  <2>. QED
    BY <2>1, <2>2 DEF TypeOK, IInv
<1>. QED
  BY <1>1, IInvHolds, PTL

\* The three fields that XXH32_digest trusts account for every byte fed, however
\* the segments cut the input and however often total_len_32 went round.
THEOREM AccountedTheorem == Spec => []Accounted
<1>1. IInv => Accounted
  <2>. SUFFICES ASSUME IInv, NEW s \in Live
                PROVE  /\ state[s].memsize = Len(fed[s]) % 16
                       /\ state[s].large_len = (Len(fed[s]) >= 16)
                       /\ state[s].total_len_32 = Len(fed[s]) % Wrap
    BY DEF Accounted
  <2>1. fed[s] \in Seq(Cell) /\ Stands(state[s], seed[s], fed[s], cpu)
    BY DEF IInv, Live
  <2>. QED
    BY <2>1, StandsFields
<1>. QED
  BY <1>1, IInvHolds, PTL

\* XXH32_digest gives at any time what XXH32 gives of all the bytes fed since the
\* reset (xxhash.h:191), for any segments, any number of states and copies of them.
THEOREM DigestTheorem == Spec => []DigestIsOneShot
<1>1. IInv => DigestIsOneShot
  <2>. SUFFICES ASSUME IInv, NEW s \in Live
                PROVE  XXH32_digest_endian(state[s], cpu) = XXH32(fed[s], seed[s], cpu)
    BY DEF DigestIsOneShot
  <2>1. fed[s] \in Seq(Cell) /\ Stands(state[s], seed[s], fed[s], cpu)
    BY DEF IInv, Live
  <2>. QED
    BY <2>1, DigestStands
<1>. QED
  BY <1>1, IInvHolds, PTL

-----------------------------------------------------------------------------
(* XXH32: the two kinds of CPU. *)

LEMMA SameHash ==
  ASSUME NEW f, NEW sd, NEW here \in Cpus, NEW there \in Cpus
  PROVE  XXH32(f, sd, here) = XXH32(f, sd, there)
<1>1. ASSUME NEW v, NEW n
      PROVE  Rounds(v, f, 0, n, here) = Rounds(v, f, 0, n, there)
  BY SameWords DEF Rounds
<1>2. ASSUME NEW head, NEW len, NEW rest
      PROVE  Finish(head, len, rest, here) = Finish(head, len, rest, there)
  BY SameWords DEF Finish
<1>. QED
  BY <1>1, <1>2 DEF XXH32, XXH32_endian_align

\* A digest in its canonical form is, on a machine of either kind, the hash this
\* machine computes of the same bytes itself (xxhash.c:71, xxhash.h:210).
THEOREM ComparableTheorem == Spec => []Comparable
<1>1. IInv => Comparable
  <2>. SUFFICES ASSUME IInv, NEW s \in Live, NEW there \in Cpus
                PROVE  HashFromCanonical(
                         CanonicalFromHash(Digits(XXH32_digest_endian(state[s], cpu), 4), cpu),
                         there) = Digits(XXH32(fed[s], seed[s], there), 4)
    BY DEF Comparable
  <2>1. fed[s] \in Seq(Cell) /\ Stands(state[s], seed[s], fed[s], cpu) /\ cpu \in Cpus
    BY DEF IInv, Live
  <2>2. XXH32_digest_endian(state[s], cpu) = XXH32(fed[s], seed[s], cpu)
    BY <2>1, DigestStands
  <2>3. XXH32(fed[s], seed[s], cpu) = XXH32(fed[s], seed[s], there)
    BY <2>1, SameHash
  <2>. QED
    BY <2>1, <2>2, <2>3, CanonicalBack
<1>. QED
  BY <1>1, IInvHolds, PTL

-----------------------------------------------------------------------------
(* XXH64: the accumulators. *)

\* The word of memory after its first at bytes, and the words of a lane.
Word64(memory, at, c) == ReadLE(Bytes(memory, at, 8), c)
Column64(memory, lane, from, n, c) ==
  [j \in 1..n |-> Word64(memory, from + 32 * (j - 1) + 8 * (lane - 1), c)]

LEMMA RoundsColumns64 ==
  ASSUME NEW v, NEW memory, NEW from, NEW n, NEW c
  PROVE  Rounds64(v, memory, from, n, c) =
           [lane \in 1..4 |-> v[lane] \o Column64(memory, lane, from, n, c)]
BY DEF Rounds64, Column64, Word64

\* A word depends on nothing but its eight bytes.
LEMMA WordSame64 ==
  ASSUME NEW m1, NEW m2, NEW p \in Int, NEW q \in Int, NEW c,
         \A k \in 1..8 : m1[p + k] = m2[q + k]
  PROVE  Word64(m1, p, c) = Word64(m2, q, c)
<1>1. Bytes(m1, p, 8) = Bytes(m2, q, 8)
  BY DEF Bytes
<1>. QED
  BY <1>1 DEF Word64

\* Stripes and what is left of one.
LEMMA Stripes64 ==
  ASSUME NEW q \in Nat, NEW r \in 0..31
  PROVE  (32 * q + r) \div 32 = q /\ (32 * q + r) % 32 = r
<1>. DEFINE w == 32
<1>1. w \in Nat /\ w > 0 /\ r \in Nat /\ r < w
  OBVIOUS
<1>2. (w * q + r) \div w = q /\ (w * q + r) % w = r
  <2>. HIDE DEF w
  <2>. QED
    BY <1>1, ModUnique
<1>. QED
  BY <1>2

\* The stripes of part go on where those of whole stop.
LEMMA RoundsGoOn64 ==
  ASSUME NEW whole, NEW part, NEW sd, NEW c, NEW a \in Nat, NEW b \in Nat,
         \A i \in 1..(32 * b) : part[i] = whole[32 * a + i]
  PROVE  Rounds64(Rounds64(Start64(sd), whole, 0, a, c), part, 0, b, c) =
           Rounds64(Start64(sd), whole, 0, a + b, c)
<1>. DEFINE S == {<<sd, lane>> : lane \in 1..4} \union
                 {Word64(whole, p, c) : p \in Int} \union {Word64(part, p, c) : p \in Int}
            Lane(lane) == <<<<sd, lane>>>> \o Column64(whole, lane, 0, a, c)
<1>1. ASSUME NEW lane \in 1..4
      PROVE  Lane(lane) \o Column64(part, lane, 0, b, c) =
               <<<<sd, lane>>>> \o Column64(whole, lane, 0, a + b, c)
  <2>. DEFINE H == <<<<sd, lane>>>>
              A == Column64(whole, lane, 0, a, c)
              B == Column64(part, lane, 0, b, c)
              C == Column64(whole, lane, 0, a + b, c)
  <2>1. H \in Seq(S)
    OBVIOUS
  <2>2. A \in Seq(S) /\ Len(A) = a
    BY DEF Column64
  <2>3. B \in Seq(S) /\ Len(B) = b
    BY DEF Column64
  <2>4. C \in Seq(S) /\ Len(C) = a + b
    BY DEF Column64
  <2>5. ASSUME NEW j \in 1..b
        PROVE  B[j] = C[a + j]
    <3>. DEFINE p == 0 + 32 * (j - 1) + 8 * (lane - 1)
                q == 0 + 32 * (a + j - 1) + 8 * (lane - 1)
    <3>1. B[j] = Word64(part, p, c) /\ C[a + j] = Word64(whole, q, c)
      BY DEF Column64
    <3>2. p \in Int /\ q \in Int /\ q = 32 * a + p
      OBVIOUS
    <3>3. ASSUME NEW k \in 1..8
          PROVE  part[p + k] = whole[q + k]
      <4>1. p + k \in 1..(32 * b) /\ 32 * a + (p + k) = q + k
        OBVIOUS
      <4>. QED
        BY <4>1
    <3>. HIDE DEF p, q
    <3>. QED
      BY <3>1, <3>2, <3>3, WordSame64
  <2>6. ASSUME NEW j \in 1..a
        PROVE  A[j] = C[j]
    BY DEF Column64
  <2>. HIDE DEF H, A, B, C, S
  <2>7. /\ Len(C) = Len(A) + Len(B)
        /\ \A j \in 1..Len(A) : A[j] = C[j]
        /\ \A j \in 1..Len(B) : B[j] = C[Len(A) + j]
    BY <2>2, <2>3, <2>4, <2>5, <2>6
  <2>8. (H \o A) \o B = H \o C
    BY <2>1, <2>2, <2>3, <2>4, <2>7, AppendedInParts, ZenonT(60)
  <2>. QED
    BY <2>8 DEF H, A, B, C
<1>2. Rounds64(Start64(sd), whole, 0, a, c) = [lane \in 1..4 |-> Lane(lane)]
  BY RoundsColumns64 DEF Start64
<1>3. Rounds64(Start64(sd), whole, 0, a + b, c) =
        [lane \in 1..4 |-> <<<<sd, lane>>>> \o Column64(whole, lane, 0, a + b, c)]
  BY RoundsColumns64 DEF Start64
<1>4. Rounds64(Rounds64(Start64(sd), whole, 0, a, c), part, 0, b, c) =
        [lane \in 1..4 |-> Lane(lane) \o Column64(part, lane, 0, b, c)]
  <2>. HIDE DEF Lane
  <2>. QED
    BY <1>2, RoundsColumns64
<1>. QED
  <2>. HIDE DEF Lane
  <2>. QED
    BY <1>1, <1>3, <1>4

\* More input after the stripes changes nothing of them.
LEMMA RoundsSame64 ==
  ASSUME NEW whole, NEW more, NEW sd, NEW c, NEW a \in Nat,
         \A i \in 1..(32 * a) : more[i] = whole[i]
  PROVE  Rounds64(Start64(sd), more, 0, a, c) = Rounds64(Start64(sd), whole, 0, a, c)
<1>1. ASSUME NEW lane \in 1..4
      PROVE  Column64(more, lane, 0, a, c) = Column64(whole, lane, 0, a, c)
  <2>1. ASSUME NEW j \in 1..a
        PROVE  Word64(more, 0 + 32 * (j - 1) + 8 * (lane - 1), c) =
                 Word64(whole, 0 + 32 * (j - 1) + 8 * (lane - 1), c)
    <3>. DEFINE p == 0 + 32 * (j - 1) + 8 * (lane - 1)
    <3>1. p \in Int /\ \A k \in 1..8 : p + k \in 1..(32 * a)
      OBVIOUS
    <3>. HIDE DEF p
    <3>2. Word64(more, p, c) = Word64(whole, p, c)
      BY <3>1, WordSame64
    <3>. QED
      BY <3>2 DEF p
  <2>. QED
    BY <2>1 DEF Column64
<1>. QED
  BY <1>1, RoundsColumns64

\* No stripe, no change.
LEMMA RoundsNone64 ==
  ASSUME NEW memory, NEW sd, NEW c
  PROVE  Rounds64(Start64(sd), memory, 0, 0, c) = Start64(sd)
<1>1. ASSUME NEW lane \in 1..4
      PROVE  <<<<sd, lane>>>> \o Column64(memory, lane, 0, 0, c) = <<<<sd, lane>>>>
  <2>1. Column64(memory, lane, 0, 0, c) = << >>
    BY DEF Column64
  <2>2. <<<<sd, lane>>>> \in Seq({<<sd, lane>>})
    OBVIOUS
  <2>. QED
    BY <2>1, <2>2, ConcatEmptySeq
<1>. QED
  BY <1>1, RoundsColumns64 DEF Start64

-----------------------------------------------------------------------------
(* XXH64: one state, and the segments fed to it. *)

\* A state by its fields.
Made64(total, v, mem, size) ==
  [total_len |-> total, v |-> v, mem64 |-> mem, memsize |-> size]

\* The fields of st after the bytes f, since a reset with sd.
Stands64(st, sd, f, c) ==
  /\ st = Made64(Len(f), Rounds64(Start64(sd), f, 0, Len(f) \div 32, c),
               st.mem64, Len(f) % 32)
  /\ st.mem64 \in Seq(Cell)
  /\ Len(st.mem64) = 32
  /\ \A k \in 1..(Len(f) % 32) : st.mem64[k] = f[32 * (Len(f) \div 32) + k]

\* A reset state stands for no bytes at all.
LEMMA ResetStands64 ==
  ASSUME NEW sd, NEW c
  PROVE  Stands64(ResetState64(sd), sd, << >>, c)
<1>1. Zero \in Cell
  BY DEF Zero, Cell
<1>2. [k \in 1..32 |-> Zero] \in Seq(Cell) /\ Len([k \in 1..32 |-> Zero]) = 32
  BY <1>1
<1>3. Len(<< >>) = 0 /\ 0 \div 32 = 0 /\ 0 % 32 = 0
  OBVIOUS
<1>. DEFINE st == ResetState64(sd)
<1>5. st.mem64 = [k \in 1..32 |-> Zero]
  BY DEF ResetState64
<1>6. st = Made64(0, Start64(sd), st.mem64, 0)
  BY DEF ResetState64, Made64
<1>. HIDE DEF st
<1>7. st = Made64(Len(<< >>), Rounds64(Start64(sd), << >>, 0, Len(<< >>) \div 32, c),
                  st.mem64, Len(<< >>) % 32)
  BY <1>3, <1>6, RoundsNone64, Zenon
<1>8. \A k \in 1..(Len(<< >>) % 32) : FALSE
  BY <1>3
<1>9. Stands64(st, sd, << >>, c)
  BY <1>2, <1>5, <1>7, <1>8 DEF Stands64
<1>. QED
  BY <1>9 DEF st

LEMMA MadeFields64 ==
  ASSUME NEW T, NEW V, NEW M, NEW S
  PROVE  /\ Made64(T, V, M, S).total_len = T
         /\ Made64(T, V, M, S).v = V
         /\ Made64(T, V, M, S).mem64 = M
         /\ Made64(T, V, M, S).memsize = S
BY DEF Made64

\* The fields of a state are set one by one.
LEMMA MadeV64 ==
  ASSUME NEW T, NEW V, NEW M, NEW S, NEW X
  PROVE  [Made64(T, V, M, S) EXCEPT !.v = X] = Made64(T, X, M, S)
BY DEF Made64

LEMMA MadeMem64 ==
  ASSUME NEW T, NEW V, NEW M, NEW S, NEW X
  PROVE  [Made64(T, V, M, S) EXCEPT !.mem64 = X] = Made64(T, V, X, S)
BY DEF Made64

LEMMA MadeSize64 ==
  ASSUME NEW T, NEW V, NEW M, NEW S, NEW X
  PROVE  [Made64(T, V, M, S) EXCEPT !.memsize = X] = Made64(T, V, M, X)
BY DEF Made64

\* What the steps of an update make of the fields.
Counted64(st, n) == [st EXCEPT !.total_len = @ + n]

LEMMA CountedMade64 ==
  ASSUME NEW T, NEW V, NEW M, NEW S, NEW st, st = Made64(T, V, M, S), NEW n, NEW X, X = T + n
  PROVE  Counted64(st, n) = Made64(X, V, M, S)
BY DEF Counted64, Made64

LEMMA BufferedMade64 ==
  ASSUME NEW T, NEW V, NEW M, NEW S, NEW st,
         st = Made64(T, V, M, S), NEW input,
         NEW X, X = Copied(M, S, input), NEW Y, Y = S + Len(input)
  PROVE  Buffered64(st, input) = Made64(T, V, X, Y)
<1>1. [st EXCEPT !.mem64 = X] = Made64(T, V, X, S)
  BY MadeMem64
<1>2. [Made64(T, V, X, S) EXCEPT !.memsize = Y] = Made64(T, V, X, Y)
  BY MadeSize64
<1>3. [st EXCEPT !.mem64 = X, !.memsize = Y] =
        [[st EXCEPT !.mem64 = X] EXCEPT !.memsize = Y]
  OBVIOUS
<1>4. st.mem64 = M /\ st.memsize = S
  BY MadeFields64
<1>5. Buffered64(st, input) = [st EXCEPT !.mem64 = X, !.memsize = Y]
  BY <1>4 DEF Buffered64
<1>. QED
  BY <1>1, <1>2, <1>3, <1>5

LEMMA CompletedMade64 ==
  ASSUME NEW T, NEW V, NEW M, NEW S, NEW st,
         st = Made64(T, V, M, S), NEW input, NEW c, S /= 0,
         NEW X, X = Copied(M, S, Bytes(input, 0, 32 - S)),
         NEW Y, Y = Rounds64(V, X, 0, 1, c), NEW Z, Z = 0
  PROVE  Completed64(st, input, c) = Made64(T, Y, X, Z)
<1>1. [st EXCEPT !.mem64 = X] = Made64(T, V, X, S)
  BY MadeMem64
<1>2. [Made64(T, V, X, S) EXCEPT !.v = Y] = Made64(T, Y, X, S)
  BY MadeV64
<1>3. [Made64(T, Y, X, S) EXCEPT !.memsize = Z] = Made64(T, Y, X, Z)
  BY MadeSize64
<1>4. [st EXCEPT !.mem64 = X, !.v = Y, !.memsize = Z] = Made64(T, Y, X, Z)
  <2>1. [st EXCEPT !.mem64 = X, !.v = Y, !.memsize = Z] =
          [[[st EXCEPT !.mem64 = X] EXCEPT !.v = Y] EXCEPT !.memsize = Z]
    OBVIOUS
  <2>2. [[[st EXCEPT !.mem64 = X] EXCEPT !.v = Y] EXCEPT !.memsize = Z] =
          [[Made64(T, V, X, S) EXCEPT !.v = Y] EXCEPT !.memsize = Z]
    BY <1>1
  <2>3. [[Made64(T, V, X, S) EXCEPT !.v = Y] EXCEPT !.memsize = Z] =
          [Made64(T, Y, X, S) EXCEPT !.memsize = Z]
    BY <1>2
  <2>. QED
    BY <1>3, <2>1, <2>2, <2>3
<1>5. st.mem64 = M /\ st.v = V /\ st.memsize = S
  BY MadeFields64
<1>6. Completed64(st, input, c) = [st EXCEPT !.mem64 = X, !.v = Y, !.memsize = Z]
  BY <1>5 DEF Completed64, Taken64
<1>. QED
  BY <1>4, <1>6

LEMMA AbsorbedMade64 ==
  ASSUME NEW T, NEW V, NEW M, NEW S, NEW st,
         st = Made64(T, V, M, S), NEW rest, NEW c,
         NEW X, X = Rounds64(V, rest, 0, Len(rest) \div 32, c), NEW Z, Z = Len(rest) % 32,
         NEW Y, Y = Copied(M, 0, Bytes(rest, 32 * (Len(rest) \div 32), Z))
  PROVE  Absorbed64(st, rest, c) = Made64(T, X, Y, Z)
<1>1. [st EXCEPT !.v = X] = Made64(T, X, M, S)
  BY MadeV64
<1>2. [Made64(T, X, M, S) EXCEPT !.mem64 = Y] = Made64(T, X, Y, S)
  BY MadeMem64
<1>3. [Made64(T, X, Y, S) EXCEPT !.memsize = Z] = Made64(T, X, Y, Z)
  BY MadeSize64
<1>4. [st EXCEPT !.v = X, !.mem64 = Y, !.memsize = Z] = Made64(T, X, Y, Z)
  <2>1. [st EXCEPT !.v = X, !.mem64 = Y, !.memsize = Z] =
          [[[st EXCEPT !.v = X] EXCEPT !.mem64 = Y] EXCEPT !.memsize = Z]
    OBVIOUS
  <2>2. [[[st EXCEPT !.v = X] EXCEPT !.mem64 = Y] EXCEPT !.memsize = Z] =
          [[Made64(T, X, M, S) EXCEPT !.mem64 = Y] EXCEPT !.memsize = Z]
    BY <1>1
  <2>3. [[Made64(T, X, M, S) EXCEPT !.mem64 = Y] EXCEPT !.memsize = Z] =
          [Made64(T, X, Y, S) EXCEPT !.memsize = Z]
    BY <1>2
  <2>. QED
    BY <1>3, <2>1, <2>2, <2>3
<1>5. st.v = V /\ st.mem64 = M
  BY MadeFields64
<1>6. Absorbed64(st, rest, c) = [st EXCEPT !.v = X, !.mem64 = Y, !.memsize = Z]
  BY <1>5 DEF Absorbed64
<1>. QED
  BY <1>4, <1>6

\* Segments go to the buffer, which has no stripe yet.
LEMMA BufferStands64 ==
  ASSUME NEW f \in Seq(Cell), NEW input \in Seq(Cell), NEW st, NEW sd, NEW c,
         Stands64(st, sd, f, c), st.memsize + Len(input) < 32
  PROVE  Stands64(Buffered64(Counted64(st, Len(input)), input), sd, f \o input, c)
<1>. DEFINE L == Len(f)
            n == Len(input)
            q == L \div 32
            m == L % 32
            g == f \o input
            V == Rounds64(Start64(sd), f, 0, q, c)
            mem == Copied(st.mem64, m, input)
            total == L + n
            new == Buffered64(Counted64(st, n), input)
<1>1. L \in Nat /\ n \in Nat
  BY LenProperties
<1>2. q \in Nat /\ m \in 0..31 /\ L = 32 * q + m
  <2>. HIDE DEF L
  <2>. QED
    BY <1>1
<1>3. /\ st = Made64(L, V, st.mem64, m)
      /\ st.mem64 \in Seq(Cell)
      /\ Len(st.mem64) = 32
      /\ \A k \in 1..m : st.mem64[k] = f[32 * q + k]
  BY DEF Stands64
<1>4. m + n < 32
  <2>1. st.memsize = m
    <3>. HIDE DEF m, V, L
    <3>. QED
      BY <1>3, MadeFields64
  <2>. QED
    BY <2>1
<1>5. /\ g \in Seq(Cell)
      /\ Len(g) = L + n
      /\ \A i \in 1..(L + n) : g[i] = IF i <= L THEN f[i] ELSE input[i - L]
  BY ConcatProperties
<1>6. (L + n) \div 32 = q /\ (L + n) % 32 = m + n
  <2>. HIDE DEF L, n, q, m
  <2>. QED
    BY <1>1, <1>2, <1>4
<1>8. V = Rounds64(Start64(sd), g, 0, q, c)
  <2>1. \A i \in 1..(32 * q) : g[i] = f[i]
    BY <1>1, <1>2, <1>5
  <2>. HIDE DEF q, g
  <2>. QED
    BY <1>2, <2>1, RoundsSame64
<1>9. new = Made64(total, V, mem, m + n)
  <2>. HIDE DEF L, n, V, m
  <2>1. Counted64(st, n) = Made64(total, V, st.mem64, m)
    <3>1. total = L + n
      OBVIOUS
    <3>. HIDE DEF total
    <3>. QED
      BY <1>3, <3>1, CountedMade64
  <2>2. Buffered64(Counted64(st, n), input) = Made64(total, V, mem, m + Len(input))
    <3>. HIDE DEF total, mem
    <3>1. mem = Copied(st.mem64, m, input)
      BY DEF mem
    <3>. QED
      BY <2>1, <3>1, BufferedMade64
  <2>. QED
    BY <2>2 DEF n
<1>10. /\ mem \in Seq(Cell)
       /\ Len(mem) = 32
       /\ \A k \in 1..32 :
            mem[k] = IF k > m /\ k <= m + n THEN input[k - m] ELSE st.mem64[k]
  <2>1. m \in Nat
    BY <1>2
  <2>2. /\ mem \in Seq(Cell)
        /\ Len(mem) = Len(st.mem64)
        /\ \A k \in 1..Len(st.mem64) :
             mem[k] = IF k > m /\ k <= m + n THEN input[k - m] ELSE st.mem64[k]
    <3>. HIDE DEF m
    <3>. QED
      BY <1>3, <2>1, CopiedCells
  <2>. HIDE DEF m, mem, n
  <2>. QED
    BY <1>3, <2>2
<1>. HIDE DEF mem
<1>11. ASSUME NEW k \in 1..(m + n)
       PROVE  mem[k] = g[32 * q + k]
  <2>. mem[k] = IF k > m /\ k <= m + n THEN input[k - m] ELSE st.mem64[k]
    <3>1. k \in 1..32
      BY <1>1, <1>2, <1>4
    <3>. QED
      BY <1>10, <3>1
  <2>0. k \in 1..32 /\ 32 * q + k \in 1..(L + n)
    BY <1>1, <1>2, <1>4
  <2>1. CASE k > m
    <3>1. mem[k] = input[k - m]
      <4>. HIDE DEF L, m, q, mem, n
      <4>. QED
        BY <1>1, <1>2, <1>10, <2>0, <2>1
    <3>2. ~(32 * q + k <= L) /\ (32 * q + k) - L = k - m
      BY <1>2, <2>1
    <3>. HIDE DEF L, m, q, mem, g, n
    <3>. QED
      BY <1>5, <2>0, <3>1, <3>2
  <2>2. CASE k <= m
    <3>1. mem[k] = st.mem64[k]
      <4>1. ~(k > m)
        BY <1>2, <2>2
      <4>. HIDE DEF L, m, q, mem, n
      <4>. QED
        BY <4>1, Zenon
    <3>2. 32 * q + k <= L /\ k \in 1..m
      BY <1>2, <2>2
    <3>. HIDE DEF L, m, q, mem, g, n
    <3>. QED
      BY <1>3, <1>5, <2>0, <3>1, <3>2
  <2>. QED
    BY <1>2, <2>1, <2>2
<1>12. new.mem64 = mem
  <2>. HIDE DEF new, total, V, mem, m, n
  <2>. QED
    BY <1>9, MadeFields64
<1>13. new = Made64(Len(g), Rounds64(Start64(sd), g, 0, Len(g) \div 32, c), new.mem64, Len(g) % 32)
  <2>. HIDE DEF new, V, mem, m, n, g, L, q
  <2>. QED
    BY <1>5, <1>6, <1>8, <1>9, <1>12, Zenon
<1>14. \A k \in 1..(Len(g) % 32) : new.mem64[k] = g[32 * (Len(g) \div 32) + k]
  <2>. HIDE DEF new, mem, m, n, g, L, q
  <2>. QED
    BY <1>5, <1>6, <1>11, <1>12
<1>15. Stands64(new, sd, g, c)
  <2>. HIDE DEF new, mem, g
  <2>. QED
    BY <1>10, <1>12, <1>13, <1>14 DEF Stands64
<1>. QED
  BY <1>15

\* A state without anything in the buffer absorbs the rest of its bytes.
LEMMA AbsorbStands64 ==
  ASSUME NEW g \in Seq(Cell), NEW rest \in Seq(Cell), NEW p \in Nat, NEW sd, NEW c,
         Len(g) = 32 * p + Len(rest),
         \A i \in 1..Len(rest) : rest[i] = g[32 * p + i],
         NEW mem \in Seq(Cell), Len(mem) = 32, NEW st,
         st = Made64(Len(g), Rounds64(Start64(sd), g, 0, p, c), mem, 0)
  PROVE  Stands64(Absorbed64(st, rest, c), sd, g, c)
<1>. DEFINE G == Len(g)
            r == Len(rest)
            stripes == r \div 32
            left == r % 32
            V == Rounds64(Start64(sd), g, 0, p, c)
            W == Rounds64(V, rest, 0, stripes, c)
            tail == Bytes(rest, 32 * stripes, left)
            M == Copied(mem, 0, tail)
            new == Absorbed64(st, rest, c)
<1>1. G \in Nat /\ r \in Nat /\ G = 32 * p + r
  BY LenProperties
<1>2. stripes \in Nat /\ left \in 0..31 /\ r = 32 * stripes + left
  <2>. HIDE DEF r
  <2>. QED
    BY <1>1
<1>3. G \div 32 = p + stripes /\ G % 32 = left
  <2>. DEFINE x == p + stripes
  <2>1. x \in Nat /\ left \in 0..31
    BY <1>2
  <2>2. G = 32 * x + left
    <3>. HIDE DEF G, r, stripes, left
    <3>. QED
      BY <1>1, <1>2
  <2>. HIDE DEF G, left, x
  <2>3. (32 * x + left) \div 32 = x /\ (32 * x + left) % 32 = left
    BY <2>1, Stripes64
  <2>4. G \div 32 = x /\ G % 32 = left
    BY <2>2, <2>3
  <2>. QED
    BY <2>4 DEF x
<1>4. new = Made64(G, W, M, left)
  <2>1. st = Made64(G, V, mem, 0)
    OBVIOUS
  <2>2. W = Rounds64(V, rest, 0, Len(rest) \div 32, c) /\ left = Len(rest) % 32
    OBVIOUS
  <2>3. M = Copied(mem, 0, Bytes(rest, 32 * (Len(rest) \div 32), left))
    OBVIOUS
  <2>. HIDE DEF G, V, W, M, left
  <2>. QED
    BY <2>1, <2>2, <2>3, AbsorbedMade64
<1>5. W = Rounds64(Start64(sd), g, 0, p + stripes, c)
  <2>1. \A i \in 1..(32 * stripes) : rest[i] = g[32 * p + i]
    <3>1. \A i \in 1..(32 * stripes) : i \in 1..r
      <4>. HIDE DEF r, stripes
      <4>. QED
        BY <1>1, <1>2
    <3>. QED
      BY <3>1
  <2>2. stripes \in Nat /\ p \in Nat
    BY <1>2
  <2>3. W = Rounds64(Rounds64(Start64(sd), g, 0, p, c), rest, 0, stripes, c)
    OBVIOUS
  <2>. HIDE DEF stripes, W
  <2>4. Rounds64(Rounds64(Start64(sd), g, 0, p, c), rest, 0, stripes, c) =
          Rounds64(Start64(sd), g, 0, p + stripes, c)
    BY <2>1, <2>2, RoundsGoOn64
  <2>. QED
    BY <2>3, <2>4
<1>6. /\ tail \in Seq(Cell)
      /\ Len(tail) = left
      /\ \A k \in 1..left : tail[k] = rest[32 * stripes + k]
  <2>1. 32 * stripes \in Nat /\ left \in Nat /\ 32 * stripes + left <= Len(rest)
    BY <1>1, <1>2
  <2>. HIDE DEF stripes, left
  <2>. QED
    BY <2>1, BytesCells
<1>7. /\ M \in Seq(Cell)
      /\ Len(M) = 32
      /\ \A k \in 1..32 : M[k] = IF k > 0 /\ k <= 0 + Len(tail) THEN tail[k - 0] ELSE mem[k]
  <2>1. 0 \in Nat /\ tail \in Seq(Cell)
    BY <1>6
  <2>2. /\ M \in Seq(Cell)
        /\ Len(M) = Len(mem)
        /\ \A k \in 1..Len(mem) :
             M[k] = IF k > 0 /\ k <= 0 + Len(tail) THEN tail[k - 0] ELSE mem[k]
    <3>. HIDE DEF tail
    <3>. QED
      BY <2>1, CopiedCells, Zenon
  <2>. HIDE DEF M, tail
  <2>. QED
    BY <2>2
<1>8. ASSUME NEW k \in 1..left
      PROVE  M[k] = g[32 * (p + stripes) + k]
  <2>1. k \in 1..32 /\ k > 0 /\ k <= 0 + left /\ k - 0 = k
    BY <1>2
  <2>2. M[k] = tail[k]
    <3>. HIDE DEF M, tail, left
    <3>. QED
      BY <1>6, <1>7, <2>1
  <2>3. tail[k] = rest[32 * stripes + k]
    BY <1>6
  <2>4. 32 * stripes + k \in 1..Len(rest) /\ 32 * p + (32 * stripes + k) = 32 * (p + stripes) + k
    BY <1>1, <1>2
  <2>5. rest[32 * stripes + k] = g[32 * p + (32 * stripes + k)]
    <3>. HIDE DEF stripes
    <3>. QED
      BY <2>4
  <2>. HIDE DEF stripes, left, M, tail
  <2>. QED
    BY <2>2, <2>3, <2>4, <2>5
<1>9. new.mem64 = M
  <2>. HIDE DEF new, W, M, left
  <2>. QED
    BY <1>4, MadeFields64
<1>10. new = Made64(Len(g), Rounds64(Start64(sd), g, 0, Len(g) \div 32, c), new.mem64, Len(g) % 32)
  <2>1. Len(g) \div 32 = p + stripes /\ Len(g) % 32 = left
    BY <1>3
  <2>2. new = Made64(Len(g), W, M, left)
    BY <1>4
  <2>. HIDE DEF new, W, M, left, stripes
  <2>. QED
    BY <1>5, <1>9, <2>1, <2>2, Zenon
<1>11. \A k \in 1..(Len(g) % 32) : new.mem64[k] = g[32 * (Len(g) \div 32) + k]
  <2>. HIDE DEF new, M, left, stripes
  <2>. QED
    BY <1>3, <1>8, <1>9
<1>12. Stands64(new, sd, g, c)
  <2>. HIDE DEF new, M
  <2>. QED
    BY <1>7, <1>9, <1>10, <1>11 DEF Stands64
<1>. QED
  BY <1>12

\* The stripe in the buffer is completed: what is left of the segment starts one.
LEMMA CompleteStands64 ==
  ASSUME NEW f \in Seq(Cell), NEW input \in Seq(Cell), NEW st, NEW sd, NEW c,
         Stands64(st, sd, f, c), st.memsize + Len(input) >= 32
  PROVE  LET g   == f \o input
             t   == Taken64(st)
             new == Completed64(Counted64(st, Len(input)), input, c)
         IN  \E p \in Nat :
               /\ t \in 0..Len(input)
               /\ Len(f) + t = 32 * p
               /\ new = Made64(Len(g), Rounds64(Start64(sd), g, 0, p, c), new.mem64, 0)
               /\ new.mem64 \in Seq(Cell)
               /\ Len(new.mem64) = 32
<1>. DEFINE L == Len(f)
            n == Len(input)
            q == L \div 32
            m == L % 32
            g == f \o input
            V == Rounds64(Start64(sd), f, 0, q, c)
            total == L + n
            cnt == Counted64(st, n)
            new == Completed64(cnt, input, c)
            Witnessed ==
              \E p \in Nat :
                /\ Taken64(st) \in 0..n
                /\ L + Taken64(st) = 32 * p
                /\ new = Made64(total, Rounds64(Start64(sd), g, 0, p, c), new.mem64, 0)
                /\ new.mem64 \in Seq(Cell)
                /\ Len(new.mem64) = 32
<1>1. L \in Nat /\ n \in Nat
  BY LenProperties
<1>2. q \in Nat /\ m \in 0..31 /\ L = 32 * q + m
  <2>. HIDE DEF L
  <2>. QED
    BY <1>1
<1>3. /\ st = Made64(L, V, st.mem64, m)
      /\ st.mem64 \in Seq(Cell)
      /\ Len(st.mem64) = 32
      /\ \A k \in 1..m : st.mem64[k] = f[32 * q + k]
  BY DEF Stands64
<1>4. st.memsize = m
  <2>. HIDE DEF m, V, L
  <2>. QED
    BY <1>3, MadeFields64
<1>5. /\ g \in Seq(Cell)
      /\ Len(g) = L + n
      /\ \A i \in 1..(L + n) : g[i] = IF i <= L THEN f[i] ELSE input[i - L]
  BY ConcatProperties
<1>7. V = Rounds64(Start64(sd), g, 0, q, c)
  <2>1. \A i \in 1..(32 * q) : g[i] = f[i]
    <3>. HIDE DEF L, n, q, m, g
    <3>. QED
      BY <1>1, <1>2, <1>5
  <2>. HIDE DEF q, g
  <2>. QED
    BY <1>2, <2>1, RoundsSame64
<1>8. cnt = Made64(total, V, st.mem64, m)
  <2>1. total = L + n
    OBVIOUS
  <2>. HIDE DEF total, L, V, m, n
  <2>. QED
    BY <1>3, <2>1, CountedMade64
<1>9. ASSUME m = 0 PROVE Witnessed
  <2>1. Taken64(st) = 0 /\ L + Taken64(st) = 32 * q
    BY <1>1, <1>2, <1>4, <1>9 DEF Taken64
  <2>2. new = cnt
    <3>1. cnt.memsize = 0
      <4>. HIDE DEF cnt, total, V, m
      <4>. QED
        BY <1>8, <1>9, MadeFields64
    <3>. HIDE DEF cnt
    <3>. QED
      BY <3>1 DEF Completed64
  <2>3. new.mem64 = st.mem64
    <3>. HIDE DEF new, cnt, total, V, m
    <3>. QED
      BY <1>8, <2>2, MadeFields64
  <2>4. new = Made64(total, Rounds64(Start64(sd), g, 0, q, c), new.mem64, 0)
    <3>. HIDE DEF new, cnt, total, V, m, g, q
    <3>. QED
      BY <1>7, <1>8, <1>9, <2>2, <2>3, Zenon
  <2>5. Taken64(st) \in 0..n /\ L + Taken64(st) = 32 * q /\ q \in Nat
    <3>. HIDE DEF q, L, n
    <3>. QED
      BY <1>1, <1>2, <2>1
  <2>6. new.mem64 \in Seq(Cell) /\ Len(new.mem64) = 32
    BY <1>3, <2>3
  <2>. HIDE DEF new, total, g, q, L, n
  <2>. QED
    BY <2>4, <2>5, <2>6, Zenon DEF Witnessed
<1>10. ASSUME m /= 0 PROVE Witnessed
  <2>. DEFINE t == 32 - m
              part == Bytes(input, 0, t)
              mem == Copied(st.mem64, m, part)
              W == Rounds64(V, mem, 0, 1, c)
  <2>1. Taken64(st) = t
    <3>. HIDE DEF m
    <3>. QED
      BY <1>4, <1>10 DEF Taken64
  <2>2. t \in 1..31 /\ t <= n /\ L + t = 32 * (q + 1)
    <3>1. m + n >= 32
      BY <1>4
    <3>. HIDE DEF L, n, q, m
    <3>. QED
      BY <1>1, <1>2, <1>10, <3>1
  <2>3. /\ part \in Seq(Cell)
        /\ Len(part) = t
        /\ \A k \in 1..t : part[k] = input[0 + k]
    <3>1. 0 \in Nat /\ t \in Nat /\ 0 + t <= Len(input)
      BY <1>1, <2>2
    <3>. HIDE DEF t
    <3>. QED
      BY <3>1, BytesCells, Zenon
  <2>4. /\ mem \in Seq(Cell)
        /\ Len(mem) = 32
        /\ \A k \in 1..32 :
             mem[k] = IF k > m /\ k <= m + Len(part) THEN part[k - m] ELSE st.mem64[k]
    <3>1. m \in Nat /\ part \in Seq(Cell)
      BY <1>2, <2>3
    <3>2. st.mem64 \in Seq(Cell) /\ Len(st.mem64) = 32
      BY <1>3
    <3>. DEFINE M == st.mem64
                P == part
                at == m
    <3>3. M \in Seq(Cell) /\ Len(M) = 32 /\ P \in Seq(Cell) /\ at \in Nat
      BY <3>1, <3>2
    <3>. HIDE DEF M, P, at
    <3>4. Copied(M, at, P) \in Seq(Cell) /\ Len(Copied(M, at, P)) = 32
      BY <3>3, CopiedCells
    <3>5. ASSUME NEW k \in 1..32
          PROVE  Copied(M, at, P)[k] =
                   IF k > at /\ k <= at + Len(P) THEN P[k - at] ELSE M[k]
      BY <3>3 DEF Copied
    <3>. QED
      BY <3>4, <3>5 DEF M, P, at
  <2>5. ASSUME NEW i \in 1..(32 * 1)
        PROVE  mem[i] = g[32 * q + i]
    <3>0. i \in 1..32
      OBVIOUS
    <3>. HIDE DEF L, m, q, mem, g, n, part
    <3>1. mem[i] = IF i > m /\ i <= m + t THEN part[i - m] ELSE st.mem64[i]
      <4>1. mem[i] = IF i > m /\ i <= m + Len(part) THEN part[i - m] ELSE st.mem64[i]
        BY <2>4, <3>0
      <4>. HIDE DEF t
      <4>. QED
        BY <2>3, <4>1
    <3>2. 32 * q + i \in 1..(L + n)
      BY <1>1, <1>2, <2>2
    <3>3. CASE i > m
      <4>1. i <= m + t /\ i - m \in 1..t /\ 0 + (i - m) = i - m
        BY <1>2, <3>3
      <4>2. mem[i] = input[i - m]
        BY <2>3, <3>1, <3>3, <4>1
      <4>3. ~(32 * q + i <= L) /\ (32 * q + i) - L = i - m
        BY <1>2, <3>3
      <4>. HIDE DEF t
      <4>. QED
        BY <1>5, <3>2, <4>2, <4>3
    <3>4. CASE i <= m
      <4>1. i \in 1..m /\ ~(i > m) /\ 32 * q + i <= L
        BY <1>2, <3>4
      <4>2. mem[i] = f[32 * q + i]
        BY <1>3, <3>1, <4>1
      <4>. HIDE DEF t
      <4>. QED
        BY <1>5, <3>2, <4>1, <4>2
    <3>. QED
      BY <1>2, <3>3, <3>4
  <2>6. W = Rounds64(Start64(sd), g, 0, q + 1, c)
    <3>1. W = Rounds64(Rounds64(Start64(sd), g, 0, q, c), mem, 0, 1, c)
      <4>. HIDE DEF mem, V, q, g
      <4>. QED
        BY <1>7
    <3>. DEFINE b == 1
    <3>2. b \in Nat /\ q \in Nat
      BY <1>2
    <3>3. \A i \in 1..(32 * b) : mem[i] = g[32 * q + i]
      BY <2>5
    <3>. HIDE DEF W, mem, q, g, b
    <3>4. Rounds64(Rounds64(Start64(sd), g, 0, q, c), mem, 0, b, c) =
            Rounds64(Start64(sd), g, 0, q + b, c)
      BY <3>2, <3>3, RoundsGoOn64
    <3>. QED
      BY <3>1, <3>4 DEF b
  <2>7. new = Made64(total, W, mem, 0)
    <3>1. mem = Copied(st.mem64, m, Bytes(input, 0, 32 - m)) /\ W = Rounds64(V, mem, 0, 1, c)
      OBVIOUS
    <3>. HIDE DEF total, W, mem, V, m, cnt
    <3>. QED
      BY <1>8, <1>10, <3>1, CompletedMade64
  <2>8. new.mem64 = mem
    <3>. HIDE DEF new, total, W, mem
    <3>. QED
      BY <2>7, MadeFields64
  <2>9. new = Made64(total, Rounds64(Start64(sd), g, 0, q + 1, c), new.mem64, 0)
    <3>. HIDE DEF new, total, W, mem, g, q
    <3>. QED
      BY <2>6, <2>7, <2>8, Zenon
  <2>10. Taken64(st) \in 0..n /\ q + 1 \in Nat /\ L + Taken64(st) = 32 * (q + 1)
    <3>. HIDE DEF t, L, n, q
    <3>. QED
      BY <1>1, <1>2, <2>1, <2>2
  <2>11. new.mem64 \in Seq(Cell) /\ Len(new.mem64) = 32
    BY <2>4, <2>8
  <2>. HIDE DEF new, total, g, q, L, n
  <2>. QED
    BY <2>9, <2>10, <2>11, Zenon DEF Witnessed
<1>11. Witnessed
  <2>. HIDE DEF Witnessed
  <2>. QED
    BY <1>9, <1>10
<1>. QED
  <2>1. total = Len(g)
    BY <1>5
  <2>. HIDE DEF total
  <2>. QED
    BY <1>11, <2>1

\* An update keeps the fields and the bytes fed together, wherever it cuts.
LEMMA UpdateStands64 ==
  ASSUME NEW f \in Seq(Cell), NEW input \in Seq(Cell), NEW st, NEW sd, NEW c,
         Stands64(st, sd, f, c)
  PROVE  Stands64(XXH64_update_endian(st, input, c), sd, f \o input, c)
<1>. DEFINE n == Len(input)
            m == st.memsize
            g == f \o input
<1>1. n \in Nat /\ Len(f) \in Nat
  BY LenProperties
<1>2. m \in 0..31
  <2>1. m = Len(f) % 32
    <3>. DEFINE x == Len(f) % 32
    <3>1. x = Len(f) % 32
      OBVIOUS
    <3>. HIDE DEF x
    <3>2. \E T, V, M : st = Made64(T, V, M, x)
      BY <3>1 DEF Stands64
    <3>. QED
      BY <3>2, MadeFields64 DEF x
  <2>2. \A x \in Nat : x % 32 \in 0..31
    OBVIOUS
  <2>. HIDE DEF m
  <2>. QED
    BY <1>1, <2>1, <2>2, Zenon
<1>3. CASE m + n < 32
  <2>1. Stands64(Buffered64(Counted64(st, n), input), sd, g, c)
    BY <1>3, BufferStands64
  <2>. QED
    BY <1>3, <2>1 DEF XXH64_update_endian, Counted64
<1>4. CASE m + n >= 32
  <2>. DEFINE t == Taken64(st)
              new == Completed64(Counted64(st, n), input, c)
              rest == Bytes(input, t, n - t)
  <2>1. PICK p \in Nat :
          /\ t \in 0..n
          /\ Len(f) + t = 32 * p
          /\ new = Made64(Len(g), Rounds64(Start64(sd), g, 0, p, c),
                        new.mem64, 0)
          /\ new.mem64 \in Seq(Cell)
          /\ Len(new.mem64) = 32
    BY <1>4, CompleteStands64
  <2>0. t \in 0..n /\ Len(f) + t = 32 * p
    BY <2>1
  <2>2. /\ rest \in Seq(Cell)
        /\ Len(rest) = n - t
        /\ \A k \in 1..(n - t) : rest[k] = input[t + k]
    <3>1. t \in Nat /\ n - t \in Nat /\ t + (n - t) <= Len(input)
      BY <1>1, <2>1
    <3>. HIDE DEF t
    <3>. QED
      BY <3>1, BytesCells
  <2>3. /\ g \in Seq(Cell)
        /\ Len(g) = Len(f) + n
        /\ \A i \in 1..(Len(f) + n) : g[i] = IF i <= Len(f) THEN f[i] ELSE input[i - Len(f)]
    BY ConcatProperties
  <2>4. Len(g) = 32 * p + Len(rest)
    <3>1. Len(g) = Len(f) + n /\ Len(rest) = n - t
      BY <2>2, <2>3
    <3>. HIDE DEF t, n, g, rest
    <3>. QED
      BY <1>1, <2>0, <3>1
  <2>5. ASSUME NEW i \in 1..Len(rest)
        PROVE  rest[i] = g[32 * p + i]
    <3>. HIDE DEF t, n, g, rest
    <3>1. rest[i] = input[t + i]
      BY <2>2
    <3>2. /\ 32 * p + i \in 1..(Len(f) + n)
          /\ ~(32 * p + i <= Len(f))
          /\ (32 * p + i) - Len(f) = t + i
      <4>1. Len(rest) = n - t
        BY <2>2
      <4>. QED
        BY <1>1, <2>0, <4>1
    <3>. QED
      BY <2>3, <3>1, <3>2
  <2>6. Stands64(Absorbed64(new, rest, c), sd, g, c)
    <3>. DEFINE M == new.mem64
    <3>1. new = Made64(Len(g), Rounds64(Start64(sd), g, 0, p, c), M, 0)
      BY <2>1
    <3>2. M \in Seq(Cell) /\ Len(M) = 32
      BY <2>1
    <3>3. \A i \in 1..Len(rest) : rest[i] = g[32 * p + i]
      BY <2>5
    <3>. HIDE DEF new, rest, g, M
    <3>. QED
      BY <2>2, <2>3, <2>4, <3>1, <3>2, <3>3, AbsorbStands64
  <2>7. ~(m + n < 32)
    <3>. HIDE DEF m, n
    <3>. QED
      BY <1>1, <1>2, <1>4
  <2>. QED
    BY <2>6, <2>7 DEF XXH64_update_endian, Counted64
<1>5. m + n < 32 \/ m + n >= 32
  <2>. HIDE DEF m, n
  <2>. QED
    BY <1>1, <1>2
<1>. QED
  <2>. HIDE DEF m, n
  <2>. QED
    BY <1>3, <1>4, <1>5

\* The digest of a state is the hash of the bytes it stands for.
LEMMA DigestStands64 ==
  ASSUME NEW f \in Seq(Cell), NEW st, NEW sd, NEW c, Stands64(st, sd, f, c)
  PROVE  XXH64_digest_endian(st, c) = XXH64(f, sd, c)
<1>. DEFINE L == Len(f)
            q == L \div 32
            m == L % 32
            V == Rounds64(Start64(sd), f, 0, q, c)
            rest == Bytes(f, 32 * q, m)
<1>1. L \in Nat /\ q \in Nat /\ m \in 0..31
  <2>1. L \in Nat
    BY LenProperties
  <2>. HIDE DEF L
  <2>. QED
    BY <2>1
<1>2. /\ st.total_len = L
      /\ st.v = V
      /\ st.memsize = m
  <2>. DEFINE M == st.mem64
  <2>1. st = Made64(L, V, M, m)
    BY DEF Stands64
  <2>. HIDE DEF L, V, M, m
  <2>. QED
    BY <2>1, MadeFields64
<1>3. Bytes(st.mem64, 0, m) = rest
  <2>1. \A k \in 1..m : st.mem64[k] = f[32 * q + k]
    BY DEF Stands64
  <2>2. \A k \in 1..m : st.mem64[0 + k] = st.mem64[k]
    BY <1>1
  <2>. HIDE DEF m, q
  <2>. QED
    BY <2>1, <2>2 DEF Bytes
<1>4. CASE ~(L >= 32)
  <2>1. q = 0
    BY <1>1, <1>4
  <2>2. V = Start64(sd)
    <3>. HIDE DEF q
    <3>. QED
      BY <2>1, RoundsNone64
  <2>3. XXH64(f, sd, c) = Finish64(<<Start64(sd)[3]>>, L, rest, c)
    BY <1>4 DEF XXH64, XXH64_endian_align
  <2>4. XXH64_digest_endian(st, c) =
          Finish64(<<st.v[3]>>, st.total_len, Bytes(st.mem64, 0, st.memsize), c)
    BY <1>2, <1>4 DEF XXH64_digest_endian
  <2>. HIDE DEF V, m, rest, L, q
  <2>. QED
    BY <1>2, <1>3, <2>2, <2>3, <2>4
<1>5. CASE L >= 32
  <2>1. XXH64(f, sd, c) = Finish64(Merged(V), L, rest, c)
    BY <1>5 DEF XXH64, XXH64_endian_align
  <2>2. XXH64_digest_endian(st, c) =
          Finish64(Merged(st.v), st.total_len, Bytes(st.mem64, 0, st.memsize), c)
    BY <1>2, <1>5 DEF XXH64_digest_endian
  <2>. HIDE DEF V, m, rest, L, q
  <2>. QED
    BY <1>2, <1>3, <2>1, <2>2
<1>. QED
  BY <1>4, <1>5

-----------------------------------------------------------------------------
(* XXH64: the inductive invariant. *)

\* Every live state stands for the bytes fed to it.
IInv64 ==
  /\ cpu \in Cpus
  /\ phase64 \in [States -> {"none", "raw", "live"}]
  /\ seed64 \in [States -> Seeds]
  /\ fed64 \in [States -> Seq(Cell)]
  /\ state64 = [s \in States |-> state64[s]]
  /\ \A s \in States : Len(fed64[s]) <= MaxFed
  /\ \A s \in Live64 : Stands64(state64[s], seed64[s], fed64[s], cpu)

LEMMA InitHolds64 == Init64 => IInv64
<1>. SUFFICES ASSUME Init64 PROVE IInv64
  OBVIOUS
<1>1. cpu \in Cpus /\ phase64 \in [States -> {"none", "raw", "live"}] /\ Live64 = {}
  BY DEF Init64, Live64
<1>2. seed64 \in [States -> Seeds] /\ state64 = [s \in States |-> state64[s]]
  BY DEF Init64
<1>3. fed64 \in [States -> Seq(Cell)] /\ \A s \in States : Len(fed64[s]) <= MaxFed
  BY EmptyFed DEF Init64
<1>. QED
  BY <1>1, <1>2, <1>3 DEF IInv64

\* What a step changes is one state and what is known of it.
LEMMA OneChanges64 ==
  ASSUME IInv64, NEW s \in States, NEW ph \in {"none", "raw", "live"}, NEW st,
         NEW sd \in Seeds, NEW f \in Seq(Cell), Len(f) <= MaxFed,
         cpu' = cpu,
         phase64' = [phase64 EXCEPT ![s] = ph],
         state64' = [state64 EXCEPT ![s] = st],
         seed64' = [seed64 EXCEPT ![s] = sd],
         fed64' = [fed64 EXCEPT ![s] = f],
         ph = "live" => Stands64(st, sd, f, cpu)
  PROVE  IInv64'
<1>1. cpu' \in Cpus /\ phase64' \in [States -> {"none", "raw", "live"}]
  BY DEF IInv64
<1>2. seed64' \in [States -> Seeds]
  BY DEF IInv64
<1>3. fed64' \in [States -> Seq(Cell)]
  BY DEF IInv64
<1>4. state64' = [u \in States |-> state64'[u]]
  <2>1. state64 = [u \in States |-> state64[u]]
    BY DEF IInv64
  <2>. QED
    BY <2>1
<1>5. ASSUME NEW u \in States
      PROVE  Len(fed64'[u]) <= MaxFed
  BY DEF IInv64
<1>6. ASSUME NEW u \in States, phase64'[u] = "live"
      PROVE  Stands64(state64'[u], seed64'[u], fed64'[u], cpu')
  <2>1. CASE u = s
    <3>1. phase64'[s] = ph /\ seed64'[s] = sd /\ fed64'[s] = f
      BY DEF IInv64
    <3>2. state64'[s] = st
      <4>1. state64 = [w \in States |-> state64[w]]
        BY DEF IInv64
      <4>. QED
        BY <4>1
    <3>. QED
      BY <1>6, <2>1, <3>1, <3>2
  <2>2. CASE u /= s
    <3>1. phase64'[u] = phase64[u] /\ seed64'[u] = seed64[u] /\ fed64'[u] = fed64[u]
      BY <2>2 DEF IInv64
    <3>2. state64'[u] = state64[u]
      <4>1. state64 = [w \in States |-> state64[w]]
        BY DEF IInv64
      <4>. QED
        BY <2>2, <4>1
    <3>3. Stands64(state64[u], seed64[u], fed64[u], cpu)
      BY <1>6, <3>1 DEF IInv64, Live64
    <3>. QED
      BY <3>1, <3>2, <3>3
  <2>. QED
    BY <2>1, <2>2
<1>. QED
  BY <1>1, <1>2, <1>3, <1>4, <1>5, <1>6 DEF IInv64, Live64

LEMMA NextHolds64 == IInv64 /\ [Next64]_vars64 => IInv64'
<1>. SUFFICES ASSUME IInv64, [Next64]_vars64 PROVE IInv64'
  OBVIOUS
<1>. cpu \in Cpus /\ seed64 \in [States -> Seeds] /\ fed64 \in [States -> Seq(Cell)]
  BY DEF IInv64
<1>. phase64 \in [States -> {"none", "raw", "live"}] /\ \A s \in States : Len(fed64[s]) <= MaxFed
  BY DEF IInv64
<1>. state64 = [s \in States |-> state64[s]]
  BY DEF IInv64
<1>1. ASSUME NEW s \in States, XXH64_createState(s)
      PROVE  IInv64'
  <2>1. /\ cpu' = cpu
        /\ phase64' = [phase64 EXCEPT ![s] = "raw"]
        /\ state64' = [state64 EXCEPT ![s] = state64[s]]
        /\ seed64' = [seed64 EXCEPT ![s] = seed64[s]]
        /\ fed64' = [fed64 EXCEPT ![s] = fed64[s]]
    BY <1>1 DEF XXH64_createState
  <2>2. "raw" /= "live"
    OBVIOUS
  <2>. QED
    BY <2>1, <2>2, OneChanges64
<1>2. ASSUME NEW s \in States, XXH64_freeState(s)
      PROVE  IInv64'
  <2>1. /\ cpu' = cpu
        /\ phase64' = [phase64 EXCEPT ![s] = "none"]
        /\ state64' = [state64 EXCEPT ![s] = Unset64]
        /\ seed64' = [seed64 EXCEPT ![s] = seed64[s]]
        /\ fed64' = [fed64 EXCEPT ![s] = << >>]
    BY <1>2 DEF XXH64_freeState
  <2>2. "none" /= "live"
    OBVIOUS
  <2>. QED
    BY <2>1, <2>2, EmptyFed, OneChanges64
<1>3. ASSUME NEW s \in States, NEW sd \in Seeds, XXH64_reset(s, sd)
      PROVE  IInv64'
  <2>1. /\ cpu' = cpu
        /\ phase64' = [phase64 EXCEPT ![s] = "live"]
        /\ state64' = [state64 EXCEPT ![s] = ResetState64(sd)]
        /\ seed64' = [seed64 EXCEPT ![s] = sd]
        /\ fed64' = [fed64 EXCEPT ![s] = << >>]
    BY <1>3 DEF XXH64_reset
  <2>2. Stands64(ResetState64(sd), sd, << >>, cpu)
    BY ResetStands64
  <2>. QED
    BY <2>1, <2>2, EmptyFed, OneChanges64
<1>4. ASSUME NEW s \in States, NEW n \in Lengths, XXH64_update(s, Segment64(s, n))
      PROVE  IInv64'
  <2>. DEFINE input == Segment64(s, n)
              st == XXH64_update_endian(state64[s], input, cpu)
              f == fed64[s] \o input
  <2>1. n \in Nat /\ Len(fed64[s]) \in Nat
    BY LengthsAssumption, LenProperties
  <2>2. input \in Seq(Cell)
    <3>. DEFINE L == Len(fed64[s])
    <3>1. ASSUME NEW k \in 1..n
          PROVE  <<s, L + k>> \in Cell
      <4>1. L + k \in Nat
        BY <2>1
      <4>. QED
        BY <4>1 DEF Cell
    <3>2. input = [k \in 1..n |-> <<s, L + k>>]
      BY DEF Segment64
    <3>3. input \in [1..n -> Cell]
      <4>. HIDE DEF L, input
      <4>. QED
        BY <3>1, <3>2, Zenon
    <3>. HIDE DEF input
    <3>. QED
      BY <2>1, <3>3, SeqDef
  <2>3. f \in Seq(Cell) /\ Len(f) = Len(fed64[s]) + Len(input)
    <3>. HIDE DEF input
    <3>. QED
      BY <2>2, ConcatProperties
  <2>4. /\ phase64[s] = "live"
        /\ Len(fed64[s]) + Len(input) <= MaxFed
        /\ cpu' = cpu
        /\ phase64' = phase64
        /\ state64' = [state64 EXCEPT ![s] = st]
        /\ seed64' = seed64
        /\ fed64' = [fed64 EXCEPT ![s] = f]
    <3>. HIDE DEF input
    <3>. QED
      BY <1>4 DEF XXH64_update, input
  <2>5. Stands64(st, seed64[s], f, cpu)
    <3>1. Stands64(state64[s], seed64[s], fed64[s], cpu)
      BY <2>4 DEF IInv64, Live64
    <3>. HIDE DEF input
    <3>. QED
      BY <2>2, <3>1, UpdateStands64
  <2>6. /\ phase64' = [phase64 EXCEPT ![s] = "live"]
        /\ seed64' = [seed64 EXCEPT ![s] = seed64[s]]
        /\ Len(f) <= MaxFed
    <3>. HIDE DEF input, f, st
    <3>. QED
      BY <2>3, <2>4
  <2>. HIDE DEF f, st
  <2>. QED
    BY <2>3, <2>4, <2>5, <2>6, OneChanges64
<1>5. ASSUME NEW dst \in States, NEW src \in States, XXH64_copyState(dst, src)
      PROVE  IInv64'
  <2>1. /\ cpu' = cpu
        /\ phase64' = [phase64 EXCEPT ![dst] = "live"]
        /\ state64' = [state64 EXCEPT ![dst] = state64[src]]
        /\ seed64' = [seed64 EXCEPT ![dst] = seed64[src]]
        /\ fed64' = [fed64 EXCEPT ![dst] = fed64[src]]
    BY <1>5 DEF XXH64_copyState
  <2>2. Stands64(state64[src], seed64[src], fed64[src], cpu)
    BY <1>5 DEF XXH64_copyState, IInv64, Live64
  <2>. QED
    BY <2>1, <2>2, OneChanges64
<1>6. CASE UNCHANGED vars64
  <2>1. cpu' = cpu /\ phase64' = phase64 /\ state64' = state64 /\ seed64' = seed64 /\ fed64' = fed64
    BY <1>6 DEF vars64
  <2>. QED
    BY <2>1 DEF IInv64, Live64
<1>. QED
  BY <1>1, <1>2, <1>3, <1>4, <1>5, <1>6 DEF Next64

LEMMA IInvHolds64 == Spec64 => []IInv64
BY InitHolds64, NextHolds64, PTL DEF Spec64

-----------------------------------------------------------------------------
(* XXH64: the theorems. *)

\* What the fields of a state that stands for f are.
LEMMA StandsFields64 ==
  ASSUME NEW f \in Seq(Cell), NEW st, NEW sd, NEW c, Stands64(st, sd, f, c)
  PROVE  /\ st.total_len = Len(f)
         /\ st.memsize = Len(f) % 32
         /\ DOMAIN st.mem64 = 1..32
<1>. DEFINE T == Len(f)
            V == Rounds64(Start64(sd), f, 0, Len(f) \div 32, c)
            M == st.mem64
            m == Len(f) % 32
<1>1. st = Made64(T, V, M, m)
  BY DEF Stands64
<1>2. DOMAIN st.mem64 = 1..32
  <2>1. M \in Seq(Cell) /\ Len(M) = 32
    BY DEF Stands64
  <2>2. DOMAIN M = 1..Len(M)
    <3>. HIDE DEF M
    <3>. QED
      BY <2>1, LenProperties
  <2>. QED
    BY <2>1, <2>2
<1>3. st.total_len = T /\ st.memsize = m
  <2>. HIDE DEF T, V, M, m
  <2>. QED
    BY <1>1, MadeFields64
<1>. QED
  BY <1>2, <1>3

\* The fields of a live state keep their ranges, the buffer its 32 bytes and
\* room for one more, whatever segments XXH64_update is given (xxhash.c).
THEOREM XXH64TypeTheorem == Spec64 => []TypeOK64
<1>1. IInv64 => TypeOK64
  <2>. SUFFICES ASSUME IInv64 PROVE TypeOK64
    OBVIOUS
  <2>1. ASSUME NEW s \in States
        PROVE  Len(fed64[s]) \in 0..MaxFed
    <3>1. fed64[s] \in Seq(Cell) /\ Len(fed64[s]) <= MaxFed
      BY DEF IInv64
    <3>2. Len(fed64[s]) \in Nat
      BY <3>1, LenProperties
    <3>. QED
      BY <3>1, <3>2, LengthsAssumption
  <2>2. ASSUME NEW s \in Live64
        PROVE  /\ state64[s].total_len \in Nat
               /\ state64[s].memsize \in 0..31
               /\ DOMAIN state64[s].mem64 = 1..32
    <3>. DEFINE L == Len(fed64[s])
    <3>1. fed64[s] \in Seq(Cell) /\ Stands64(state64[s], seed64[s], fed64[s], cpu)
      BY DEF IInv64, Live64
    <3>2. L \in Nat
      BY <3>1, LenProperties
    <3>3. /\ state64[s].total_len = L
          /\ state64[s].memsize = L % 32
          /\ DOMAIN state64[s].mem64 = 1..32
      BY <3>1, StandsFields64
    <3>. HIDE DEF L
    <3>4. L % 32 \in 0..31
      BY <3>2
    <3>. QED
      BY <3>2, <3>3, <3>4
  <2>. QED
    BY <2>1, <2>2 DEF TypeOK64, IInv64
<1>. QED
  BY <1>1, IInvHolds64, PTL

\* The two fields that XXH64_digest trusts account for every byte fed, however
\* the segments cut the input.
THEOREM AccountedTheorem64 == Spec64 => []Accounted64
<1>1. IInv64 => Accounted64
  <2>. SUFFICES ASSUME IInv64, NEW s \in Live64
                PROVE  /\ state64[s].memsize = Len(fed64[s]) % 32
                       /\ state64[s].total_len = Len(fed64[s])
    BY DEF Accounted64
  <2>1. fed64[s] \in Seq(Cell) /\ Stands64(state64[s], seed64[s], fed64[s], cpu)
    BY DEF IInv64, Live64
  <2>. QED
    BY <2>1, StandsFields64
<1>. QED
  BY <1>1, IInvHolds64, PTL

\* XXH64_digest gives at any time what XXH64 gives of all the bytes fed since the
\* reset (xxhash.h:191), for any segments, any number of states and copies of them.
THEOREM DigestTheorem64 == Spec64 => []DigestIsOneShot64
<1>1. IInv64 => DigestIsOneShot64
  <2>. SUFFICES ASSUME IInv64, NEW s \in Live64
                PROVE  XXH64_digest_endian(state64[s], cpu) = XXH64(fed64[s], seed64[s], cpu)
    BY DEF DigestIsOneShot64
  <2>1. fed64[s] \in Seq(Cell) /\ Stands64(state64[s], seed64[s], fed64[s], cpu)
    BY DEF IInv64, Live64
  <2>. QED
    BY <2>1, DigestStands64
<1>. QED
  BY <1>1, IInvHolds64, PTL

-----------------------------------------------------------------------------
(* XXH64: the two kinds of CPU. *)

LEMMA SameHash64 ==
  ASSUME NEW f, NEW sd, NEW here \in Cpus, NEW there \in Cpus
  PROVE  XXH64(f, sd, here) = XXH64(f, sd, there)
<1>1. ASSUME NEW v, NEW n
      PROVE  Rounds64(v, f, 0, n, here) = Rounds64(v, f, 0, n, there)
  BY SameWords DEF Rounds64
<1>2. ASSUME NEW head, NEW len, NEW rest
      PROVE  Finish64(head, len, rest, here) = Finish64(head, len, rest, there)
  BY SameWords DEF Finish64
<1>. QED
  BY <1>1, <1>2 DEF XXH64, XXH64_endian_align

\* A digest in its canonical form is, on a machine of either kind, the hash this
\* machine computes of the same bytes itself (xxhash.c:71, xxhash.h:210).
THEOREM ComparableTheorem64 == Spec64 => []Comparable64
<1>1. IInv64 => Comparable64
  <2>. SUFFICES ASSUME IInv64, NEW s \in Live64, NEW there \in Cpus
                PROVE  HashFromCanonical(
                         CanonicalFromHash(Digits(XXH64_digest_endian(state64[s], cpu), 8), cpu),
                         there) = Digits(XXH64(fed64[s], seed64[s], there), 8)
    BY DEF Comparable64
  <2>1. fed64[s] \in Seq(Cell) /\ Stands64(state64[s], seed64[s], fed64[s], cpu) /\ cpu \in Cpus
    BY DEF IInv64, Live64
  <2>2. XXH64_digest_endian(state64[s], cpu) = XXH64(fed64[s], seed64[s], cpu)
    BY <2>1, DigestStands64
  <2>3. XXH64(fed64[s], seed64[s], cpu) = XXH64(fed64[s], seed64[s], there)
    BY <2>1, SameHash64
  <2>. QED
    BY <2>1, <2>2, <2>3, CanonicalBack
<1>. QED
  BY <1>1, IInvHolds64, PTL

===============================================================================
