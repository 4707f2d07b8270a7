----------------------------- MODULE ConfigProofs ------------------------------
(***************************************************************************)
(* What Config makes of a file, for any lines.  Load goes through the      *)
(* lines; Read says of each option what is known of it after some of them, *)
(* namely the arguments of its first line.  The lemmas at the end are what *)
(* the proofs of Requests and Plugin use.                                  *)
(***************************************************************************)
EXTENDS Config, WellFoundedInduction, TLAPS

\* A set of naturals that is not empty has a least member.
LEMMA Least ==
  ASSUME NEW T \in SUBSET Nat, T # {}
  PROVE  \E m \in T : \A n \in T : m <= n
<1>. DEFINE R == OpToRel(<, Nat)
<1>1. IsWellFoundedOn(R, Nat)
  BY NatLessThanWellFounded
<1>2. \A m, n \in Nat : <<n, m>> \in R <=> n < m
  BY DEF OpToRel
<1>. HIDE DEF R
<1>3. PICK m \in T : \A n \in T : ~ (<<n, m>> \in R)
  BY <1>1, WFMin
<1>4. ASSUME NEW n \in T
      PROVE  m <= n
  <2>1. m \in Nat /\ n \in Nat
    OBVIOUS
  <2>2. ~ (n < m)
    BY <1>2, <1>3, <2>1, Zenon
  <2>. QED
    BY <2>1, <2>2
<1>. QED
  BY <1>4

\* Induction up to L, as a fact about the set T of the numbers that are good.
LEMMA SetInduction ==
  ASSUME NEW L \in Nat, NEW T, 0 \in T, \A n \in 1..L : n - 1 \in T => n \in T
  PROVE  0..L \subseteq T
<1>. DEFINE U == {n \in 0..L : n \notin T}
<1>. SUFFICES ASSUME U # {} PROVE FALSE
  OBVIOUS
<1>0. U \in SUBSET Nat
  OBVIOUS
<1>1. PICK m \in U : \A n \in U : m <= n
  <2>. HIDE DEF U
  <2>. QED
    BY <1>0, Least
<1>2. m # 0
  BY <1>1
<1>3. m - 1 \in T
  BY <1>1, <1>2
<1>. QED
  BY <1>1, <1>2, <1>3

-----------------------------------------------------------------------------
\* r is the function that Load defines.
Reads(lines, r) ==
  r = [n \in 0..Len(lines) |->
         IF n = 0 THEN [index \in {} |-> <<>>] ELSE AddLine(r[n - 1], lines[n])]

\* Load takes its value from such a function, once there is one.
LEMMA LoadChoose == ASSUME NEW lines, NEW g, Reads(lines, g)
                    PROVE  \E r : Reads(lines, r) /\ Load(lines) = r[Len(lines)]
<1>. DEFINE r == CHOOSE x : Reads(lines, x)
<1>1. Reads(lines, r)
  BY Zenon
<1>2. Load(lines) = r[Len(lines)]
  BY DEF Load, Reads
<1>. QED
  BY <1>1, <1>2, Zenon

\* The options of the first n lines, and what is known of them.
Defined(lines, n) == {lines[i][1] : i \in {j \in 1..n : Len(lines[j]) > 1}}

Read(lines, n) == [index \in Defined(lines, n) |-> Tail(lines[First(lines, index)])]

\* The first line of an option is one of its lines and comes before all the others.
LEMMA FirstIs ==
  ASSUME NEW lines \in Lines, NEW index, Defining(lines, index) # {}
  PROVE  /\ First(lines, index) \in Defining(lines, index)
         /\ \A j \in Defining(lines, index) : First(lines, index) <= j
<1>1. Defining(lines, index) \in SUBSET Nat
  BY DEF Defining, Lines
<1>2. \E i \in Defining(lines, index) : \A j \in Defining(lines, index) : i <= j
  BY <1>1, Least
<1>. QED
  BY <1>2, Zenon DEF First

\* One turn.
LEMMA ReadStep ==
  ASSUME NEW lines \in Lines, NEW n \in 1..Len(lines)
  PROVE  Read(lines, n) = AddLine(Read(lines, n - 1), lines[n])
<1>. DEFINE index == lines[n][1]
<1>1. CASE Len(lines[n]) <= 1
  <2>1. Defined(lines, n) = Defined(lines, n - 1)
    BY <1>1 DEF Defined, Lines
  <2>. QED
    BY <1>1, <2>1 DEF Read, AddLine, Lines
<1>2. CASE Len(lines[n]) > 1
  <2>1. Defined(lines, n) = Defined(lines, n - 1) \cup {index}
    <3>1. {j \in 1..n : Len(lines[j]) > 1} = {j \in 1..n - 1 : Len(lines[j]) > 1} \cup {n}
      BY <1>2 DEF Lines
    <3>. QED
      BY <3>1 DEF Defined
  <2>2. n \in Defining(lines, index)
    BY <1>2 DEF Defining, Lines
  <2>3. ASSUME index \notin Defined(lines, n - 1)
        PROVE  First(lines, index) = n
    <3>1. \A j \in Defining(lines, index) : n <= j
      BY <2>3 DEF Defining, Defined, Lines
    <3>2. /\ First(lines, index) \in Defining(lines, index)
          /\ First(lines, index) <= n
      BY <2>2, FirstIs
    <3>. QED
      BY <3>1, <3>2 DEF Defining, Lines
  <2>4. Read(lines, n) =
          [i \in Defined(lines, n - 1) \cup {index} |->
             IF i \in Defined(lines, n - 1) THEN Tail(lines[First(lines, i)]) ELSE Tail(lines[n])]
    BY <2>1, <2>3 DEF Read
  <2>. QED
    BY <1>2, <2>4 DEF AddLine, Read
<1>. QED
  BY <1>1, <1>2 DEF Lines

\* Load in closed form.
LEMMA LoadIsRead == ASSUME NEW lines \in Lines
                    PROVE  Load(lines) = Read(lines, Len(lines))
<1>. DEFINE L == Len(lines)
            g == [n \in 0..L |-> Read(lines, n)]
<1>1. L \in Nat
  BY DEF Lines
<1>2. Reads(lines, g)
  <2>1. Read(lines, 0) = [index \in {} |-> << >>]
    BY DEF Read, Defined
  <2>2. ASSUME NEW n \in 0..L, n # 0
        PROVE  g[n] = AddLine(g[n - 1], lines[n])
    BY <1>1, <2>2, ReadStep
  <2>. QED
    BY <1>1, <2>1, <2>2 DEF Reads
<1>3. PICK r : Reads(lines, r) /\ Load(lines) = r[L]
  BY <1>2, LoadChoose
<1>. DEFINE T == {n \in 0..L : r[n] = Read(lines, n)}
<1>4. 0 \in T
  BY <1>1, <1>3 DEF Reads, Read, Defined
<1>5. ASSUME NEW n \in 1..L, n - 1 \in T
      PROVE  n \in T
  <2>1. r[n] = AddLine(r[n - 1], lines[n])
    BY <1>1, <1>3 DEF Reads
  <2>2. r[n - 1] = Read(lines, n - 1)
    BY <1>5
  <2>. QED
    BY <1>1, <2>1, <2>2, ReadStep
<1>6. 0..L \subseteq T
  <2>. HIDE DEF T, L
  <2>. QED
    BY <1>1, <1>4, <1>5, SetInduction
<1>. QED
  BY <1>1, <1>3, <1>6

\* What Get finds: the arguments of the first line that gives the option any.
LEMMA ArgsAreFirst ==
  ASSUME NEW lines \in Lines, NEW index
  PROVE  Args(Load(lines), index) =
           IF Defining(lines, index) = {} THEN << >> ELSE Tail(lines[First(lines, index)])
<1>1. DOMAIN lines = 1..Len(lines)
  BY DEF Lines
<1>2. index \in Defined(lines, Len(lines)) <=> Defining(lines, index) # {}
  BY <1>1 DEF Defined, Defining
<1>. QED
  BY <1>2, LoadIsRead DEF Args, Read

\* A line that gives an option arguments gives it at least one.
LEMMA FirstHasArg ==
  ASSUME NEW lines \in Lines, NEW index, Defining(lines, index) # {}
  PROVE  /\ lines[First(lines, index)] \in Seq(STRING)
         /\ Len(lines[First(lines, index)]) > 1
<1>1. First(lines, index) \in Defining(lines, index)
  BY FirstIs
<1>. QED
  BY <1>1 DEF Defining, Lines

\* Get with position 0: it succeeds when a line gives the option an argument, and finds the
\* first argument of the first such line.
LEMMA HasArgIsDefining ==
  ASSUME NEW lines \in Lines, NEW index
  PROVE  /\ HasArg(Load(lines), index, 0) <=> Defining(lines, index) # {}
         /\ Defining(lines, index) # {} =>
              Arg(Load(lines), index, 0) = lines[First(lines, index)][2]
<1>1. CASE Defining(lines, index) = {}
  BY <1>1, ArgsAreFirst DEF HasArg
<1>2. CASE Defining(lines, index) # {}
  <2>. DEFINE line == lines[First(lines, index)]
  <2>1. Args(Load(lines), index) = Tail(line) /\ line \in Seq(STRING) /\ Len(line) > 1
    BY <1>2, ArgsAreFirst, FirstHasArg
  <2>. HIDE DEF line
  <2>2. Len(Tail(line)) > 0 /\ Tail(line)[0 + 1] = line[2]
    BY <2>1
  <2>3. HasArg(Load(lines), index, 0) /\ Arg(Load(lines), index, 0) = line[2]
    BY <2>1, <2>2 DEF HasArg, Arg
  <2>. QED
    BY <1>2, <2>3 DEF line
<1>. QED
  BY <1>1, <1>2
===============================================================================
