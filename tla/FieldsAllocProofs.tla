--------------------------- MODULE FieldsAllocProofs --------------------------
(***************************************************************************)
(* Theorems about FieldsAlloc, for any number of handles, any pool size    *)
(* and any lengths.                                                        *)
(***************************************************************************)
EXTENDS FieldsAlloc, FiniteSetTheorems, TLAPS

\* The pool's counters count what is there, and p_ is past every live allocation.
Pool ==
  /\ IsFiniteSet(live) /\ count_ = Cardinality(live)
  /\ p_ < Size
  /\ \A b \in live : End(b) <= p_
  /\ live = {} => p_ = 0

\* The count of handles is never too low, so destroy never sees zero.
Counted ==
  /\ IsFiniteSet(handles) /\ refs_ = Cardinality(handles)
  /\ \A b \in live : b.handle \in handles
  /\ ~ freed

\* The account of the bytes handed out is where p_ stands.
Account == spent = p_ /\ RefusedOnlyWhenSpent

IInv == TypeOK /\ Pool /\ BlocksApart /\ Counted /\ Account

LEMMA InitIInv == Init => IInv
<1>. SUFFICES ASSUME Init
              PROVE  IInv
  OBVIOUS
<1>. USE HandlesAssumption, SizeAssumption DEF Init
<1>1. TypeOK
  <2>1. p_ \in Nat /\ count_ \in Nat /\ refs_ \in Nat /\ refused \in Nat /\ spent \in Nat
    OBVIOUS
  <2>2. handles \subseteq Handles /\ live \subseteq Block
    OBVIOUS
  <2>. QED
    BY <2>1, <2>2 DEF TypeOK
<1>2. Pool
  BY FS_EmptySet DEF Pool
<1>3. BlocksApart
  BY DEF BlocksApart
<1>4. Counted
  BY FS_Singleton DEF Counted
<1>5. Account
  BY DEF Account, RefusedOnlyWhenSpent
<1>. QED
  BY <1>1, <1>2, <1>3, <1>4, <1>5 DEF IInv

\* Handles come and go without touching the pool's bytes.
LEMMA CopyIInv == ASSUME IInv, NEW h \in Handles, Copy(h)
                  PROVE  IInv'
<1>. USE DEF Copy, IInv
<1>1. TypeOK'
  BY DEF TypeOK
<1>2. Pool' /\ BlocksApart'
  BY DEF Pool, BlocksApart
<1>3. Counted'
  <2>1. IsFiniteSet(handles') /\ Cardinality(handles') = Cardinality(handles) + 1
    BY FS_AddElement DEF Counted
  <2>. QED
    BY <2>1 DEF Counted
<1>4. Account'
  BY DEF Account, RefusedOnlyWhenSpent
<1>. QED
  BY <1>1, <1>2, <1>3, <1>4

LEMMA DestroyIInv == ASSUME IInv, NEW h \in Handles, Destroy(h)
                     PROVE  IInv'
<1>. USE DEF Destroy, IInv
<1>1. TypeOK'
  <2>1. Cardinality(handles) # 0
    BY FS_EmptySet DEF Counted
  <2>2. refs_' \in Nat
    BY <2>1 DEF TypeOK, Counted
  <2>. QED
    BY <2>2 DEF TypeOK
<1>2. Pool' /\ BlocksApart'
  BY DEF Pool, BlocksApart
<1>3. Counted'
  <2>1. IsFiniteSet(handles') /\ Cardinality(handles') = Cardinality(handles) - 1
    BY FS_RemoveElement DEF Counted
  <2>2. refs_ # 0
    BY FS_EmptySet DEF Counted
  <2>3. \A b \in live' : b.handle \in handles'
    BY DEF Counted, Mine
  <2>. QED
    BY <2>1, <2>2, <2>3 DEF Counted
<1>4. Account'
  BY DEF Account, RefusedOnlyWhenSpent
<1>. QED
  BY <1>1, <1>2, <1>3, <1>4

LEMMA AllocateIInv == ASSUME IInv, NEW h \in Handles, NEW n \in Lengths, Allocate(h, n)
                      PROVE  IInv'
<1>. DEFINE new == [at |-> p_, length |-> n, handle |-> h]
<1>. USE SizeAssumption DEF Allocate, IInv
<1>1. new \in Block /\ End(new) = p_ + n /\ new.at = p_ /\ new.handle = h
  BY DEF TypeOK, Block, End
<1>2. \A b \in live : b.at \in Nat /\ b.length \in Nat \ {0}
  BY DEF TypeOK, Block
<1>3. TypeOK'
  BY <1>1 DEF TypeOK
<1>4. new \notin live
  BY <1>1, <1>2 DEF TypeOK, Pool, End
<1>5. Pool'
  <2>1. IsFiniteSet(live') /\ Cardinality(live') = Cardinality(live) + 1
    BY <1>4, FS_AddElement DEF Pool
  <2>2. \A b \in live' : End(b) <= p_'
    BY <1>1, <1>2 DEF TypeOK, Pool, End
  <2>. QED
    BY <2>1, <2>2 DEF Pool
<1>6. BlocksApart'
  BY <1>1, <1>2 DEF TypeOK, Pool, BlocksApart, End
<1>7. Counted'
  BY <1>1 DEF Counted
<1>8. Account'
  BY DEF Account, RefusedOnlyWhenSpent
<1>. QED
  BY <1>3, <1>5, <1>6, <1>7, <1>8

LEMMA DeallocateIInv == ASSUME IInv, NEW b \in live, Deallocate(b)
                        PROVE  IInv'
<1>. USE SizeAssumption DEF Deallocate, Returned, IInv
<1>1. IsFiniteSet(live') /\ Cardinality(live') = Cardinality(live) - 1
  BY FS_RemoveElement DEF Pool
<1>2. live' = {} <=> count_ - 1 = 0
  BY <1>1, FS_EmptySet DEF Pool
<1>3. count_' \in Nat
  BY <1>1, FS_CardinalityType DEF Pool
<1>4. TypeOK'
  BY <1>3 DEF TypeOK
<1>5. Pool'
  BY <1>1, <1>2 DEF Pool
<1>6. BlocksApart' /\ Counted'
  BY DEF BlocksApart, Counted
<1>7. Account'
  BY <1>2 DEF Account, RefusedOnlyWhenSpent
<1>. QED
  BY <1>4, <1>5, <1>6, <1>7

LEMMA StepIInv == IInv /\ [Next]_vars => IInv'
<1>. SUFFICES ASSUME IInv, [Next]_vars
              PROVE  IInv'
  OBVIOUS
<1>1. ASSUME NEW h \in Handles, NEW n \in Lengths, AllocateThrows(h, n)
      PROVE  IInv'
  BY <1>1, SizeAssumption DEF AllocateThrows, IInv, TypeOK, Pool, BlocksApart, Counted, Account,
                               RefusedOnlyWhenSpent
<1>2. CASE UNCHANGED vars
  BY <1>2 DEF vars, IInv, TypeOK, Pool, BlocksApart, Counted, Account, RefusedOnlyWhenSpent
<1>. QED
  BY <1>1, <1>2, CopyIInv, DestroyIInv, AllocateIInv, DeallocateIInv DEF Next

LEMMA Invariance == Spec => []IInv
BY InitIInv, StepIInv, PTL DEF Spec

\* Every variable keeps its type.
THEOREM AllocTypeTheorem == Spec => []TypeOK
BY Invariance, PTL DEF IInv

\* Live allocations never overlap and never leave the pool.
THEOREM ApartTheorem == Spec => []BlocksApart
BY Invariance, PTL DEF IInv

\* The pool is rewound exactly when it is empty.
THEOREM RewoundTheorem == Spec => []RewoundWhenEmpty
<1>1. IInv => RewoundWhenEmpty
  BY DEF IInv, TypeOK, Block, Pool, End, RewoundWhenEmpty
<1>. QED
  BY <1>1, Invariance, PTL

\* Every handle is counted, and the memory is never deleted, whatever handles come and go.
THEOREM MemoryTheorem == Spec => []MemoryStays
<1>1. IInv => MemoryStays
  BY DEF IInv, Counted, MemoryStays
<1>. QED
  BY <1>1, Invariance, PTL

\* Deallocation gives space back only all at once.
THEOREM AtOnceTheorem == Spec => SpaceReturnsAtOnce
<1>. DEFINE A == p_' < p_ => p_' = 0 /\ live' = {}
<1>1. ASSUME IInv, Next
      PROVE  A
  <2>1. ASSUME NEW h \in Handles, NEW n \in Lengths, Allocate(h, n)
        PROVE  A
    BY <1>1, <2>1, SizeAssumption DEF Allocate, IInv, TypeOK
  <2>2. ASSUME NEW b \in live, Deallocate(b)
        PROVE  A
    <3>1. IsFiniteSet(live') /\ Cardinality(live') = count_ - 1
      BY <1>1, <2>2, FS_RemoveElement DEF Deallocate, IInv, Pool
    <3>2. count_ - 1 = 0 => live' = {}
      BY <3>1, FS_EmptySet
    <3>. QED
      BY <1>1, <2>2, <3>2 DEF Deallocate, IInv, TypeOK
  <2>3. CASE UNCHANGED p_
    BY <1>1, <2>3 DEF IInv, TypeOK
  <2>. QED
    BY <1>1, <2>1, <2>2, <2>3 DEF Next, Copy, Destroy, AllocateThrows
<1>2. IInv /\ [Next]_vars => [A]_vars
  BY <1>1
<1>. QED
  BY <1>2, Invariance, PTL DEF Spec, SpaceReturnsAtOnce

\* Every refusal is one that the bytes handed out since the pool was last empty account for.
THEOREM SpentTheorem == Spec => []RefusedOnlyWhenSpent
<1>1. IInv => RefusedOnlyWhenSpent
  BY DEF IInv, Account
<1>. QED
  BY <1>1, Invariance, PTL
===============================================================================
