------------------------------ MODULE FieldsAlloc ------------------------------
(***************************************************************************)
(* The pool allocator of FieldsAlloc.hpp.  A static_pool is one block of   *)
(* memory out of which allocations are cut from front to back; the         *)
(* fields_alloc objects are handles that count themselves in the pool.     *)
(*                                                                         *)
(* The first handle makes the pool, every other is a copy of one, as each  *)
(* HTTP message has its own.  A container gives its allocations back to    *)
(* its own handle, and all of them before that handle is destroyed.        *)
(***************************************************************************)
EXTENDS Integers, FiniteSets

CONSTANTS
  Handles,  \* fields_alloc objects
  First,    \* the one that made the pool
  Size,     \* size_: the bytes of the pool
  Lengths   \* the bytes an allocation may ask for

ASSUME HandlesAssumption == IsFiniteSet(Handles) /\ First \in Handles
ASSUME SizeAssumption    == Size \in Nat \ {0} /\ Lengths \subseteq Nat \ {0}

VARIABLES
  p_,       \* static_pool::p_, as an offset into the pool
  count_,   \* static_pool::count_
  refs_,    \* static_pool::refs_
  handles,  \* the handles alive
  live,     \* the allocations not yet given back
  spent,    \* ghost: the bytes handed out since nothing was allocated
  refused,  \* the bytes the last call asked for in vain, 0 if it did not
  freed     \* has the pool's memory been deleted?

vars == <<p_, count_, refs_, handles, live, spent, refused, freed>>

Block   == [at : Nat, length : Nat \ {0}, handle : Handles]
End(b)  == b.at + b.length
Mine(h) == {b \in live : b.handle = h}

-----------------------------------------------------------------------------
\* Mutant: a copy of a handle is not counted.
Copy_Uncounted(h) ==
  /\ handles # {}
  /\ h \notin handles
  /\ handles' = handles \cup {h}
  /\ refused' = 0
  /\ UNCHANGED <<p_, count_, refs_, live, spent, freed>>

\* The copy constructors, with share.
Copy(h) ==
  /\ handles # {}
  /\ h \notin handles
  /\ handles' = handles \cup {h}
  /\ refs_' = refs_ + 1
  /\ refused' = 0
  /\ UNCHANGED <<p_, count_, live, spent, freed>>

\* The destructor, with destroy: refs_-- is the count before.
Destroy(h) ==
  /\ h \in handles
  /\ Mine(h) = {}
  /\ handles' = handles \ {h}
  /\ refs_' = refs_ - 1
  /\ freed' = (freed \/ refs_ = 0)
  /\ refused' = 0
  /\ UNCHANGED <<p_, count_, live, spent>>

\* Mutant: an allocation is not counted.
Allocate_Uncounted(h, n) ==
  /\ h \in handles
  /\ p_ + n < Size
  /\ p_' = p_ + n
  /\ live' = live \cup {[at |-> p_, length |-> n, handle |-> h]}
  /\ spent' = spent + n
  /\ refused' = 0
  /\ UNCHANGED <<count_, refs_, handles, freed>>

\* allocate and alloc.
Allocate(h, n) ==
  /\ h \in handles
  /\ p_ + n < Size
  /\ count_' = count_ + 1
  /\ p_' = p_ + n
  /\ live' = live \cup {[at |-> p_, length |-> n, handle |-> h]}
  /\ spent' = spent + n
  /\ refused' = 0
  /\ UNCHANGED <<refs_, handles, freed>>

\* The same when last >= end().
AllocateThrows(h, n) ==
  /\ h \in handles
  /\ p_ + n >= Size
  /\ refused' = n
  /\ UNCHANGED <<p_, count_, refs_, handles, live, spent, freed>>

\* What a deallocation is to the account.
Returned ==
  /\ spent' = IF live' = {} THEN 0 ELSE spent
  /\ refused' = 0

\* Mutant: p_ goes back with each block.
Deallocate_Eager(b) ==
  /\ b \in live
  /\ live' = live \ {b}
  /\ count_' = count_ - 1
  /\ p_' = b.at
  /\ Returned
  /\ UNCHANGED <<refs_, handles, freed>>

\* Mutant: p_ goes back to the start when one block is left.
Deallocate_Early(b) ==
  /\ b \in live
  /\ live' = live \ {b}
  /\ count_' = count_ - 1
  /\ p_' = IF count_ <= 2 THEN 0 ELSE p_
  /\ Returned
  /\ UNCHANGED <<refs_, handles, freed>>

\* Mutant: p_ never goes back.
Deallocate_Forgets(b) ==
  /\ b \in live
  /\ live' = live \ {b}
  /\ count_' = count_ - 1
  /\ Returned
  /\ UNCHANGED <<p_, refs_, handles, freed>>

\* deallocate and dealloc.
Deallocate(b) ==
  /\ b \in live
  /\ live' = live \ {b}
  /\ count_' = count_ - 1
  /\ p_' = IF count_ - 1 = 0 THEN 0 ELSE p_
  /\ Returned
  /\ UNCHANGED <<refs_, handles, freed>>

-----------------------------------------------------------------------------
\* The first handle has constructed the pool.
Init ==
  /\ p_ = 0
  /\ count_ = 0
  /\ refs_ = 1
  /\ handles = {First}
  /\ live = {}
  /\ spent = 0
  /\ refused = 0
  /\ freed = FALSE

Next ==
  \/ \E h \in Handles :
       \/ Copy(h) \/ Destroy(h)
       \/ \E n \in Lengths : Allocate(h, n) \/ AllocateThrows(h, n)
  \/ \E b \in live : Deallocate(b)

Spec == Init /\ [][Next]_vars

-----------------------------------------------------------------------------
\* Properties.

TypeOK ==
  /\ p_ \in Nat
  /\ count_ \in Nat
  /\ refs_ \in Nat
  /\ handles \subseteq Handles
  /\ live \subseteq Block
  /\ spent \in Nat
  /\ refused \in Nat
  /\ freed \in BOOLEAN

\* Whatever is allocated and given back in whatever order, no two live allocations share a byte,
\* and all are inside the pool (static_pool::alloc and dealloc).
BlocksApart ==
  /\ \A b \in live : End(b) < Size
  /\ \A a, b \in live : a = b \/ End(a) <= b.at \/ End(b) <= a.at

\* The pool can be used from its start again exactly when nothing is allocated: no sequence of
\* calls wears it out or rewinds it under a live allocation (static_pool::dealloc).
RewoundWhenEmpty == p_ = 0 <=> live = {}

\* The pool's memory stays while anything uses it, and for good: every handle is counted, and as
\* destroy compares the count before its decrement not even the last one, which leaves it at
\* zero, deletes the memory: a leak of one pool for each first handle (static_pool::share and
\* destroy).
MemoryStays ==
  /\ refs_ = Cardinality(handles)
  /\ ~ freed

\* "It does nothing in deallocate until all previously allocated blocks are deallocated": space
\* comes back only all at once.
SpaceReturnsAtOnce == [][p_' < p_ => p_' = 0 /\ live' = {}]_vars

\* An allocation is refused only when the bytes handed out since the pool was last empty leave
\* no more than it asks for: neither blocks given back in any order nor earlier refusals, of
\* whatever length and however often, cost the pool a byte (static_pool::alloc and dealloc).
RefusedOnlyWhenSpent == refused # 0 => spent + refused >= Size
===============================================================================
