----------------------------- MODULE PoolProofs -----------------------------
(***************************************************************************)
(* Proofs about Pool: its two lists stay well formed and implement the     *)
(* sequences of PoolSpec, for any number of blocks.                        *)
(***************************************************************************)
EXTENDS Pool, SequenceFacts, FiniteSetTheorems, TLAPS

(***************************************************************************)
(* The lists as predicates of the links, so that they can be stated of the *)
(* links after a step: following nx from head meets the n elements of S in *)
(* the order of the row s and ends, and following pv from the end meets    *)
(* them in the other direction.                                            *)
(***************************************************************************)
Row(S, s, n) ==
    /\ s \in [1..n -> S]
    /\ \A i, j \in 1..n : s[i] = s[j] => i = j
    /\ \A x \in S : \E i \in 1..n : s[i] = x

List(nx, S, s, n, head) ==
    /\ Row(S, s, n)
    /\ head = At(s, n, 1)
    /\ \A i \in 1..n : nx[s[i]] = At(s, n, i + 1)

Back(pv, s, n) == \A i \in 1..n : pv[s[i]] = At(s, n, i - 1)

\* The row s of n elements with e put before it, and without its k-th element.
Before(e, s, n) == [i \in 1..(n + 1) |-> IF i = 1 THEN e ELSE s[i - 1]]

Without(s, n, k) == [i \in 1..(n - 1) |-> IF i < k THEN s[i] ELSE s[i + 1]]

-----------------------------------------------------------------------------
(***************************************************************************)
(* Pushing a block on a list.                                              *)
(***************************************************************************)
LEMMA PushRow ==
    ASSUME NEW S, NEW s, NEW n \in Nat, Row(S, s, n), NEW e, e \notin S
    PROVE  Row(S \cup {e}, Before(e, s, n), n + 1)
  <1> DEFINE t == Before(e, s, n)
  <1>1. /\ t \in [1..(n + 1) -> S \cup {e}]
        /\ t[1] = e
        /\ \A i \in 1..n : t[i + 1] = s[i]
        /\ \A i \in 2..(n + 1) : t[i] = s[i - 1] /\ t[i] \in S
    BY DEF Before, Row
  <1> HIDE DEF t
  <1>2. ASSUME NEW i \in 1..(n + 1), NEW j \in 1..(n + 1), t[i] = t[j]
        PROVE  i = j
    <2>1. i = 1 \/ i \in 2..(n + 1)
      OBVIOUS
    <2>2. j = 1 \/ j \in 2..(n + 1)
      OBVIOUS
    <2>3. i = 1 <=> j = 1
      BY <1>1, <1>2, <2>1, <2>2
    <2>4. CASE i # 1
      <3>1. s[i - 1] = s[j - 1] /\ i - 1 \in 1..n /\ j - 1 \in 1..n
        BY <1>1, <1>2, <2>1, <2>2, <2>3, <2>4
      <3> QED
        BY <3>1 DEF Row
    <2> QED
      BY <2>3, <2>4
  <1>3. ASSUME NEW x \in S \cup {e}
        PROVE  \E i \in 1..(n + 1) : t[i] = x
    <2>1. CASE x = e
      BY <1>1, <2>1
    <2>2. CASE x \in S
      <3>1. PICK i \in 1..n : s[i] = x
        BY <2>2 DEF Row
      <3> QED
        BY <1>1, <3>1
    <2> QED
      BY <2>1, <2>2
  <1> QED
    BY <1>1, <1>2, <1>3 DEF Row, t

\* The links of a list with a block put before it.
LEMMA PushList ==
    ASSUME NEW S, NEW s, NEW n \in Nat, NEW nx, NEW head,
           List(nx, S, s, n, head), NEW e, e \notin S,
           NEW ny, ny[e] = head, \A x \in S : ny[x] = nx[x]
    PROVE  List(ny, S \cup {e}, Before(e, s, n), n + 1, e)
  <1> DEFINE t == Before(e, s, n)
  <1>1. Row(S \cup {e}, t, n + 1)
    BY PushRow DEF List
  <1>2. t[1] = e /\ \A i \in 2..(n + 1) : t[i] = s[i - 1] /\ t[i] \in S
    BY DEF Before, Row, List
  <1>3. e = At(t, n + 1, 1)
    BY <1>2 DEF At
  <1> HIDE DEF t
  <1>4. ASSUME NEW i \in 1..(n + 1)
        PROVE  ny[t[i]] = At(t, n + 1, i + 1)
    <2>1. CASE i = 1
      <3>1. At(t, n + 1, 2) = At(s, n, 1)
        BY <1>2 DEF At
      <3> QED
        BY <1>2, <2>1, <3>1 DEF List
    <2>2. CASE i # 1
      <3>1. i \in 2..(n + 1) /\ i - 1 \in 1..n
        BY <2>2
      <3>2. ny[t[i]] = At(s, n, i - 1 + 1)
        BY <1>2, <3>1 DEF List
      <3>3. At(t, n + 1, i + 1) = At(s, n, i)
        BY <1>2, <3>1 DEF At
      <3> QED
        BY <3>2, <3>3
    <2> QED
      BY <2>1, <2>2
  <1> QED
    BY <1>1, <1>3, <1>4 DEF List, t

\* The backward links of a list with a block put before it.
LEMMA PushBack ==
    ASSUME NEW S, NEW s, NEW n \in Nat, NEW pv, Row(S, s, n), Back(pv, s, n),
           NEW e, e \notin S, NEW pw, pw[e] = NULL,
           \A i \in 1..n : pw[s[i]] = IF i = 1 THEN e ELSE pv[s[i]]
    PROVE  Back(pw, Before(e, s, n), n + 1)
  <1> DEFINE t == Before(e, s, n)
  <1>1. t[1] = e /\ \A i \in 2..(n + 1) : t[i] = s[i - 1]
    BY DEF Before
  <1> HIDE DEF t
  <1>2. ASSUME NEW i \in 1..(n + 1)
        PROVE  pw[t[i]] = At(t, n + 1, i - 1)
    <2>1. CASE i = 1
      BY <1>1, <2>1 DEF At
    <2>2. CASE i = 2
      BY <1>1, <2>2 DEF At
    <2>3. CASE i > 2
      <3>1. i - 1 \in 1..n /\ i - 1 # 1 /\ i \in 2..(n + 1)
            /\ i - 2 \in 1..n /\ i - 1 \in 2..(n + 1) /\ i - 1 \in 1..(n + 1)
        BY <2>3
      <3>2. pw[t[i]] = At(s, n, i - 1 - 1)
        BY <1>1, <3>1 DEF Back
      <3>3. At(t, n + 1, i - 1) = s[i - 1 - 1]
        BY <1>1, <3>1 DEF At
      <3> QED
        BY <3>1, <3>2, <3>3 DEF At
    <2> QED
      BY <2>1, <2>2, <2>3
  <1> QED
    BY <1>2 DEF Back, t

-----------------------------------------------------------------------------
(***************************************************************************)
(* Taking a block out of a list, wherever it is.                           *)
(***************************************************************************)
LEMMA RemoveRow ==
    ASSUME NEW S, NEW s, NEW n \in Nat, Row(S, s, n), NEW k \in 1..n
    PROVE  Row(S \ {s[k]}, Without(s, n, k), n - 1)
  <1> DEFINE t == Without(s, n, k)
  <1>1. \A i \in 1..(n - 1) :
            /\ t[i] = IF i < k THEN s[i] ELSE s[i + 1]
            /\ i \in 1..n /\ i + 1 \in 1..n
    BY DEF Without
  <1>2. \A i \in 1..(n - 1) : t[i] \in S \ {s[k]}
    BY <1>1 DEF Row
  <1>3. t \in [1..(n - 1) -> S \ {s[k]}]
    BY <1>2 DEF Without
  <1> HIDE DEF t
  <1>4. \A i, j \in 1..(n - 1) : t[i] = t[j] => i = j
    BY <1>1 DEF Row
  <1>5. ASSUME NEW x \in S \ {s[k]}
        PROVE  \E i \in 1..(n - 1) : t[i] = x
    <2>1. PICK i \in 1..n : s[i] = x
      BY DEF Row
    <2>2. i # k
      BY <2>1
    <2>3. CASE i < k
      BY <1>1, <2>1, <2>3
    <2>4. CASE i > k
      <3>1. i - 1 \in 1..(n - 1) /\ ~(i - 1 < k) /\ i - 1 + 1 = i
        BY <2>4
      <3> QED
        BY <1>1, <2>1, <3>1
    <2> QED
      BY <2>2, <2>3, <2>4
  <1> QED
    BY <1>3, <1>4, <1>5 DEF Row, t

\* The links of the blocks around the one that leaves lead past it.
LEMMA RemoveList ==
    ASSUME NEW S, NEW s, NEW n \in Nat, NEW nx, NEW head,
           List(nx, S, s, n, head), NEW k \in 1..n, NEW ny,
           \A i \in 1..n : i # k =>
              ny[s[i]] = IF i = k - 1 THEN nx[s[k]] ELSE nx[s[i]]
    PROVE  List(ny, S \ {s[k]}, Without(s, n, k), n - 1,
                IF k = 1 THEN nx[s[k]] ELSE head)
  <1> DEFINE t == Without(s, n, k)
  <1>1. Row(S \ {s[k]}, t, n - 1)
    BY RemoveRow DEF List
  <1>2. \A i \in 1..(n - 1) :
            /\ t[i] = IF i < k THEN s[i] ELSE s[i + 1]
            /\ i \in 1..n /\ i + 1 \in 1..n
    BY DEF Without
  <1> HIDE DEF t
  <1>3. (IF k = 1 THEN nx[s[k]] ELSE head) = At(t, n - 1, 1)
    <2>1. CASE k = 1
      BY <1>2, <2>1 DEF List, At
    <2>2. CASE k # 1
      <3>1. 1 \in 1..(n - 1) /\ 1 < k /\ 1 \in 1..n
        BY <2>2
      <3> QED
        BY <1>2, <2>2, <3>1 DEF List, At
    <2> QED
      BY <2>1, <2>2
  <1>4. ASSUME NEW i \in 1..(n - 1)
        PROVE  ny[t[i]] = At(t, n - 1, i + 1)
    <2>1. CASE i + 1 < k
      <3>1. i \in 1..n /\ i # k /\ i # k - 1 /\ i < k /\ i + 1 \in 1..(n - 1)
            /\ i + 1 \in 1..n
        BY <2>1
      <3>2. ny[t[i]] = s[i + 1]
        BY <1>2, <3>1 DEF List, At
      <3> QED
        BY <1>2, <2>1, <3>1, <3>2 DEF At
    <2>2. CASE i + 1 = k
      <3>1. i \in 1..n /\ i # k /\ i = k - 1 /\ i < k
        BY <2>2
      <3>2. ny[t[i]] = At(s, n, k + 1)
        BY <1>2, <3>1 DEF List
      <3>3. At(t, n - 1, i + 1) = At(s, n, k + 1)
        BY <1>2, <2>2 DEF At
      <3> QED
        BY <3>2, <3>3
    <2>3. CASE i + 1 > k
      <3>1. i + 1 \in 1..n /\ i + 1 # k /\ i + 1 # k - 1 /\ ~(i < k)
            /\ ~(i + 1 < k)
        BY <2>3
      <3>2. ny[t[i]] = At(s, n, i + 2)
        BY <1>2, <3>1 DEF List
      <3>3. At(t, n - 1, i + 1) = At(s, n, i + 2)
        BY <1>2, <3>1 DEF At
      <3> QED
        BY <3>2, <3>3
    <2> QED
      BY <2>1, <2>2, <2>3
  <1> QED
    BY <1>1, <1>3, <1>4 DEF List, t

\* The backward links of the blocks around the one that leaves.
LEMMA RemoveBack ==
    ASSUME NEW S, NEW s, NEW n \in Nat, NEW pv, Row(S, s, n), Back(pv, s, n),
           NEW k \in 1..n, NEW pw,
           \A i \in 1..n : i # k =>
              pw[s[i]] = IF i = k + 1 THEN pv[s[k]] ELSE pv[s[i]]
    PROVE  Back(pw, Without(s, n, k), n - 1)
  <1> DEFINE t == Without(s, n, k)
  <1>1. \A i \in 1..(n - 1) :
            /\ t[i] = IF i < k THEN s[i] ELSE s[i + 1]
            /\ i \in 1..n /\ i + 1 \in 1..n
    BY DEF Without
  <1> HIDE DEF t
  <1>2. ASSUME NEW i \in 1..(n - 1)
        PROVE  pw[t[i]] = At(t, n - 1, i - 1)
    <2>1. CASE i < k
      <3>1. i \in 1..n /\ i # k /\ i # k + 1
        BY <2>1
      <3>2. pw[t[i]] = At(s, n, i - 1)
        BY <1>1, <2>1, <3>1 DEF Back
      <3>3. At(t, n - 1, i - 1) = At(s, n, i - 1)
        BY <1>1, <2>1 DEF At
      <3> QED
        BY <3>2, <3>3
    <2>2. CASE i = k
      <3>1. i + 1 \in 1..n /\ i + 1 # k /\ i + 1 = k + 1 /\ ~(i < k)
        BY <2>2
      <3>2. pw[t[i]] = At(s, n, k - 1)
        BY <1>1, <3>1 DEF Back
      <3>3. At(t, n - 1, i - 1) = At(s, n, k - 1)
        BY <1>1, <2>2 DEF At
      <3> QED
        BY <3>2, <3>3
    <2>3. CASE i > k
      <3>1. i + 1 \in 1..n /\ i + 1 # k /\ i + 1 # k + 1 /\ ~(i < k)
            /\ ~(i - 1 < k) /\ i - 1 \in 1..(n - 1)
        BY <2>3
      <3>2. pw[t[i]] = At(s, n, i)
        BY <1>1, <3>1 DEF Back
      <3>3. At(t, n - 1, i - 1) = At(s, n, i)
        BY <1>1, <3>1 DEF At
      <3> QED
        BY <3>2, <3>3
    <2> QED
      BY <2>1, <2>2, <2>3
  <1> QED
    BY <1>2 DEF Back, t

-----------------------------------------------------------------------------
(***************************************************************************)
(* The invariant: types, and the two lists.                                *)
(***************************************************************************)
PInv == TypeOK /\ ListsWellFormed

Lists(s, n, f, m) ==
    /\ List(next, held, s, n, allocated_items)
    /\ Back(prev, s, n)
    /\ List(next, malloced \ held, f, m, free_items)

\* The blocks in use and the free ones are finitely many.
LEMMA Finite ==
    ASSUME TypeOK
    PROVE  /\ IsFiniteSet(held) /\ Cardinality(held) \in Nat
           /\ IsFiniteSet(malloced \ held)
           /\ Cardinality(malloced \ held) \in Nat
           /\ held \subseteq Ents /\ malloced \ held \subseteq Ents
  <1>1. held \in SUBSET Ents /\ (malloced \ held) \in SUBSET Ents
    BY DEF TypeOK
  <1>2. IsFiniteSet(held) /\ IsFiniteSet(malloced \ held)
    BY <1>1, FS_Subset, PoolAssumption
  <1> QED
    BY <1>1, <1>2, FS_CardinalityType

\* The two rows of blocks that the invariant says there are.
LEMMA ListsOfInv ==
    ASSUME PInv
    PROVE  \E s, f : Lists(s, num_items, f, Cardinality(malloced \ held))
  <1>1. PICK s \in Rows(held) :
            /\ IsChain(s, num_items, allocated_items)
            /\ IsBackChain(s, num_items)
    BY DEF PInv, ListsWellFormed, AllocatedListHoldsHeld
  <1>2. PICK f \in Rows(malloced \ held) :
            IsChain(f, Cardinality(malloced \ held), free_items)
    BY DEF PInv, ListsWellFormed, FreeListHoldsReleased
  <1>3. Row(held, s, num_items)
    BY DEF PInv, ListsWellFormed, Rows, Row
  <1>4. Row(malloced \ held, f, Cardinality(malloced \ held))
    BY DEF Rows, Row
  <1> QED
    BY <1>1, <1>2, <1>3, <1>4 DEF Lists, List, Back, IsChain, IsBackChain

\* The rows after a step.
ListsAfter(s, f) ==
    /\ TypeOK'
    /\ num_items' = Cardinality(held')
    /\ List(next', held', s, num_items', allocated_items')
    /\ Back(prev', s, num_items')
    /\ List(next', malloced' \ held', f, Cardinality(malloced' \ held'), free_items')

\* Two rows after a step give the invariant after it.
LEMMA InvOfLists ==
    ASSUME NEW s, NEW f, ListsAfter(s, f)
    PROVE  PInv'
  <1>1. s \in Rows(held') /\ f \in Rows(malloced' \ held')
    BY DEF ListsAfter, List, Row, Rows
  <1>2. /\ IsChain(s, Cardinality(held), allocated_items)'
        /\ IsBackChain(s, Cardinality(held))'
        /\ IsChain(f, Cardinality(malloced \ held), free_items)'
    BY DEF ListsAfter, List, Back, IsChain, IsBackChain
  <1> QED
    BY <1>1, <1>2
       DEF PInv, ListsWellFormed, AllocatedListHoldsHeld, FreeListHoldsReleased, ListsAfter

\* A pool that has just been made has no blocks.
LEMMA InitPInv == Init => PInv
  <1> SUFFICES ASSUME Init PROVE PInv
    OBVIOUS
  <1>1. TypeOK
    BY DEF Init, TypeOK, Ptr
  <1>2. /\ held = {} /\ malloced \ held = {} /\ num_items = 0
        /\ allocated_items = NULL /\ free_items = NULL
        /\ Cardinality({}) = 0
    BY FS_EmptySet DEF Init
  <1>3. \A s : s \in [1..0 -> {}] => s \in Rows({})
    BY <1>2 DEF Rows
  <1>4. PICK s : s \in [1..0 -> {}]
    <2>1. [i \in 1..0 |-> i] \in [1..0 -> {}]
      OBVIOUS
    <2> QED
      BY <2>1
  <1>5. /\ IsChain(s, 0, NULL) /\ IsBackChain(s, 0)
    BY DEF IsChain, IsBackChain, At
  <1> QED
    BY <1>1, <1>2, <1>3, <1>4, <1>5
       DEF PInv, ListsWellFormed, AllocatedListHoldsHeld, FreeListHoldsReleased

(***************************************************************************)
(* GaPool_GET puts a block that is not in use on the allocated list.       *)
(***************************************************************************)
LEMMA PushAllocatedInv ==
    ASSUME PInv, NEW s, NEW f, NEW e \in Ents, e \notin held,
           List(next, held, s, num_items, allocated_items),
           Back(prev, s, num_items), PushAllocated(e)
    PROVE  /\ List(next', held', Before(e, s, num_items), num_items',
                   allocated_items')
           /\ Back(prev', Before(e, s, num_items), num_items')
           /\ num_items' = Cardinality(held')
           /\ next' \in [Ents -> Ptr] /\ prev' \in [Ents -> Ptr]
           /\ allocated_items' \in Ptr /\ num_items' \in Nat
           /\ \A x \in Ents : x # e => next'[x] = next[x]
  <1>1. /\ TypeOK /\ num_items \in Nat /\ num_items = Cardinality(held)
        /\ held \subseteq Ents /\ IsFiniteSet(held)
    BY Finite DEF PInv, TypeOK, ListsWellFormed
  <1>2. /\ next' = [next EXCEPT ![e] = allocated_items]
        /\ allocated_items' = e /\ num_items' = num_items + 1
        /\ held' = held \cup {e} /\ prev' = PrevAfterGet(e)
    BY DEF PushAllocated
  <1>3. /\ next \in [Ents -> Ptr] /\ prev \in [Ents -> Ptr]
        /\ allocated_items \in Ptr
    BY <1>1 DEF TypeOK
  <1>4. next'[e] = allocated_items /\ \A x \in Ents : x # e => next'[x] = next[x]
    BY <1>2, <1>3
  <1>5. List(next', held \cup {e}, Before(e, s, num_items), num_items + 1, e)
    BY <1>1, <1>4, PushList
  <1>6. allocated_items = At(s, num_items, 1)
    BY DEF List
  <1>7. /\ prev'[e] = NULL
        /\ \A i \in 1..num_items :
                prev'[s[i]] = IF i = 1 THEN e ELSE prev[s[i]]
    <2>1. CASE num_items = 0
      BY <1>1, <1>2, <1>3, <1>6, <2>1 DEF PrevAfterGet, At
    <2>2. CASE num_items # 0
      <3>1. 1 \in 1..num_items /\ allocated_items = s[1]
        BY <1>1, <1>6, <2>2 DEF At
      <3>2. /\ \A i \in 1..num_items : s[i] \in held /\ s[i] \in Ents
            /\ \A i \in 1..num_items : s[i] = s[1] => i = 1
        BY <1>1, <3>1 DEF List, Row
      <3>3. allocated_items # NULL
        BY <3>1, <3>2, PoolAssumption
      <3>4. prev' = [prev EXCEPT ![e] = NULL, ![allocated_items] = e]
        BY <1>2, <3>3 DEF PrevAfterGet
      <3>5. allocated_items \in Ents /\ allocated_items # e
        BY <3>1, <3>2
      <3>6. /\ prev'[e] = NULL /\ prev'[allocated_items] = e
            /\ \A x \in Ents : x # e /\ x # allocated_items
                                => prev'[x] = prev[x]
        BY <1>3, <3>4, <3>5
      <3> QED
        BY <3>1, <3>2, <3>6
    <2> QED
      BY <2>1, <2>2
  <1>8. Back(prev', Before(e, s, num_items), num_items + 1)
    <2>1. Row(held, s, num_items)
      BY DEF List
    <2> QED
      BY <1>1, <1>7, <2>1, PushBack
  <1>9. num_items' = Cardinality(held')
    BY <1>1, <1>2, FS_AddElement
  <1>10. next' \in [Ents -> Ptr] /\ prev' \in [Ents -> Ptr]
    <2>1. e \in Ptr /\ NULL \in Ptr
      BY DEF Ptr
    <2> QED
      BY <1>2, <1>3, <2>1 DEF PrevAfterGet
  <1> QED
    BY <1>1, <1>2, <1>4, <1>5, <1>8, <1>9, <1>10 DEF Ptr

\* The first free block becomes the first allocated one.
LEMMA GetFreeRows ==
    ASSUME PInv, GetFree, NEW s, NEW f,
           Lists(s, num_items, f, Cardinality(malloced \ held))
    PROVE  /\ Cardinality(malloced \ held) # 0
           /\ ListsAfter(Before(f[1], s, num_items),
                         Without(f, Cardinality(malloced \ held), 1))
  <1> DEFINE R == malloced \ held
             m == Cardinality(R)
             e == free_items
  <1>1. TypeOK /\ IsFiniteSet(R) /\ m \in Nat /\ R \subseteq Ents
    BY Finite DEF PInv
  <1>2. Lists(s, num_items, f, m)
    OBVIOUS
  <1>3. m # 0 /\ 1 \in 1..m /\ e = f[1] /\ e \in R
    <2>1. e # NULL /\ e = At(f, m, 1) /\ f \in [1..m -> R]
      BY <1>2 DEF GetFree, Lists, List, Row
    <2> HIDE DEF e, m, R
    <2>2. 1 \in 1..m
      BY <2>1 DEF At
    <2> QED
      BY <1>1, <2>1, <2>2 DEF At
  <1>4. /\ PushAllocated(e) /\ free_items' = next[e] /\ malloced' = malloced
        /\ e \in Ents /\ e \notin held
    BY <1>1, <1>3 DEF GetFree
  <1>5. /\ List(next', held', Before(e, s, num_items), num_items',
                allocated_items')
        /\ Back(prev', Before(e, s, num_items), num_items')
        /\ num_items' = Cardinality(held')
        /\ next' \in [Ents -> Ptr] /\ prev' \in [Ents -> Ptr]
        /\ allocated_items' \in Ptr /\ num_items' \in Nat
        /\ \A x \in Ents : x # e => next'[x] = next[x]
    BY <1>2, <1>4, PushAllocatedInv DEF Lists
  <1>6. malloced' \ held' = R \ {e} /\ held' \subseteq malloced'
    BY <1>1, <1>3, <1>4 DEF PushAllocated, TypeOK
  <1>7. Cardinality(R \ {e}) = m - 1
    BY <1>1, <1>3, FS_RemoveElement
  <1>8. List(next', R \ {e}, Without(f, m, 1), m - 1, next[e])
    <2>1. List(next, R, f, m, free_items)
      BY <1>2 DEF Lists
    <2> HIDE DEF R, m, e
    <2>2. \A i \in 1..m : i # 1 => next'[f[i]] = next[f[i]]
      <3>1. \A i \in 1..m : f[i] \in Ents /\ (f[i] = f[1] => i = 1)
        BY <1>1, <1>3, <2>1 DEF List, Row
      <3> QED
        BY <1>3, <1>5, <3>1
    <2>3. \A i \in 1..m : i # 1 =>
            next'[f[i]] = IF i = 1 - 1 THEN next[f[1]] ELSE next[f[i]]
      BY <2>2
    <2>4. List(next', R \ {f[1]}, Without(f, m, 1), m - 1,
               IF 1 = 1 THEN next[f[1]] ELSE free_items)
      BY <1>1, <1>3, <2>1, <2>3, RemoveList
    <2> QED
      BY <1>3, <2>4
  <1>9. TypeOK'
    <2>1. next[e] \in Ptr
      BY <1>1, <1>4 DEF TypeOK
    <2>2. malloced' \subseteq Ents
      BY <1>1, <1>4 DEF TypeOK
    <2> QED
      BY <1>4, <1>5, <1>6, <2>1, <2>2 DEF TypeOK
  <1>10. List(next', malloced' \ held', Without(f, m, 1),
              Cardinality(malloced' \ held'), free_items')
    BY <1>4, <1>6, <1>7, <1>8
  <1> QED
    BY <1>3, <1>5, <1>9, <1>10 DEF ListsAfter

\* A new block becomes the first allocated one.
LEMMA GetFreshRows ==
    ASSUME PInv, NEW e \in Ents, GetFresh(e), NEW s, NEW f,
           Lists(s, num_items, f, Cardinality(malloced \ held))
    PROVE  /\ ListsAfter(Before(e, s, num_items), f)
           /\ malloced' \ held' = malloced \ held /\ e \notin held
  <1>1. TypeOK /\ Cardinality(malloced \ held) \in Nat
    BY Finite DEF PInv
  <1>2. Lists(s, num_items, f, Cardinality(malloced \ held))
    OBVIOUS
  <1>3. /\ PushAllocated(e) /\ free_items' = free_items
        /\ malloced' = malloced \cup {e} /\ e \notin malloced /\ e \notin held
    BY <1>1 DEF GetFresh, TypeOK
  <1>4. /\ List(next', held', Before(e, s, num_items), num_items',
                allocated_items')
        /\ Back(prev', Before(e, s, num_items), num_items')
        /\ num_items' = Cardinality(held')
        /\ next' \in [Ents -> Ptr] /\ prev' \in [Ents -> Ptr]
        /\ allocated_items' \in Ptr /\ num_items' \in Nat
        /\ \A x \in Ents : x # e => next'[x] = next[x]
    BY <1>2, <1>3, PushAllocatedInv DEF Lists
  <1>5. malloced' \ held' = malloced \ held /\ held' \subseteq malloced'
    BY <1>1, <1>3 DEF PushAllocated, TypeOK
  <1>6. List(next', malloced \ held, f, Cardinality(malloced \ held), free_items)
    <2>1. \A x \in malloced \ held : next'[x] = next[x]
      BY <1>1, <1>3, <1>4 DEF TypeOK
    <2> QED
      BY <1>2, <2>1 DEF Lists, List, Row
  <1>7. TypeOK'
    BY <1>1, <1>3, <1>4, <1>5 DEF TypeOK
  <1>8. List(next', malloced' \ held', f, Cardinality(malloced' \ held'),
             free_items')
    BY <1>3, <1>5, <1>6
  <1> QED
    BY <1>3, <1>4, <1>5, <1>7, <1>8 DEF ListsAfter

(***************************************************************************)
(* GaPool_PUT takes a block out of the allocated list, wherever it is, and *)
(* puts it on the free list.                                               *)
(***************************************************************************)
LEMMA PutRows ==
    ASSUME PInv, NEW e \in Ents, Put(e), NEW s, NEW f,
           Lists(s, num_items, f, Cardinality(malloced \ held)),
           NEW k \in 1..num_items, s[k] = e
    PROVE  ListsAfter(Without(s, num_items, k), Before(e, f, Cardinality(malloced \ held)))
  <1> DEFINE R == malloced \ held
             m == Cardinality(R)
             n == num_items
  <1>1. /\ TypeOK /\ m \in Nat /\ R \subseteq Ents /\ IsFiniteSet(R)
        /\ n \in Nat /\ n = Cardinality(held)
        /\ IsFiniteSet(held) /\ held \subseteq Ents
    BY Finite DEF PInv, TypeOK, ListsWellFormed
  <1>2. Lists(s, n, f, m)
    OBVIOUS
  <1>3. e \in held /\ Release(e)
    BY DEF Put
  <1>4. k \in 1..n /\ s[k] = e
    OBVIOUS
  <1>5. /\ next \in [Ents -> Ptr] /\ prev \in [Ents -> Ptr]
        /\ free_items \in Ptr /\ allocated_items \in Ptr
    BY <1>1 DEF TypeOK
  <1>6. /\ Row(held, s, n) /\ Back(prev, s, n)
        /\ List(next, held, s, n, allocated_items)
        /\ List(next, R, f, m, free_items)
    BY <1>2 DEF Lists, List
  <1> HIDE DEF R, m, n
  <1>7. /\ \A i \in 1..n : s[i] \in held /\ s[i] \in Ents /\ s[i] # NULL
        /\ \A i, j \in 1..n : s[i] = s[j] => i = j
    BY <1>1, <1>6, PoolAssumption DEF Row
  <1>8. /\ next[e] = At(s, n, k + 1) /\ prev[e] = At(s, n, k - 1)
        /\ allocated_items = At(s, n, 1)
    BY <1>4, <1>6 DEF List, Back
  \* What the two assignments to links of other blocks do.
  <1>9. /\ next' \in [Ents -> Ptr] /\ next'[e] = free_items
        /\ \A i \in 1..n : i # k =>
              next'[s[i]] = IF i = k - 1 THEN next[s[k]] ELSE next[s[i]]
        /\ \A x \in R : next'[x] = next[x]
    <2>1. CASE k = 1
      <3>1. prev[e] = NULL /\ next' = [next EXCEPT ![e] = free_items]
        BY <1>3, <1>8, <2>1 DEF At, Release
      <3>2. \A i \in 1..n : i # k => s[i] # e /\ i # k - 1
        BY <1>4, <1>7, <2>1
      <3>3. \A x \in R : x # e /\ x \in Ents
        BY <1>1, <1>3 DEF R
      <3> QED
        BY <1>5, <1>7, <3>1, <3>2, <3>3
    <2>2. CASE k # 1
      <3> DEFINE p == s[k - 1]
      <3>1. k - 1 \in 1..n /\ p \in held /\ p \in Ents /\ p # NULL
        BY <1>1, <1>4, <1>7, <2>2
      <3>2. prev[e] = p
        BY <1>8, <3>1 DEF At
      <3>3. next' = [next EXCEPT ![p] = next[e], ![e] = free_items]
        BY <1>3, <3>1, <3>2 DEF Release
      <3>4. \A i \in 1..n : /\ i # k => s[i] # e
                            /\ i # k - 1 => s[i] # p
        BY <1>4, <1>7, <3>1
      <3>5. k - 1 # k /\ p # e
        BY <1>1, <3>1, <3>4
      <3>6. next[e] \in Ptr
        BY <1>5
      <3>7. /\ next' \in [Ents -> Ptr] /\ next'[e] = free_items
            /\ next'[p] = next[e]
            /\ \A x \in Ents : x # p /\ x # e => next'[x] = next[x]
        <4> HIDE DEF p
        <4> QED
          BY <1>5, <3>1, <3>3, <3>5, <3>6
      <3>8. \A x \in R : x # e /\ x # p /\ x \in Ents
        BY <1>1, <1>3, <3>1 DEF R
      <3> QED
        BY <1>4, <1>7, <3>4, <3>7, <3>8
    <2> QED
      BY <2>1, <2>2
  <1>10. /\ prev' \in [Ents -> Ptr]
         /\ \A i \in 1..n : i # k =>
              prev'[s[i]] = IF i = k + 1 THEN prev[s[k]] ELSE prev[s[i]]
    <2>1. CASE k = n
      <3>1. next[e] = NULL
        BY <1>1, <1>8, <2>1 DEF At
      <3>2. prev' = prev
        BY <1>3, <3>1 DEF Release
      <3>3. \A i \in 1..n : i # k + 1
        BY <1>1, <2>1
      <3> QED
        BY <1>5, <3>2, <3>3
    <2>2. CASE k # n
      <3> DEFINE q == s[k + 1]
      <3>1. k + 1 \in 1..n /\ q \in held /\ q \in Ents /\ q # NULL
        BY <1>1, <1>4, <1>7, <2>2
      <3>2. next[e] = q
        BY <1>8, <3>1 DEF At
      <3>3. prev' = [prev EXCEPT ![q] = prev[e]]
        BY <1>3, <3>1, <3>2 DEF Release
      <3>4. \A i \in 1..n : i # k + 1 => s[i] # q
        BY <1>7, <3>1
      <3>5. prev[e] \in Ptr
        BY <1>5
      <3> HIDE DEF q
      <3>6. /\ prev' \in [Ents -> Ptr] /\ prev'[q] = prev[e]
            /\ \A x \in Ents : x # q => prev'[x] = prev[x]
        BY <1>5, <3>1, <3>3, <3>5
      <3> QED
        BY <1>4, <1>7, <3>4, <3>6 DEF q
    <2> QED
      BY <2>1, <2>2
  <1>11. /\ held' = held \ {e} /\ malloced' = malloced /\ free_items' = e
         /\ num_items' = n - 1 /\ malloced' \ held' = R \cup {e}
    BY <1>1, <1>3 DEF Release, R, n, TypeOK
  <1>12. allocated_items' = IF k = 1 THEN next[s[k]] ELSE allocated_items
    <2>1. 1 \in 1..n
      BY <1>1, <1>4
    <2>2. e = allocated_items <=> k = 1
      BY <1>4, <1>7, <1>8, <2>1 DEF At
    <2> QED
      BY <1>3, <1>4, <2>2 DEF Release, HeadAfterPut
  <1>13. List(next', held', Without(s, n, k), num_items', allocated_items')
    <2>1. \A i \in 1..n : i # k =>
            next'[s[i]] = IF i = k - 1 THEN next[s[k]] ELSE next[s[i]]
      BY <1>9
    <2>2. List(next', held \ {s[k]}, Without(s, n, k), n - 1,
               IF k = 1 THEN next[s[k]] ELSE allocated_items)
      BY <1>1, <1>4, <1>6, <2>1, RemoveList
    <2> QED
      BY <1>4, <1>11, <1>12, <2>2
  <1>14. Back(prev', Without(s, n, k), num_items')
    <2>1. \A i \in 1..n : i # k =>
            prev'[s[i]] = IF i = k + 1 THEN prev[s[k]] ELSE prev[s[i]]
      BY <1>10
    <2>2. Back(prev', Without(s, n, k), n - 1)
      BY <1>1, <1>4, <1>6, <2>1, RemoveBack
    <2> QED
      BY <1>11, <2>2
  <1>15. e \notin R
    BY <1>3 DEF R
  <1>16. List(next', R \cup {e}, Before(e, f, m), m + 1, e)
    BY <1>1, <1>6, <1>9, <1>15, PushList
  <1>17. Cardinality(R \cup {e}) = m + 1
    BY <1>1, <1>15, FS_AddElement DEF m
  <1>18. num_items' = Cardinality(held') /\ num_items' \in Nat
    <2>1. Cardinality(held \ {e}) = Cardinality(held) - 1
      BY <1>1, <1>3, FS_RemoveElement
    <2>2. n \in Nat /\ n # 0
      BY <1>1, <1>4
    <2>3. n - 1 \in Nat
      BY <2>2
    <2> QED
      BY <1>1, <1>11, <2>1, <2>3
  <1>19. TypeOK'
    <2>1. next[s[k]] \in Ptr /\ e \in Ptr
      BY <1>4, <1>5 DEF Ptr
    <2>2. held' \subseteq malloced' /\ malloced' \subseteq Ents
      BY <1>1, <1>11 DEF TypeOK
    <2> QED
      BY <1>5, <1>9, <1>10, <1>11, <1>12, <1>18, <2>1, <2>2 DEF TypeOK
  <1>20. ListsAfter(Without(s, n, k), Before(e, f, m))
    BY <1>11, <1>13, <1>14, <1>16, <1>17, <1>18, <1>19 DEF ListsAfter
  <1> QED
    BY <1>20 DEF n, m, R

\* The invariant is inductive.
LEMMA NextPInv == PInv /\ [Next]_vars => PInv'
  <1> SUFFICES ASSUME PInv, [Next]_vars PROVE PInv'
    OBVIOUS
  <1> DEFINE m == Cardinality(malloced \ held)
  <1>0. PICK s, f : Lists(s, num_items, f, m)
    BY ListsOfInv
  <1>1. CASE GetFree
    BY <1>0, <1>1, GetFreeRows, InvOfLists
  <1>2. ASSUME NEW e \in Ents, GetFresh(e) PROVE PInv'
    BY <1>0, <1>2, GetFreshRows, InvOfLists
  <1>3. ASSUME NEW e \in Ents, Put(e) PROVE PInv'
    <2>1. PICK k \in 1..num_items : s[k] = e
      BY <1>0, <1>3 DEF Put, Lists, List, Row
    <2> QED
      BY <1>0, <1>3, <2>1, PutRows, InvOfLists
  <1>4. CASE UNCHANGED vars
    <2>1. /\ next' = next /\ prev' = prev /\ free_items' = free_items
          /\ allocated_items' = allocated_items /\ num_items' = num_items
          /\ malloced' = malloced /\ held' = held
      BY <1>4 DEF vars
    <2>2. TypeOK'
      BY <2>1 DEF TypeOK, PInv
    <2>3. AllocatedListHoldsHeld'
      BY <2>1 DEF PInv, ListsWellFormed, AllocatedListHoldsHeld, IsChain,
                  IsBackChain
    <2>4. FreeListHoldsReleased'
      BY <2>1 DEF PInv, ListsWellFormed, FreeListHoldsReleased, IsChain
    <2>5. (num_items = Cardinality(held))'
      BY <2>1 DEF PInv, ListsWellFormed
    <2> QED
      BY <2>2, <2>3, <2>4, <2>5 DEF PInv, ListsWellFormed
  <1> QED
    BY <1>1, <1>2, <1>3, <1>4 DEF Next

(***************************************************************************)
(* Whatever blocks are taken and returned, in any order: the allocated     *)
(* list is doubly linked and holds exactly the blocks in use, each once,   *)
(* the free list exactly the released ones (GaPool_GET, GaPool_PUT).       *)
(***************************************************************************)
THEOREM PoolListsWellFormed == Spec => []ListsWellFormed
  <1>1. PInv => ListsWellFormed
    BY DEF PInv
  <1> QED
    BY <1>1, InitPInv, NextPInv, PTL DEF Spec

(***************************************************************************)
(* The fields of a pool are well typed and num_items, which the collector  *)
(* reads to decide when to run, never falls below zero.                    *)
(***************************************************************************)
THEOREM PoolTypeCorrect == Spec => []TypeOK
  <1>1. PInv => TypeOK
    BY DEF PInv
  <1> QED
    BY <1>1, InitPInv, NextPInv, PTL DEF Spec

-----------------------------------------------------------------------------
(***************************************************************************)
(* The refinement of PoolSpec.                                             *)
(***************************************************************************)
\* Walking along a list meets its row.
LEMMA WalkIsRow ==
    ASSUME NEW links, NEW S, NULL \notin S, NEW s, NEW n \in Nat, NEW head,
           List(links, S, s, n, head)
    PROVE  Walk(links, head, n) = s
  <1> DEFINE Cells(c) == [i \in 1..n |-> IF i = 1 THEN head
                                         ELSE IF c[i - 1] = NULL THEN NULL
                                         ELSE links[c[i - 1]]]
  <1>1. ASSUME NEW i \in 1..n
        PROVE  s[i] = IF i = 1 THEN head
                      ELSE IF s[i - 1] = NULL THEN NULL ELSE links[s[i - 1]]
    <2>1. CASE i = 1
      BY <2>1 DEF List, At
    <2>2. CASE i # 1
      <3>1. i - 1 \in 1..n /\ i - 1 + 1 = i
        BY <2>2
      <3>2. s[i - 1] \in S /\ links[s[i - 1]] = At(s, n, i)
        BY <3>1 DEF List, Row
      <3> QED
        BY <2>2, <3>2 DEF At
    <2> QED
      BY <2>1, <2>2
  <1>2. s = Cells(s)
    <2>1. s = [i \in 1..n |-> s[i]]
      BY DEF List, Row
    <2> QED
      BY <1>1, <2>1
  <1>3. ASSUME NEW c, c = Cells(c) PROVE c = s
    <2> DEFINE bad == {i \in 1..n : c[i] # s[i]}
    <2>1. \A i \in 1..n : c[i] = IF i = 1 THEN head
                                 ELSE IF c[i - 1] = NULL THEN NULL ELSE links[c[i - 1]]
      BY <1>3
    <2>2. ASSUME bad # {} PROVE FALSE
      <3>1. PICK x \in bad : \A y \in bad : x <= y
        BY <2>2, LeastPlace
      <3>2. x # 1
        BY <1>1, <2>1, <3>1
      <3>3. x - 1 \in 1..n /\ x - 1 \notin bad
        BY <3>1, <3>2
      <3>4. c[x - 1] = s[x - 1]
        BY <3>3
      <3> QED
        BY <1>1, <2>1, <3>1, <3>2, <3>4
    <2>3. \A i \in 1..n : c[i] = s[i]
      BY <2>2
    <2>4. c = [i \in 1..n |-> c[i]] /\ s = [i \in 1..n |-> s[i]]
      BY <1>2, <1>3
    <2> QED
      BY <2>3, <2>4
  <1>4. Walk(links, head, n) = CHOOSE c : c = Cells(c)
    BY DEF Walk
  <1> HIDE DEF Cells
  <1> QED
    BY <1>2, <1>3, <1>4

\* A row is a sequence of its blocks.
LEMMA RowIsSequence ==
    ASSUME NEW S \in SUBSET Ents, NEW s, NEW n \in Nat, Row(S, s, n)
    PROVE  /\ s \in Seq(Ents) /\ Len(s) = n /\ DOMAIN s = 1..n /\ ToSet(s) = S
           /\ n = 0 <=> s = <<>>
  <1>1. s \in [1..n -> Ents]
    BY DEF Row
  <1>2. s \in Seq(Ents)
    BY <1>1, SeqDef
  <1>3. Len(s) = n /\ DOMAIN s = 1..n
    BY <1>1, <1>2, LenProperties
  <1>4. ToSet(s) = S
    BY <1>3 DEF ToSet, Row
  <1> QED
    BY <1>2, <1>3, <1>4, EmptySeq

\* A block that is pushed, as a sequence.
LEMMA BeforeIsConcat ==
    ASSUME NEW s \in Seq(Ents), NEW e \in Ents
    PROVE  Before(e, s, Len(s)) = <<e>> \o s
  <1> DEFINE n == Len(s)
  <1>1. n \in Nat /\ <<e>> \in Seq(Ents) /\ Len(<<e>>) = 1 /\ <<e>>[1] = e
    BY LenProperties
  <1>2. \A i \in 1..n : s[i] \in Ents
    BY ElementOfSeq
  <1> DEFINE b == Before(e, s, n)
  <1>3. b \in [1..(n + 1) -> Ents] /\ \A i \in 1..(n + 1) : b[i] = IF i = 1 THEN e ELSE s[i - 1]
    BY <1>1, <1>2 DEF Before
  <1> HIDE DEF b, n
  <1>4. b \in Seq(Ents) /\ Len(b) = n + 1
    <2>1. b \in Seq(Ents)
      BY <1>1, <1>3, SeqDef
    <2> QED
      BY <1>1, <1>3, <2>1, LenProperties
  <1>5. /\ <<e>> \o s \in Seq(Ents) /\ Len(<<e>> \o s) = 1 + n
        /\ \A i \in 1..(1 + n) : (<<e>> \o s)[i] = IF i <= 1 THEN <<e>>[i] ELSE s[i - 1]
    BY <1>1, ConcatProperties DEF n
  <1>6. \A i \in 1..(n + 1) : b[i] = (<<e>> \o s)[i]
    BY <1>1, <1>3, <1>5
  <1>7. b = <<e>> \o s
    BY <1>1, <1>4, <1>5, <1>6, SeqEqual
  <1> QED
    BY <1>7 DEF b, n

\* A block that is unlinked, as a sequence.
LEMMA WithoutIsRemoveAt ==
    ASSUME NEW s \in Seq(Ents), NEW k \in 1..Len(s)
    PROVE  Without(s, Len(s), k) = RemoveAt(s, k)
  <1> DEFINE n == Len(s)
             b == Without(s, n, k)
  <1>1. n \in Nat /\ \A i \in 1..n : s[i] \in Ents
    BY LenProperties, ElementOfSeq
  <1>2. /\ b \in [1..(n - 1) -> Ents]
        /\ \A i \in 1..(n - 1) : b[i] = IF i < k THEN s[i] ELSE s[i + 1]
    BY <1>1 DEF Without
  <1>3. /\ RemoveAt(s, k) \in Seq(Ents) /\ Len(RemoveAt(s, k)) = n - 1
        /\ \A i \in 1..(n - 1) : RemoveAt(s, k)[i] = IF i < k THEN s[i] ELSE s[i + 1]
    BY RemoveAtTyped
  <1>4. n - 1 \in Nat
    BY <1>1
  <1> HIDE DEF b, n
  <1>5. b \in Seq(Ents) /\ Len(b) = n - 1
    <2>1. b \in Seq(Ents)
      BY <1>2, <1>4, SeqDef
    <2> QED
      BY <1>2, <1>4, <2>1, LenProperties
  <1>6. \A i \in 1..(n - 1) : b[i] = RemoveAt(s, k)[i]
    BY <1>2, <1>3
  <1>7. b = RemoveAt(s, k)
    BY <1>3, <1>4, <1>5, <1>6, SeqEqual
  <1> QED
    BY <1>7 DEF b, n

\* The first block leaves a sequence.
LEMMA WithoutFirstIsTail ==
    ASSUME NEW s \in Seq(Ents), s # <<>>
    PROVE  Without(s, Len(s), 1) = Tail(s) /\ s[1] = Head(s)
  <1>1. /\ Len(s) \in Nat \ {0} /\ Tail(s) \in Seq(Ents) /\ Len(Tail(s)) = Len(s) - 1
        /\ \A i \in 1..Len(Tail(s)) : Tail(s)[i] = s[i + 1]
        /\ Head(s) = s[1]
    BY EmptySeq, HeadTailProperties
  <1>2. 1 \in 1..Len(s)
    BY <1>1
  <1>3. Without(s, Len(s), 1) = RemoveAt(s, 1)
    BY <1>2, WithoutIsRemoveAt
  <1>4. /\ RemoveAt(s, 1) \in Seq(Ents) /\ Len(RemoveAt(s, 1)) = Len(s) - 1
        /\ \A i \in 1..(Len(s) - 1) : RemoveAt(s, 1)[i] = s[i + 1]
    <2>1. /\ RemoveAt(s, 1) \in Seq(Ents) /\ Len(RemoveAt(s, 1)) = Len(s) - 1
          /\ \A i \in 1..(Len(s) - 1) : RemoveAt(s, 1)[i] = IF i < 1 THEN s[i] ELSE s[i + 1]
      BY <1>2, RemoveAtTyped
    <2>2. \A i \in 1..(Len(s) - 1) : ~(i < 1)
      BY <1>1
    <2> QED
      BY <2>1, <2>2
  <1>5. RemoveAt(s, 1) = Tail(s)
    BY <1>1, <1>4, SeqEqual
  <1> QED
    BY <1>1, <1>3, <1>5

\* What the abstract pool sees, before and after a step.
LEMMA SeenBefore ==
    ASSUME PInv, NEW s, NEW f, Lists(s, num_items, f, Cardinality(malloced \ held))
    PROVE  /\ AllocatedList = s
           /\ FreeList = f
           /\ s \in Seq(Ents) /\ Len(s) = num_items /\ ToSet(s) = held /\ DOMAIN s = 1..Len(s)
           /\ f \in Seq(Ents) /\ Len(f) = Cardinality(malloced \ held)
  <1>1. TypeOK /\ num_items = Cardinality(held)
    BY DEF PInv, ListsWellFormed
  <1>2. /\ held \in SUBSET Ents /\ (malloced \ held) \in SUBSET Ents
        /\ Cardinality(held) \in Nat /\ Cardinality(malloced \ held) \in Nat
    BY <1>1, Finite
  <1>3. NULL \notin held /\ NULL \notin malloced \ held
    BY <1>2, PoolAssumption
  <1>4. AllocatedList = s
    BY <1>1, <1>2, <1>3, WalkIsRow DEF Lists, AllocatedList
  <1>5. FreeList = f
    BY <1>2, <1>3, WalkIsRow DEF Lists, FreeList
  <1>6. s \in Seq(Ents) /\ Len(s) = num_items /\ ToSet(s) = held /\ DOMAIN s = 1..Len(s)
    BY <1>1, <1>2, RowIsSequence DEF Lists, List
  <1>7. f \in Seq(Ents) /\ Len(f) = Cardinality(malloced \ held)
    BY <1>2, RowIsSequence DEF Lists, List
  <1> QED
    BY <1>4, <1>5, <1>6, <1>7

\* The same after the step.
LEMMA SeenAfter ==
    ASSUME NEW s, NEW f, ListsAfter(s, f)
    PROVE  /\ AllocatedList' = s
           /\ FreeList' = f
  <1>1. /\ held' \in SUBSET Ents /\ (malloced' \ held') \in SUBSET Ents
        /\ Cardinality(held') \in Nat /\ Cardinality(malloced' \ held') \in Nat
    <2>1. held' \in SUBSET Ents /\ (malloced' \ held') \in SUBSET Ents
      BY DEF ListsAfter, TypeOK
    <2>2. IsFiniteSet(held') /\ IsFiniteSet(malloced' \ held')
      BY <2>1, FS_Subset, PoolAssumption
    <2> QED
      BY <2>1, <2>2, FS_CardinalityType
  <1>2. NULL \notin held' /\ NULL \notin malloced' \ held'
    BY <1>1, PoolAssumption
  <1>3. Walk(next', allocated_items', Cardinality(held')) = s
    <2>1. List(next', held', s, Cardinality(held'), allocated_items')
      BY DEF ListsAfter
    <2> QED
      BY <1>1, <1>2, <2>1, WalkIsRow
  <1>4. Walk(next', free_items', Cardinality(malloced' \ held')) = f
    <2>1. List(next', malloced' \ held', f, Cardinality(malloced' \ held'), free_items')
      BY DEF ListsAfter
    <2> QED
      BY <1>1, <1>2, <2>1, WalkIsRow
  <1> QED
    BY <1>3, <1>4 DEF AllocatedList, FreeList

\* GaPool_GET and GaPool_PUT do to the sequences what the abstract pool does.
LEMMA GetFreeAbstractly == ASSUME PInv, GetFree PROVE Abstract!Get
  <1>1. PICK s, f : Lists(s, num_items, f, Cardinality(malloced \ held))
    BY ListsOfInv
  <1>2. /\ AllocatedList = s /\ FreeList = f /\ s \in Seq(Ents) /\ Len(s) = num_items
        /\ f \in Seq(Ents) /\ Len(f) = Cardinality(malloced \ held)
    BY <1>1, SeenBefore
  <1>3. /\ Len(f) # 0 /\ ListsAfter(Before(f[1], s, num_items), Without(f, Len(f), 1))
    BY <1>1, <1>2, GetFreeRows
  <1>4. AllocatedList' = Before(f[1], s, num_items) /\ FreeList' = Without(f, Len(f), 1)
    BY <1>3, SeenAfter
  <1>5. f # <<>> /\ f[1] \in Ents
    <2>1. f # <<>>
      BY <1>3
    <2>2. 1 \in 1..Len(f)
      BY <1>2, <1>3, LenProperties
    <2> QED
      BY <1>2, <2>1, <2>2, ElementOfSeq
  <1>6. /\ AllocatedList' = <<Head(FreeList)>> \o AllocatedList
        /\ FreeList' = Tail(FreeList) /\ FreeList # <<>>
    BY <1>2, <1>4, <1>5, BeforeIsConcat, WithoutFirstIsTail
  <1> QED
    BY <1>6 DEF Abstract!Get

\* The same for a new block.
LEMMA GetFreshAbstractly == ASSUME PInv, NEW e \in Ents, GetFresh(e) PROVE Abstract!Get
  <1>1. PICK s, f : Lists(s, num_items, f, Cardinality(malloced \ held))
    BY ListsOfInv
  <1>2. /\ AllocatedList = s /\ FreeList = f /\ s \in Seq(Ents) /\ Len(s) = num_items /\ ToSet(s) = held
        /\ f \in Seq(Ents) /\ Len(f) = Cardinality(malloced \ held)
    BY <1>1, SeenBefore
  <1>3. ListsAfter(Before(e, s, num_items), f) /\ e \notin held
    BY <1>1, GetFreshRows
  <1>4. AllocatedList' = Before(e, s, num_items) /\ FreeList' = f
    BY <1>3, SeenAfter
  <1>5. f = <<>>
    <2>1. free_items = NULL /\ free_items = At(f, Len(f), 1)
      BY <1>1, <1>2 DEF GetFresh, Lists, List
    <2>2. ASSUME f # <<>> PROVE FALSE
      <3>1. 1 \in 1..Len(f)
        BY <1>2, <2>2, EmptySeq, LenProperties
      <3>2. f[1] \in Ents
        BY <1>2, <3>1, ElementOfSeq
      <3> QED
        BY <2>1, <3>1, <3>2, PoolAssumption DEF At
    <2> QED
      BY <2>2
  <1>6. /\ e \in Ents \ ToSet(AllocatedList)
        /\ AllocatedList' = <<e>> \o AllocatedList
        /\ FreeList = <<>> /\ FreeList' = FreeList
    BY <1>2, <1>3, <1>4, <1>5, BeforeIsConcat
  <1> QED
    BY <1>6 DEF Abstract!Get, Abstract!ToSet, ToSet

\* The same for a block that is released.
LEMMA PutAbstractly == ASSUME PInv, NEW e \in Ents, Put(e) PROVE Abstract!Put(e)
  <1>1. PICK s, f : Lists(s, num_items, f, Cardinality(malloced \ held))
    BY ListsOfInv
  <1>2. /\ AllocatedList = s /\ FreeList = f /\ s \in Seq(Ents) /\ Len(s) = num_items /\ DOMAIN s = 1..Len(s)
        /\ f \in Seq(Ents) /\ Len(f) = Cardinality(malloced \ held)
    BY <1>1, SeenBefore
  <1>3. PICK k \in 1..num_items : s[k] = e
    BY <1>1 DEF Put, Lists, List, Row
  <1>4. ListsAfter(Without(s, num_items, k), Before(e, f, Len(f)))
    BY <1>1, <1>2, <1>3, PutRows
  <1>5. AllocatedList' = Without(s, num_items, k) /\ FreeList' = Before(e, f, Len(f))
    BY <1>4, SeenAfter
  <1>6. /\ k \in DOMAIN AllocatedList /\ AllocatedList[k] = e
        /\ AllocatedList' = RemoveAt(AllocatedList, k)
        /\ FreeList' = <<e>> \o FreeList
    BY <1>2, <1>3, <1>5, BeforeIsConcat, WithoutIsRemoveAt
  <1> QED
    BY <1>6 DEF Abstract!Put, Abstract!RemoveAt, RemoveAt

(***************************************************************************)
(* The links implement the pool that a client and the collector see: the   *)
(* blocks in use, newest first, from which any may leave, and a stack of   *)
(* released ones (GaPool_GET, GaPool_PUT, and the walk of                  *)
(* GaObj_CollectGarbage along `next').                                     *)
(***************************************************************************)
THEOREM PoolImplementsSpec == Spec => RefinesPoolSpec
  <1>1. Init => Abstract!Init
    <2> SUFFICES ASSUME Init PROVE Abstract!Init
      OBVIOUS
    <2>1. PICK s, f : Lists(s, num_items, f, Cardinality(malloced \ held))
      BY InitPInv, ListsOfInv
    <2>2. /\ AllocatedList = s /\ FreeList = f /\ s \in Seq(Ents) /\ Len(s) = num_items
          /\ f \in Seq(Ents) /\ Len(f) = Cardinality(malloced \ held)
      BY <2>1, InitPInv, SeenBefore
    <2>3. num_items = 0 /\ Cardinality(malloced \ held) = 0
      <3>1. malloced \ held = {} /\ Cardinality({}) = 0
        BY FS_EmptySet DEF Init
      <3> QED
        BY <3>1 DEF Init
    <2>4. s = <<>> /\ f = <<>>
      BY <2>2, <2>3, EmptySeq
    <2> QED
      BY <2>2, <2>4 DEF Abstract!Init
  <1>2. PInv /\ [Next]_vars => [Abstract!Next]_<<AllocatedList, FreeList>>
    <2> SUFFICES ASSUME PInv, [Next]_vars PROVE Abstract!Next \/ UNCHANGED <<AllocatedList, FreeList>>
      OBVIOUS
    <2>1. CASE GetFree
      BY <2>1, GetFreeAbstractly DEF Abstract!Next
    <2>2. ASSUME NEW e \in Ents, GetFresh(e) PROVE Abstract!Next
      BY <2>2, GetFreshAbstractly DEF Abstract!Next
    <2>3. ASSUME NEW e \in Ents, Put(e) PROVE Abstract!Next
      BY <2>3, PutAbstractly DEF Abstract!Next
    <2>4. CASE UNCHANGED vars
      BY <2>4 DEF vars, AllocatedList, FreeList
    <2> QED
      BY <2>1, <2>2, <2>3, <2>4 DEF Next
  <1> QED
    BY <1>1, <1>2, InitPInv, NextPInv, PTL DEF Spec, RefinesPoolSpec, Abstract!Spec

=============================================================================
