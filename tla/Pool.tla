-------------------------------- MODULE Pool --------------------------------
(***************************************************************************)
(* The object pool of include/gallium/pool.h, at the level of its links.   *)
(*                                                                         *)
(* Two pools exist: ga_obj_pool hands out every GaObject of the default    *)
(* size, ga_vm_stackframe_pool every stack frame.  A pool threads each     *)
(* block it has ever obtained from malloc on one of two lists: a singly    *)
(* linked LIFO of free blocks, and a doubly linked list of allocated ones, *)
(* newest first, which the garbage collector walks through `next'.         *)
(*                                                                         *)
(* Both lists share the field `next', and `prev' of a free block keeps     *)
(* whatever it held when the block was released: the links of a block that *)
(* is reused are stale until GaPool_GET has overwritten them.              *)
(***************************************************************************)
EXTENDS Integers, FiniteSets

CONSTANTS
    Ents,   \* the blocks malloc can return (struct pool_ent)
    NULL    \* the null pointer

ASSUME PoolAssumption == NULL \notin Ents /\ IsFiniteSet(Ents)

VARIABLES
    next,               \* pool_ent.next of every block
    prev,               \* pool_ent.prev of every block
    free_items,         \* head of the free list
    allocated_items,    \* head of the allocated list
    num_items,          \* pool.num_items
    malloced,           \* the blocks obtained from malloc so far
    held                \* the blocks handed to a client and not yet returned

vars == <<next, prev, free_items, allocated_items, num_items, malloced, held>>

Ptr == Ents \cup {NULL}

\* Types of the state; num_items never goes below zero.
TypeOK ==
    /\ next \in [Ents -> Ptr]
    /\ prev \in [Ents -> Ptr]
    /\ free_items \in Ptr
    /\ allocated_items \in Ptr
    /\ num_items \in Nat
    /\ malloced \subseteq Ents
    /\ held \subseteq malloced

(***************************************************************************)
(* A pool is static storage: both heads are null.  The links of a block    *)
(* that malloc has not returned yet are whatever memory holds.             *)
(***************************************************************************)
Init ==
    /\ next \in [Ents -> Ptr]
    /\ prev \in [Ents -> Ptr]
    /\ free_items = NULL
    /\ allocated_items = NULL
    /\ num_items = 0
    /\ malloced = {}
    /\ held = {}

-----------------------------------------------------------------------------
(***************************************************************************)
(* GaPool_GET after it has chosen the block ent: push it on the front of   *)
(* the allocated list.                                                     *)
(***************************************************************************)
\* Mutant: prev of the new head keeps what it held when it was released.
PrevAfterGetStale(ent) ==
    IF allocated_items = NULL THEN prev
    ELSE [prev EXCEPT ![allocated_items] = ent]

PrevAfterGet(ent) ==
    IF allocated_items = NULL THEN [prev EXCEPT ![ent] = NULL]
    ELSE [prev EXCEPT ![ent] = NULL, ![allocated_items] = ent]

PushAllocated(ent) ==
    /\ next' = [next EXCEPT ![ent] = allocated_items]
    /\ prev' = PrevAfterGet(ent)
    /\ allocated_items' = ent
    /\ num_items' = num_items + 1
    /\ held' = held \cup {ent}

\* GaPool_GET when a released block is waiting on the free list.
GetFree ==
    /\ free_items # NULL
    /\ free_items' = next[free_items]
    /\ PushAllocated(free_items)
    /\ UNCHANGED malloced

\* GaPool_GET when the free list is empty: malloc returns a block that is new.
GetFresh(ent) ==
    /\ free_items = NULL
    /\ ent \notin malloced
    /\ malloced' = malloced \cup {ent}
    /\ PushAllocated(ent)
    /\ UNCHANGED free_items

(***************************************************************************)
(* GaPool_PUT: unlink the block, wherever it is in the allocated list, and *)
(* push it on the free list.  prev of the returned block is left as it     *)
(* was.                                                                    *)
(***************************************************************************)
\* Mutant: releasing the newest block leaves the head of the list on it.
HeadAfterPutKept(ent) == allocated_items

HeadAfterPut(ent) ==
    IF ent = allocated_items THEN next[ent] ELSE allocated_items

Release(ent) ==
    /\ next' = IF prev[ent] = NULL
               THEN [next EXCEPT ![ent] = free_items]
               ELSE [next EXCEPT ![prev[ent]] = next[ent], ![ent] = free_items]
    /\ prev' = IF next[ent] = NULL THEN prev
               ELSE [prev EXCEPT ![next[ent]] = prev[ent]]
    /\ allocated_items' = HeadAfterPut(ent)
    /\ free_items' = ent
    /\ num_items' = num_items - 1
    /\ held' = held \ {ent}
    /\ UNCHANGED malloced

\* Mutant: a client returns a block twice.
PutTwice(ent) == ent \in malloced /\ Release(ent)

\* Only a block that is held is ever returned.
Put(ent) == ent \in held /\ Release(ent)

Next ==
    \/ GetFree
    \/ \E ent \in Ents : GetFresh(ent)
    \/ \E ent \in Ents : Put(ent)

Spec == Init /\ [][Next]_vars

-----------------------------------------------------------------------------
(***************************************************************************)
(* The lists in memory.                                                    *)
(***************************************************************************)
\* All the ways to put the elements of S in a row, each once.
Rows(S) ==
    {s \in [1..Cardinality(S) -> S] :
        /\ \A i, j \in 1..Cardinality(S) : s[i] = s[j] => i = j
        /\ \A x \in S : \E i \in 1..Cardinality(S) : s[i] = x}

\* The element of the row s of n blocks at position i, NULL past either end.
At(s, n, i) == IF i \in 1..n THEN s[i] ELSE NULL

\* Following `next' from head meets the n blocks of the row s and stops.
IsChain(s, n, head) ==
    /\ head = At(s, n, 1)
    /\ \A i \in 1..n : next[s[i]] = At(s, n, i + 1)

IsBackChain(s, n) == \A i \in 1..n : prev[s[i]] = At(s, n, i - 1)

(***************************************************************************)
(* The blocks a client holds are exactly those of the doubly linked        *)
(* allocated list, which the garbage collector walks (object.c, gc_collect *)
(* starts at allocated_items): no block is lost from it or met twice,      *)
(* whatever order blocks come back in.                                     *)
(***************************************************************************)
AllocatedListHoldsHeld ==
    \E s \in Rows(held) :
        /\ IsChain(s, Cardinality(held), allocated_items)
        /\ IsBackChain(s, Cardinality(held))

(***************************************************************************)
(* The free list holds exactly the released blocks, each once: GaPool_GET  *)
(* cannot hand out a block that is in use, although both lists share the   *)
(* field `next'.                                                           *)
(***************************************************************************)
FreeListHoldsReleased ==
    \E f \in Rows(malloced \ held) :
        IsChain(f, Cardinality(malloced \ held), free_items)

\* Both lists are well formed and num_items counts the blocks in use.
ListsWellFormed ==
    /\ AllocatedListHoldsHeld
    /\ FreeListHoldsReleased
    /\ num_items = Cardinality(held)

(***************************************************************************)
(* The lists as sequences: what PoolSpec sees of this memory.              *)
(***************************************************************************)
Walk(links, head, n) ==
    LET cell[i \in 1..n] ==
            IF i = 1 THEN head
            ELSE IF cell[i - 1] = NULL THEN NULL
            ELSE links[cell[i - 1]]
    IN  cell

AllocatedList == Walk(next, allocated_items, Cardinality(held))
FreeList      == Walk(next, free_items, Cardinality(malloced \ held))

Abstract == INSTANCE PoolSpec
    WITH allocated <- AllocatedList, free <- FreeList

(***************************************************************************)
(* The links implement the abstract pool: an allocated list in order of    *)
(* age from which any block can leave, and a free list that is a stack.    *)
(***************************************************************************)
RefinesPoolSpec == Abstract!Spec

=============================================================================
