----------------------------- MODULE LinkedList -----------------------------
(***************************************************************************)
(* The linked list of linkedlist_impl.c, at the level of its links.        *)
(*                                                                         *)
(* The interpreter uses these lists in two ways, and no list in both.      *)
(* Lists of tokens, tree nodes, instructions and entries only grow, at     *)
(* their end or (the items of a list literal) at their beginning,          *)
(* and are iterated while they grow.  Lists of references (the weak        *)
(* references to an object, the live objects) grow at their end, lose      *)
(* values, and are not iterated meanwhile.  _Ga_list_unshift leaves the    *)
(* old head without a link to its predecessor, which only a removal would  *)
(* notice, so the division matters.                                        *)
(***************************************************************************)
EXTENDS Integers, FiniteSets, Sequences

CONSTANTS
    Elems,  \* the list elements calloc can return (_Ga_list_elem_t)
    ListVals,   \* what lists hold
    NULL    \* the null pointer

ASSUME ListAssumption == NULL \notin Elems /\ IsFiniteSet(Elems)

VARIABLES
    use,    \* how this list is used: "items" or "refs"
    head, tail, count,      \* _Ga_list_t
    val, next, prev,        \* _Ga_list_elem_t of every element
    live,   \* the elements that are allocated
    iter    \* an iterator: the element it will return next

list == <<head, tail, count, val, next, prev, live>>
listVars == <<list, use, iter>>

Ptr == Elems \cup {NULL}

\* Types of the state; the count is that of the allocated elements.
ListTypeOK ==
    /\ use \in {"items", "refs"}
    /\ head \in Ptr /\ tail \in Ptr /\ iter \in Ptr
    /\ count = Cardinality(live)
    /\ val \in [Elems -> ListVals \cup {NULL}]
    /\ next \in [Elems -> Ptr]
    /\ prev \in [Elems -> Ptr]
    /\ live \subseteq Elems

\* A new list is cleared memory, and so is the memory of an element.
ListInit ==
    /\ use \in {"items", "refs"}
    /\ head = NULL /\ tail = NULL /\ count = 0 /\ iter = NULL
    /\ val = [e \in Elems |-> NULL]
    /\ next = [e \in Elems |-> NULL]
    /\ prev = [e \in Elems |-> NULL]
    /\ live = {}

-----------------------------------------------------------------------------
\* Some element that calloc can return; which one makes no difference.
Fresh == CHOOSE e \in Elems \ live : TRUE

\* An element that is not allocated holds nothing: calloc clears it.
Allocate == live # Elems /\ live' = live \cup {Fresh} /\ count' = count + 1

\* Mutant: the tail is left where it was.
PushLinksTail(elem) ==
    /\ next' = IF tail = NULL THEN next ELSE [next EXCEPT ![tail] = elem]
    /\ prev' = [prev EXCEPT ![elem] = tail]
    /\ tail' = IF head = NULL THEN elem ELSE tail

PushLinks(elem) ==
    /\ next' = IF head = NULL THEN next ELSE [next EXCEPT ![tail] = elem]
    /\ prev' = IF head = NULL THEN prev ELSE [prev EXCEPT ![elem] = tail]
    /\ tail' = elem

\* _Ga_list_push
ListPush(v) ==
    /\ Allocate
    /\ val' = [val EXCEPT ![Fresh] = v]
    /\ PushLinks(Fresh)
    /\ head' = IF head = NULL THEN Fresh ELSE head
    /\ UNCHANGED <<use, iter>>

\* _Ga_list_unshift: prev of the old head is not set.
ListUnshift(v) ==
    /\ use = "items"
    /\ Allocate
    /\ val' = [val EXCEPT ![Fresh] = v]
    /\ next' = [next EXCEPT ![Fresh] = head]
    /\ tail' = IF head = NULL THEN Fresh ELSE tail
    /\ head' = Fresh
    /\ UNCHANGED <<use, iter, prev>>

\* The elements from one on, in the order of the links.
Chain(links, from) ==
    LET cell[i \in 0..Cardinality(Elems)] ==
            IF i = 0 THEN from
            ELSE IF cell[i - 1] = NULL THEN NULL ELSE links[cell[i - 1]]
        length == Cardinality({i \in 0..Cardinality(Elems) : cell[i] # NULL})
    IN  [i \in 1..length |-> cell[i - 1]]

Walk == Chain(next, head)

\* _Ga_list_contains
Holds(v) == \E i \in DOMAIN Walk : val[Walk[i]] = v

\* The first element that holds v.
Holder(v) ==
    Walk[CHOOSE i \in DOMAIN Walk :
            /\ val[Walk[i]] = v
            /\ \A j \in 1..(i - 1) : val[Walk[j]] # v]

\* Memory that has been given back is cleared when it is allocated again.
Freed(elems) ==
    /\ live' = live \ elems
    /\ val' = [e \in Elems |-> IF e \in elems THEN NULL ELSE val[e]]

\* _Ga_list_remove, of a value the list holds
ListRemove(v) ==
    /\ use = "refs" /\ iter = NULL
    /\ Holds(v)
    /\ LET cur == Holder(v)
           before == prev[cur]
           after == next[cur]
       IN  /\ next' = IF before = NULL THEN [next EXCEPT ![cur] = NULL]
                      ELSE [next EXCEPT ![before] = after, ![cur] = NULL]
           /\ prev' = IF after = NULL THEN [prev EXCEPT ![cur] = NULL]
                      ELSE [prev EXCEPT ![after] = before, ![cur] = NULL]
           /\ head' = IF cur = head THEN after ELSE head
           /\ tail' = IF cur = tail THEN before ELSE tail
           /\ Freed({cur})
    /\ count' = count - 1
    /\ UNCHANGED <<use, iter>>

\* _Ga_list_fini: every element is freed and the list is cleared.
ListFini ==
    /\ head # NULL
    /\ Freed({Walk[i] : i \in DOMAIN Walk})
    /\ head' = NULL /\ tail' = NULL /\ count' = 0
    /\ next' = [e \in Elems |-> NULL]
    /\ prev' = [e \in Elems |-> NULL]
    /\ iter' = NULL
    /\ UNCHANGED use

\* _Ga_list_get_iter
ListGetIter == head # NULL /\ iter' = head /\ UNCHANGED <<list, use>>

\* _Ga_iter_next, of an iterator that has a next element
ListIterNext == iter # NULL /\ iter' = next[iter] /\ UNCHANGED <<list, use>>

ListNext ==
    \/ \E v \in ListVals : ListPush(v) \/ ListUnshift(v) \/ ListRemove(v)
    \/ ListFini
    \/ ListGetIter
    \/ ListIterNext

ListSpecification == ListInit /\ [][ListNext]_listVars

-----------------------------------------------------------------------------
\* The list as a sequence: what ListSpec sees of this memory.
Items == [i \in DOMAIN Walk |-> val[Walk[i]]]
Cursor == IF iter = NULL THEN 0 ELSE Len(Walk) - Len(Chain(next, iter)) + 1

Sequence == INSTANCE ListSpec
    WITH Vals <- ListVals, items <- Items, cursor <- Cursor

(***************************************************************************)
(* The links implement a sequence with an iterator, in both uses of a      *)
(* list: whatever has been added at either end or removed from anywhere,   *)
(* the elements are met in order, and the next addition finds the end.     *)
(***************************************************************************)
RefinesListSpec == Sequence!Spec

=============================================================================
