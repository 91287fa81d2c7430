------------------------------- MODULE Search -------------------------------
(***************************************************************************)
(* The searches of dict.c and of GaList_Remove: loops in C that compare    *)
(* the entries of a dict, or the elements of a list, with a key.  A        *)
(* comparison may run an __equals__ written in Gallium, and that may use   *)
(* the same dict or list again, before the first search goes on.           *)
(*                                                                         *)
(* The hash of a dict's bucket is that of the dict, not of the key         *)
(* (GaObj_HASH(self, vm)), so all its entries are on one list.  The        *)
(* iterator of that list has read the link to the next entry before the    *)
(* current one is compared; the loop of GaList_Remove has an index.        *)
(***************************************************************************)
EXTENDS Integers, Sequences, SequencesExt, FiniteSets

CONSTANTS
    Objects,        \* keys of dicts, elements of lists
    DictVals,
    MaxPlaces,      \* entries of a dict, elements of a list
    MaxSearches     \* searches in progress; the code has no limit

ASSUME SearchAssumption == MaxPlaces \in Nat /\ MaxSearches \in Nat

VARIABLES
    searched,   \* what is searched here: "dict" or "list"
    entries,    \* the dict: records of key and val (struct ga_dict_kvp)
    array, used,    \* the list: cells, as far as they were ever written, and
                    \* used_cells
    searches,   \* the searches in progress, innermost last
    stored,     \* ghost: the last value stored under a key, if any
    disturbed,  \* ghost: keys whose entry a search may have missed, or that
                \* another key was taken for
    refs,       \* ghost: the references the list has to an object
    astray      \* ghost: a removal went by an index that had moved

dict == <<entries, stored, disturbed>>
elements == <<array, used, refs, astray>>
searchVars == <<searched, dict, elements, searches>>

\* A search: the operation, the object looked for and its value; at, the place
\* that is being compared, 0 between two comparisons; with, what is there;
\* ahead, the next place, 0 if there is none.  known and moved are ghosts: the
\* key was there when the search began, the element is no longer in its place.
Operations == {"get", "set", "remove"}

\* Types of the state.
SearchTypeOK ==
    /\ searched \in {"dict", "list"}
    /\ entries \in Seq([key : Objects, val : DictVals])
    /\ array \in Seq(Objects) /\ used \in -1..Len(array)
    /\ \A s \in ToSet(searches) :
        /\ s.op \in Operations /\ s.key \in Objects /\ s.val \in DictVals
        /\ s.op = "remove" <=> searched = "list"
        /\ s.at \in 0..MaxPlaces /\ s.ahead \in 0..(MaxPlaces + 1)

SearchInit ==
    /\ searched \in {"dict", "list"}
    /\ entries = <<>>
    /\ array = <<>> /\ used = 0
    /\ searches = <<>>
    /\ stored = [k \in Objects |-> <<>>] /\ disturbed = {}
    /\ refs = [k \in Objects |-> 0] /\ astray = FALSE

-----------------------------------------------------------------------------
Innermost == Last(searches)
Comparing == searches # <<>> /\ Innermost.at # 0
Between == searches # <<>> /\ Innermost.at = 0

\* Gallium code runs: the program, or a comparison.  The model goes no further
\* once a list has let go of what it no longer had.
CodeRuns == (searches = <<>> \/ Comparing) /\ ~astray

Outer == Front(searches)

\* Mutant: a search begins with the entry that was added last.
FirstPlaceLast == Len(entries)

\* _Ga_list_get_iter: the head of the list.
FirstPlace == IF entries = <<>> THEN 0 ELSE 1

\* Mutant: every second entry is passed over.
PlaceAfterNext(p) == IF p + 1 >= Len(entries) THEN 0 ELSE p + 2

\* _Ga_iter_next: the link of an entry, as it is now.
PlaceAfter(p) == IF p = Len(entries) THEN 0 ELSE p + 1

NewSearch(op, k, v) ==
    [op |-> op, key |-> k, val |-> v, at |-> 0, with |-> k,
     ahead |-> IF op = "remove" THEN 1 ELSE FirstPlace,
     known |-> \E i \in DOMAIN entries : entries[i].key = k, moved |-> FALSE]

Begin(op, k, v) ==
    /\ CodeRuns
    /\ Len(searches) < MaxSearches
    /\ op = "remove" <=> searched = "list"
    /\ op # "set" => v = CHOOSE any \in DictVals : TRUE   \* it stores none
    /\ searches' = Append(searches, NewSearch(op, k, v))
    /\ UNCHANGED <<searched, dict, elements>>

\* The search goes on to the next place, whose object is compared.
Compare(object, after) ==
    /\ searches' = Append(Outer, [Innermost EXCEPT !.at = Innermost.ahead, !.with = object,
                                                   !.ahead = after, !.moved = FALSE])
    /\ UNCHANGED <<searched, dict, elements>>

CompareEntry ==
    /\ Between /\ searched = "dict"
    /\ Innermost.ahead # 0
    /\ Compare(entries[Innermost.ahead].key, PlaceAfter(Innermost.ahead))

CompareElement ==
    /\ Between /\ searched = "list"
    /\ Innermost.ahead <= used
    /\ Compare(array[Innermost.ahead], Innermost.ahead + 1)

\* __equals__ answers that the two differ.
Differs ==
    /\ Comparing
    /\ Innermost.with # Innermost.key
    /\ searches' = Append(Outer, [Innermost EXCEPT !.at = 0])
    /\ UNCHANGED <<searched, dict, elements>>

-----------------------------------------------------------------------------
(***************************************************************************)
(* Dicts.  A search stops at an entry when the comparison says that the    *)
(* keys are equal, or raises: the NULL it returns then counts as true.     *)
(***************************************************************************)
\* The end of a search that has stopped: dict_getindex returns the value,
\* dict_setindex replaces it.
FindsEntry ==
    /\ Comparing /\ searched = "dict"
    /\ searches' = Outer
    /\ entries' = IF Innermost.op = "get" THEN entries
                  ELSE [entries EXCEPT ![Innermost.at].val = Innermost.val]
    /\ UNCHANGED <<searched, elements>>

Equal ==
    /\ FindsEntry
    /\ Innermost.with = Innermost.key
    /\ stored' = IF Innermost.op = "get" THEN stored
                 ELSE [stored EXCEPT ![Innermost.key] = <<Innermost.val>>]
    /\ UNCHANGED disturbed

\* The comparison raises.
ComparisonRaises ==
    /\ FindsEntry
    /\ disturbed' = IF Innermost.op = "get" THEN disturbed
                    ELSE disturbed \cup {Innermost.with}
    /\ UNCHANGED stored

\* A store of the same key that is at its last entry, as far as it can tell,
\* will not meet the one that is added.
Overlooking(k) ==
    \E s \in ToSet(Outer) : s.op = "set" /\ s.key = k /\ s.ahead = 0

\* The end of the list: dict_getindex raises a KeyError, dict_setindex adds an
\* entry.
NoEntry ==
    /\ Between /\ searched = "dict"
    /\ Innermost.ahead = 0
    /\ searches' = Outer
    /\ IF Innermost.op = "get" THEN UNCHANGED dict
       ELSE /\ Len(entries) < MaxPlaces
            /\ entries' = Append(entries, [key |-> Innermost.key, val |-> Innermost.val])
            /\ stored' = [stored EXCEPT ![Innermost.key] = <<Innermost.val>>]
            /\ disturbed' = IF Overlooking(Innermost.key) THEN disturbed \cup {Innermost.key}
                            ELSE disturbed
    /\ UNCHANGED <<searched, elements>>

-----------------------------------------------------------------------------
(***************************************************************************)
(* Lists.                                                                  *)
(***************************************************************************)
\* GaList_Append, by whatever code runs
AppendElement(k) ==
    /\ CodeRuns /\ searched = "list"
    /\ used < MaxPlaces
    /\ array' = IF used = Len(array) THEN Append(array, k) ELSE [array EXCEPT ![used + 1] = k]
    /\ used' = used + 1
    /\ refs' = [refs EXCEPT ![k] = @ + 1]
    /\ UNCHANGED <<searched, dict, searches, astray>>

\* Mutant: the elements are moved up from the one after.
MovedUpLate(p) ==
    [i \in DOMAIN array |-> IF i > p /\ i < used THEN array[i + 1] ELSE array[i]]

\* The elements after a place move up; what was last stays where it was, too.
MovedUp(p) ==
    [i \in DOMAIN array |-> IF i >= p /\ i < used THEN array[i + 1] ELSE array[i]]

\* GaList_Remove, once a comparison was true or has raised.  The index may be
\* one past the end by now; what is there has been let go before.
RemoveElement ==
    /\ Comparing /\ searched = "list" /\ ~astray
    /\ refs' = [refs EXCEPT ![array[Innermost.at]] = @ - 1]
    /\ used' = used - 1
    /\ array' = MovedUp(Innermost.at)
    /\ astray' = (astray \/ Innermost.moved)
    /\ searches' = [i \in DOMAIN Outer |->
                       [Outer[i] EXCEPT !.moved = @ \/ Outer[i].at >= Innermost.at]]
    /\ UNCHANGED <<searched, dict>>

NoElement ==
    /\ Between /\ searched = "list"
    /\ Innermost.ahead > used
    /\ searches' = Outer
    /\ UNCHANGED <<searched, dict, elements>>

SearchNext ==
    \/ \E op \in Operations, k \in Objects, v \in DictVals : Begin(op, k, v)
    \/ CompareEntry \/ CompareElement \/ Differs
    \/ Equal \/ ComparisonRaises \/ NoEntry
    \/ \E k \in Objects : AppendElement(k)
    \/ RemoveElement \/ NoElement

SearchSpecification == SearchInit /\ [][SearchNext]_searchVars

-----------------------------------------------------------------------------
(***************************************************************************)
(* A dict has one entry for each key that was stored, with the value that  *)
(* was stored last, whatever comparisons do in between: unless a store     *)
(* added the key while another search for it was comparing what was then   *)
(* the last entry, or a comparison with the key raised and the value of    *)
(* another was put in its place.                                           *)
(***************************************************************************)
EntriesAreWhatWasStored ==
    \A k \in Objects \ disturbed :
        LET own == {i \in DOMAIN entries : entries[i].key = k}
        IN  IF stored[k] = <<>> THEN own = {}
            ELSE \E i \in own : own = {i} /\ stored[k] = <<entries[i].val>>

(***************************************************************************)
(* A search for a key that was there when it began is still to meet it:    *)
(* no store of other code, in the middle of a comparison, makes it end     *)
(* with a KeyError or a second entry.                                      *)
(***************************************************************************)
SearchesMeetTheirKey ==
    \A s \in ToSet(searches) : s.known =>
        \E i \in DOMAIN entries :
            /\ entries[i].key = s.key
            /\ i = s.at \/ (s.ahead # 0 /\ i >= s.ahead)

(***************************************************************************)
(* A list has a reference to each of its elements and to nothing else, and *)
(* what a search is about to remove is what it compares: unless a          *)
(* comparison removed that element, or one before it.                      *)
(***************************************************************************)
RemovalsAreExact ==
    ~astray =>
        /\ \A k \in Objects : refs[k] = Cardinality({i \in 1..used : array[i] = k})
        /\ \A s \in ToSet(searches) :
              s.op = "remove" /\ s.at # 0 /\ ~s.moved => s.at <= used /\ array[s.at] = s.with

=============================================================================
