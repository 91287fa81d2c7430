---------------------------- MODULE SearchProofs ----------------------------
(***************************************************************************)
(* Proofs about Search: for any objects and values, any size of a dict or  *)
(* a list and any depth of searches within comparisons, a dict has the     *)
(* entries that were stored in it, a search meets the key it looks for,    *)
(* and a list removes what was compared.                                   *)
(***************************************************************************)
EXTENDS Search, SequenceFacts, FunctionTheorems, FiniteSetTheorems, TLAPS

Entry == [key : Objects, val : DictVals]

SearchRecord ==
    [op : Operations, key : Objects, val : DictVals, at : 0..MaxPlaces,
     with : Objects, ahead : 0..(MaxPlaces + 1), known : BOOLEAN, moved : BOOLEAN]

InProgress(s) == \E i \in DOMAIN searches : searches[i] = s

\* The place i of a dict is one that the search s is at or has still to meet.
Meets(s, i) == i = s.at \/ (s.ahead # 0 /\ i >= s.ahead)

(***************************************************************************)
(* The inductive invariant: what holds of every search in progress.        *)
(***************************************************************************)
\* The search of a dict is at an entry whose key it compares; the entry it
\* looks for, if it was there, and every entry of a key it is going to store
\* are still to be met.
DictSearch(s) ==
    /\ s.at <= Len(entries) /\ s.ahead <= Len(entries)
    /\ s.at # 0 => s.with = entries[s.at].key
    /\ s.known => \E i \in DOMAIN entries : entries[i].key = s.key /\ Meets(s, i)
    /\ s.op = "set" /\ s.key \notin disturbed =>
          \A i \in DOMAIN entries : entries[i].key = s.key => Meets(s, i)

\* The search of a list is at a cell that was written; it compares the element
\* that is there unless that has moved.
ListSearch(s) ==
    /\ ~s.known /\ s.ahead # 0 /\ s.at <= Len(array)
    /\ ~astray /\ s.at # 0 /\ ~s.moved => s.at <= used /\ array[s.at] = s.with

SearchState ==
    /\ searched \in {"dict", "list"}
    /\ entries \in Seq(Entry) /\ Len(entries) <= MaxPlaces
    /\ array \in Seq(Objects) /\ used \in -1..Len(array) /\ used <= MaxPlaces
    /\ searches \in Seq(SearchRecord)
    /\ stored \in [Objects -> Seq(DictVals)] /\ disturbed \subseteq Objects
    /\ refs \in [Objects -> Int] /\ astray \in BOOLEAN
    /\ searched = "list" => entries = <<>>
    /\ ~astray => used >= 0

SearchesGoOn ==
    \A s \in SearchRecord : InProgress(s) =>
        IF s.op = "remove" THEN searched = "list" /\ ListSearch(s)
        ELSE searched = "dict" /\ DictSearch(s)

\* The places of the elements of a list that are the object k.
PlacesOf(k) == {i \in 1..used : array[i] = k}

ReferencesExact ==
    ~astray => \A k \in Objects : refs[k] = Cardinality(PlacesOf(k))

SearchInv ==
    /\ SearchState
    /\ SearchesGoOn
    /\ ReferencesExact
    /\ EntriesAreWhatWasStored

-----------------------------------------------------------------------------
(***************************************************************************)
(* The searches in progress.                                               *)
(***************************************************************************)
\* The innermost search and those around it.
LEMMA InnermostSearch ==
    ASSUME SearchState, searches # <<>>
    PROVE  /\ Innermost \in SearchRecord /\ InProgress(Innermost)
           /\ Outer \in Seq(SearchRecord)
           /\ \A s : s \in ToSet(Outer) => s \in SearchRecord /\ InProgress(s)
  <1>1. searches \in Seq(SearchRecord)
    BY DEF SearchState
  <1> HIDE DEF SearchRecord
  <1>2. /\ Outer \in Seq(SearchRecord) /\ Len(Outer) = Len(searches) - 1
        /\ \A i \in 1..(Len(searches) - 1) : Outer[i] = searches[i]
        /\ Innermost \in SearchRecord /\ Len(searches) \in Nat \ {0}
    BY <1>1, FrontLast DEF Outer, Innermost
  <1>3. DOMAIN searches = 1..Len(searches) /\ DOMAIN Outer = 1..(Len(searches) - 1)
    BY <1>1, <1>2, LenProperties
  <1>4. \A i \in DOMAIN Outer : Outer[i] \in SearchRecord /\ InProgress(Outer[i])
    BY <1>2, <1>3, ElementOfSeq DEF InProgress
  <1>5. InProgress(Innermost)
    BY <1>2, <1>3 DEF InProgress, Innermost, Last
  <1> QED
    BY <1>2, <1>4, <1>5 DEF ToSet

\* A search begins inside the others.
LEMMA SearchAdded ==
    ASSUME SearchState, NEW s \in SearchRecord, searches' = Append(searches, s)
    PROVE  /\ searches' \in Seq(SearchRecord)
           /\ \A x : InProgress(x)' => InProgress(x) \/ x = s
  <1>1. searches \in Seq(SearchRecord)
    BY DEF SearchState
  <1> HIDE DEF SearchRecord
  <1>2. /\ searches' \in Seq(SearchRecord)
        /\ Len(searches) \in Nat
        /\ DOMAIN searches = 1..Len(searches)
        /\ DOMAIN searches' = 1..(Len(searches) + 1)
        /\ \A i \in 1..Len(searches) : searches'[i] = searches[i]
        /\ searches'[Len(searches) + 1] = s
    BY <1>1, AppendTyped
  <1>3. \A i \in DOMAIN searches' : i \in DOMAIN searches \/ i = Len(searches) + 1
    BY <1>2
  <1> QED
    BY <1>2, <1>3 DEF InProgress

\* The innermost search goes on.
LEMMA SearchReplaced ==
    ASSUME SearchState, searches # <<>>, NEW s \in SearchRecord,
           searches' = Append(Outer, s)
    PROVE  /\ searches' \in Seq(SearchRecord)
           /\ \A x : InProgress(x)' => InProgress(x) \/ x = s
  <1>1. /\ Outer \in Seq(SearchRecord)
        /\ \A x : x \in ToSet(Outer) => InProgress(x)
    BY InnermostSearch
  <1> HIDE DEF SearchRecord, Outer
  <1>2. /\ searches' \in Seq(SearchRecord)
        /\ Len(Outer) \in Nat
        /\ DOMAIN Outer = 1..Len(Outer)
        /\ DOMAIN searches' = 1..(Len(Outer) + 1)
        /\ \A i \in 1..Len(Outer) : searches'[i] = Outer[i]
        /\ searches'[Len(Outer) + 1] = s
    BY <1>1, AppendTyped
  <1>3. \A i \in DOMAIN searches' : i \in DOMAIN Outer \/ i = Len(Outer) + 1
    BY <1>2
  <1> QED
    BY <1>1, <1>2, <1>3 DEF InProgress, ToSet

\* The innermost search ends.
LEMMA SearchEnded ==
    ASSUME SearchState, searches # <<>>, searches' = Outer
    PROVE  /\ searches' \in Seq(SearchRecord)
           /\ \A x : InProgress(x)' <=> x \in ToSet(Outer)
           /\ \A x : InProgress(x)' => InProgress(x)
  <1>1. \A x : InProgress(x)' <=> x \in ToSet(Outer)
    BY DEF InProgress, ToSet
  <1> QED
    BY <1>1, InnermostSearch
-----------------------------------------------------------------------------
(***************************************************************************)
(* Steps that change nothing but the searches.                             *)
(***************************************************************************)
\* It is enough that the search that begins or goes on is as it should be.
LEMMA OnlySearches ==
    ASSUME SearchInv, UNCHANGED <<searched, dict, elements>>,
           searches' \in Seq(SearchRecord), NEW s,
           \A x : InProgress(x)' => InProgress(x) \/ x = s,
           s \in SearchRecord =>
              IF s.op = "remove" THEN searched = "list" /\ ListSearch(s)
              ELSE searched = "dict" /\ DictSearch(s)
    PROVE  SearchInv'
  <1>1. UNCHANGED <<searched, entries, stored, disturbed, array, used, refs, astray>>
    BY DEF dict, elements
  <1>2. SearchState'
    BY <1>1 DEF SearchInv, SearchState
  <1>3. SearchesGoOn'
    <2> SUFFICES ASSUME NEW x \in SearchRecord, InProgress(x)'
                 PROVE  IF x.op = "remove" THEN searched' = "list" /\ ListSearch(x)'
                        ELSE searched' = "dict" /\ DictSearch(x)'
      BY DEF SearchesGoOn
    <2>1. /\ ListSearch(x)' <=> ListSearch(x)
          /\ DictSearch(x)' <=> DictSearch(x)
      BY <1>1 DEF ListSearch, DictSearch, Meets
    <2> QED
      BY <1>1, <2>1 DEF SearchInv, SearchesGoOn
  <1>4. ReferencesExact' /\ EntriesAreWhatWasStored'
    BY <1>1 DEF SearchInv, ReferencesExact, PlacesOf, EntriesAreWhatWasStored
  <1> QED
    BY <1>2, <1>3, <1>4 DEF SearchInv

\* A search begins: all places are ahead of it.
LEMMA BeginInv ==
    ASSUME SearchInv, NEW op \in Operations, NEW k \in Objects, NEW v \in DictVals,
           Begin(op, k, v)
    PROVE  SearchInv'
  <1> DEFINE s == NewSearch(op, k, v)
  <1>1. /\ UNCHANGED <<searched, dict, elements>>
        /\ searches' = Append(searches, s)
        /\ op = "remove" <=> searched = "list"
    BY DEF Begin
  <1>2. /\ searched \in {"dict", "list"} /\ entries \in Seq(Entry)
        /\ Len(entries) <= MaxPlaces /\ Len(entries) \in Nat
        /\ DOMAIN entries = 1..Len(entries)
        /\ searched = "list" => entries = <<>>
        /\ array \in Seq(Objects) /\ Len(array) \in Nat
        /\ entries # <<>> => Len(entries) > 0
    BY LenProperties, EmptySeq DEF SearchInv, SearchState
  <1>3. FirstPlace \in 0..1 /\ (FirstPlace = 0 <=> entries = <<>>)
        /\ FirstPlace <= Len(entries)
    BY <1>2 DEF FirstPlace
  <1>4. /\ s.op = op /\ s.key = k /\ s.at = 0 /\ s.with = k /\ s.val = v
        /\ s.ahead = IF op = "remove" THEN 1 ELSE FirstPlace
        /\ s.known <=> \E i \in DOMAIN entries : entries[i].key = k
        /\ s.moved = FALSE
        /\ s \in SearchRecord
    <2>1. (\E i \in DOMAIN entries : entries[i].key = k) \in BOOLEAN
      OBVIOUS
    <2>2. /\ 0 \in 0..MaxPlaces
          /\ (IF op = "remove" THEN 1 ELSE FirstPlace) \in 0..(MaxPlaces + 1)
      BY <1>3, SearchAssumption
    <2> QED
      BY <2>1, <2>2 DEF NewSearch, SearchRecord
  <1> HIDE DEF s
  <1>5. CASE op = "remove"
    <2>1. ListSearch(s)
      <3>1. DOMAIN entries = {}
        BY <1>1, <1>2, <1>5
      <3> QED
        BY <1>2, <1>4, <1>5, <3>1 DEF ListSearch
    <2> QED
      BY <1>1, <1>4, <1>5, <2>1, SearchAdded, OnlySearches DEF SearchInv
  <1>6. CASE op # "remove"
    <2>1. \A i \in DOMAIN entries : Meets(s, i)
      BY <1>2, <1>3, <1>4, <1>6 DEF Meets
    <2>2. DictSearch(s)
      BY <1>2, <1>3, <1>4, <1>6, <2>1 DEF DictSearch
    <2> QED
      BY <1>1, <1>2, <1>4, <1>6, <2>2, SearchAdded, OnlySearches DEF SearchInv
  <1> QED
    BY <1>5, <1>6

\* A dict's search goes on to the next entry, which it has read the link to.
LEMMA CompareEntryInv == ASSUME SearchInv, CompareEntry PROVE SearchInv'
  <1> DEFINE old == Innermost
             s == [old EXCEPT !.at = old.ahead, !.with = entries[old.ahead].key,
                              !.ahead = PlaceAfter(old.ahead), !.moved = FALSE]
  <1>1. /\ UNCHANGED <<searched, dict, elements>>
        /\ searches # <<>> /\ searched = "dict" /\ old.at = 0 /\ old.ahead # 0
        /\ searches' = Append(Outer, s)
    BY DEF CompareEntry, Between, Compare
  <1>2. /\ old \in SearchRecord /\ InProgress(old)
    BY <1>1, InnermostSearch DEF SearchInv
  <1>3. old.op # "remove" /\ DictSearch(old)
    BY <1>1, <1>2 DEF SearchInv, SearchesGoOn
  <1>4. /\ entries \in Seq(Entry) /\ Len(entries) \in Nat /\ Len(entries) <= MaxPlaces
        /\ DOMAIN entries = 1..Len(entries)
        /\ \A i \in DOMAIN entries : entries[i] \in Entry
    BY LenProperties, ElementOfSeq DEF SearchInv, SearchState
  <1> HIDE DEF old
  <1>5. /\ old.ahead \in 0..(MaxPlaces + 1) /\ old.ahead <= Len(entries)
        /\ old.ahead \in DOMAIN entries
    BY <1>1, <1>2, <1>3, <1>4, SearchAssumption DEF SearchRecord, DictSearch
  <1>6. /\ entries[old.ahead].key \in Objects
        /\ PlaceAfter(old.ahead) = IF old.ahead = Len(entries) THEN 0 ELSE old.ahead + 1
        /\ PlaceAfter(old.ahead) \in 0..(MaxPlaces + 1)
        /\ old.ahead \in 0..MaxPlaces
    BY <1>4, <1>5, SearchAssumption DEF Entry, PlaceAfter
  <1>7. /\ s \in SearchRecord
        /\ s.op = old.op /\ s.key = old.key /\ s.known = old.known
        /\ s.at = old.ahead /\ s.ahead = PlaceAfter(old.ahead)
        /\ s.with = entries[old.ahead].key
    BY <1>2, <1>6 DEF SearchRecord
  <1> HIDE DEF s
  <1>8. \A i \in DOMAIN entries : Meets(old, i) => Meets(s, i)
    BY <1>1, <1>4, <1>5, <1>6, <1>7 DEF Meets
  <1>9. DictSearch(s)
    BY <1>3, <1>4, <1>5, <1>6, <1>7, <1>8 DEF DictSearch
  <1>10. /\ searches' \in Seq(SearchRecord)
         /\ \A x : InProgress(x)' => InProgress(x) \/ x = s
    BY <1>1, <1>7, SearchReplaced DEF SearchInv
  <1> QED
    BY <1>1, <1>3, <1>7, <1>9, <1>10, OnlySearches

\* The loop of GaList_Remove goes on to the next element.
LEMMA CompareElementInv == ASSUME SearchInv, CompareElement PROVE SearchInv'
  <1> DEFINE old == Innermost
             s == [old EXCEPT !.at = old.ahead, !.with = array[old.ahead],
                              !.ahead = old.ahead + 1, !.moved = FALSE]
  <1>1. /\ UNCHANGED <<searched, dict, elements>>
        /\ searches # <<>> /\ searched = "list" /\ old.at = 0 /\ old.ahead <= used
        /\ searches' = Append(Outer, s)
    BY DEF CompareElement, Between, Compare
  <1>2. /\ old \in SearchRecord /\ InProgress(old)
    BY <1>1, InnermostSearch DEF SearchInv
  <1>3. old.op = "remove" /\ ListSearch(old)
    BY <1>1, <1>2 DEF SearchInv, SearchesGoOn
  <1>4. /\ array \in Seq(Objects) /\ Len(array) \in Nat
        /\ used \in Int /\ used <= Len(array) /\ used <= MaxPlaces
        /\ \A i \in 1..Len(array) : array[i] \in Objects
    BY LenProperties, ElementOfSeq DEF SearchInv, SearchState
  <1> HIDE DEF old
  <1>5. /\ old.ahead \in 0..MaxPlaces /\ old.ahead \in 1..Len(array)
        /\ old.ahead + 1 \in 0..(MaxPlaces + 1) /\ old.ahead + 1 # 0
    BY <1>1, <1>2, <1>3, <1>4, SearchAssumption DEF SearchRecord, ListSearch
  <1>6. /\ s \in SearchRecord
        /\ s.op = old.op /\ s.known = old.known
        /\ s.at = old.ahead /\ s.ahead = old.ahead + 1
        /\ s.with = array[old.ahead]
    BY <1>2, <1>4, <1>5 DEF SearchRecord
  <1> HIDE DEF s
  <1>7. ListSearch(s)
    BY <1>1, <1>3, <1>4, <1>5, <1>6 DEF ListSearch
  <1>8. /\ searches' \in Seq(SearchRecord)
        /\ \A x : InProgress(x)' => InProgress(x) \/ x = s
    BY <1>1, <1>6, SearchReplaced DEF SearchInv
  <1> QED
    BY <1>1, <1>3, <1>6, <1>7, <1>8, OnlySearches

\* What was compared is not what the search looks for.
LEMMA DiffersInv == ASSUME SearchInv, Differs PROVE SearchInv'
  <1> DEFINE old == Innermost
             s == [old EXCEPT !.at = 0]
  <1>1. /\ UNCHANGED <<searched, dict, elements>>
        /\ searches # <<>> /\ old.at # 0 /\ old.with # old.key
        /\ searches' = Append(Outer, s)
    BY DEF Differs, Comparing
  <1>2. /\ old \in SearchRecord /\ InProgress(old)
    BY <1>1, InnermostSearch DEF SearchInv
  <1>3. IF old.op = "remove" THEN searched = "list" /\ ListSearch(old)
        ELSE searched = "dict" /\ DictSearch(old)
    BY <1>2 DEF SearchInv, SearchesGoOn
  <1>4. Len(entries) \in Nat /\ Len(array) \in Nat
    BY LenProperties DEF SearchInv, SearchState
  <1> HIDE DEF old
  <1>5. /\ s \in SearchRecord /\ s.at = 0
        /\ s.op = old.op /\ s.key = old.key /\ s.known = old.known
        /\ s.ahead = old.ahead
    BY <1>2, SearchAssumption DEF SearchRecord
  <1> HIDE DEF s
  <1>6. \/ old.op = "remove" /\ searched = "list" /\ ListSearch(old)
        \/ old.op # "remove" /\ searched = "dict" /\ DictSearch(old)
    BY <1>3
  <1>7. IF s.op = "remove" THEN searched = "list" /\ ListSearch(s)
        ELSE searched = "dict" /\ DictSearch(s)
    <2>1. CASE old.op = "remove" /\ searched = "list" /\ ListSearch(old)
      BY <1>4, <1>5, <2>1 DEF ListSearch
    <2>2. CASE old.op # "remove" /\ searched = "dict" /\ DictSearch(old)
      <3>1. \A i \in DOMAIN entries : entries[i].key = s.key /\ Meets(old, i) => Meets(s, i)
        BY <1>1, <1>5, <2>2 DEF DictSearch, Meets
      <3>2. DictSearch(s)
        BY <1>4, <1>5, <2>2, <3>1 DEF DictSearch
      <3> QED
        BY <1>5, <2>2, <3>2
    <2> QED
      BY <1>6, <2>1, <2>2
  <1>8. /\ searches' \in Seq(SearchRecord)
        /\ \A x : InProgress(x)' => InProgress(x) \/ x = s
    BY <1>1, <1>5, SearchReplaced DEF SearchInv
  <1> QED
    BY <1>1, <1>7, <1>8, OnlySearches
\* The loop of GaList_Remove ends without having found anything.
LEMMA NoElementInv == ASSUME SearchInv, NoElement PROVE SearchInv'
  <1>1. /\ UNCHANGED <<searched, dict, elements>>
        /\ searches # <<>> /\ searches' = Outer
    BY DEF NoElement, Between
  <1>2. /\ Innermost \in SearchRecord /\ InProgress(Innermost)
        /\ searches' \in Seq(SearchRecord)
        /\ \A x : InProgress(x)' => InProgress(x)
    BY <1>1, InnermostSearch, SearchEnded DEF SearchInv
  <1>3. IF Innermost.op = "remove" THEN searched = "list" /\ ListSearch(Innermost)
        ELSE searched = "dict" /\ DictSearch(Innermost)
    BY <1>2 DEF SearchInv, SearchesGoOn
  <1> QED
    BY <1>1, <1>2, <1>3, OnlySearches

-----------------------------------------------------------------------------
(***************************************************************************)
(* The searches of a dict end.                                             *)
(***************************************************************************)
\* Entries stay where they are and keep their keys; keys are disturbed for good.
LEMMA SearchesOfKeys ==
    ASSUME SearchInv, searched = "dict", searches # <<>>, searches' = Outer,
           entries' \in Seq(Entry), Len(entries') = Len(entries),
           \A i \in DOMAIN entries : entries'[i].key = entries[i].key,
           stored' \in [Objects -> Seq(DictVals)],
           disturbed \subseteq disturbed', disturbed' \subseteq Objects,
           UNCHANGED <<searched, elements>>,
           EntriesAreWhatWasStored'
    PROVE  SearchInv'
  <1>1. UNCHANGED <<array, used, refs, astray>>
    BY DEF elements
  <1>2. /\ searches' \in Seq(SearchRecord)
        /\ \A x : InProgress(x)' => InProgress(x)
    BY SearchEnded DEF SearchInv
  <1>3. SearchState'
    BY <1>1, <1>2 DEF SearchInv, SearchState
  <1>4. DOMAIN entries' = DOMAIN entries /\ DOMAIN entries = 1..Len(entries)
    BY LenProperties DEF SearchInv, SearchState
  <1>5. SearchesGoOn'
    <2> SUFFICES ASSUME NEW x \in SearchRecord, InProgress(x)'
                 PROVE  IF x.op = "remove" THEN searched' = "list" /\ ListSearch(x)'
                        ELSE searched' = "dict" /\ DictSearch(x)'
      BY DEF SearchesGoOn
    <2>1. x.op # "remove" /\ DictSearch(x)
      BY <1>2 DEF SearchInv, SearchesGoOn
    <2>2. x.at # 0 => x.at \in DOMAIN entries
      BY <1>4, <2>1, SearchAssumption DEF DictSearch, SearchRecord
    <2>3. DictSearch(x)'
      BY <1>4, <2>1, <2>2 DEF DictSearch, Meets
    <2> QED
      BY <2>1, <2>3
  <1>6. ReferencesExact'
    BY <1>1 DEF SearchInv, ReferencesExact, PlacesOf
  <1> QED
    BY <1>3, <1>5, <1>6 DEF SearchInv

\* What is known of the entry at which a search of a dict ends.
LEMMA FoundEntry ==
    ASSUME SearchInv, FindsEntry
    PROVE  /\ Innermost \in SearchRecord
           /\ searched = "dict" /\ searches # <<>> /\ searches' = Outer
           /\ Innermost.at \in DOMAIN entries
           /\ Innermost.with = entries[Innermost.at].key
           /\ entries' \in Seq(Entry) /\ Len(entries') = Len(entries)
           /\ DOMAIN entries' = DOMAIN entries
           /\ Innermost.op = "get" => entries' = entries
           /\ \A i \in DOMAIN entries :
                 /\ entries'[i].key = entries[i].key
                 /\ entries'[i].val = IF Innermost.op # "get" /\ i = Innermost.at
                                      THEN Innermost.val ELSE entries[i].val
           /\ UNCHANGED <<searched, elements>>
  <1> DEFINE s == Innermost
             e == [entries[s.at] EXCEPT !.val = s.val]
  <1>1. /\ searched = "dict" /\ searches # <<>> /\ searches' = Outer /\ s.at # 0
        /\ entries' = IF s.op = "get" THEN entries ELSE [entries EXCEPT ![s.at].val = s.val]
        /\ UNCHANGED <<searched, elements>>
    BY DEF FindsEntry, Comparing
  <1>2. s \in SearchRecord /\ InProgress(s)
    BY <1>1, InnermostSearch DEF SearchInv
  <1>3. s.op # "remove" /\ DictSearch(s)
    BY <1>1, <1>2 DEF SearchInv, SearchesGoOn
  <1>4. /\ entries \in Seq(Entry) /\ Len(entries) \in Nat
        /\ DOMAIN entries = 1..Len(entries)
        /\ \A i \in DOMAIN entries : entries[i] \in Entry
    BY LenProperties, ElementOfSeq DEF SearchInv, SearchState
  <1> HIDE DEF s
  <1>5. s.at \in DOMAIN entries /\ s.with = entries[s.at].key
    BY <1>1, <1>2, <1>3, <1>4 DEF SearchRecord, DictSearch
  <1>6. e \in Entry /\ e.key = entries[s.at].key /\ e.val = s.val
    BY <1>2, <1>4, <1>5 DEF Entry, SearchRecord
  <1> HIDE DEF e, Entry
  <1>7. CASE s.op = "get"
    BY <1>1, <1>2, <1>4, <1>5, <1>7 DEF s
  <1>8. CASE s.op # "get"
    <2>1. entries' = [entries EXCEPT ![s.at] = e]
      BY <1>1, <1>5, <1>8 DEF e
    <2>2. /\ entries' \in Seq(Entry) /\ Len(entries') = Len(entries)
          /\ \A i \in 1..Len(entries) : entries'[i] = IF i = s.at THEN e ELSE entries[i]
      BY <1>4, <1>5, <1>6, <2>1, ExceptSeq
    <2>3. DOMAIN entries' = DOMAIN entries
      BY <2>1
    <2> QED
      BY <1>1, <1>2, <1>4, <1>5, <1>6, <1>8, <2>2, <2>3 DEF s
  <1> QED
    BY <1>7, <1>8

\* The search has found the key; a store replaces its value.
LEMMA EqualInv == ASSUME SearchInv, Equal PROVE SearchInv'
  <1> DEFINE s == Innermost
  <1>1. /\ s \in SearchRecord
        /\ searched = "dict" /\ searches # <<>> /\ searches' = Outer
        /\ s.at \in DOMAIN entries /\ s.with = entries[s.at].key
        /\ entries' \in Seq(Entry) /\ Len(entries') = Len(entries)
        /\ DOMAIN entries' = DOMAIN entries
        /\ \A i \in DOMAIN entries : entries'[i].key = entries[i].key
        /\ \A i \in DOMAIN entries :
              entries'[i].val = IF s.op # "get" /\ i = s.at THEN s.val ELSE entries[i].val
        /\ UNCHANGED <<searched, elements>>
    BY FoundEntry DEF Equal
  <1>2. /\ s.with = s.key /\ disturbed' = disturbed
        /\ stored' = IF s.op = "get" THEN stored ELSE [stored EXCEPT ![s.key] = <<s.val>>]
    BY DEF Equal
  <1> HIDE DEF s
  <1>3. /\ s.key \in Objects /\ s.val \in DictVals /\ <<s.val>> # <<>>
        /\ stored \in [Objects -> Seq(DictVals)] /\ disturbed \subseteq Objects
    BY <1>1 DEF SearchRecord, SearchInv, SearchState
  <1>4. /\ stored' \in [Objects -> Seq(DictVals)]
        /\ \A k \in Objects : stored'[k] = IF s.op # "get" /\ k = s.key THEN <<s.val>>
                                           ELSE stored[k]
    BY <1>2, <1>3
  <1>5. EntriesAreWhatWasStored'
    <2> SUFFICES ASSUME NEW k \in Objects, k \notin disturbed
                 PROVE  LET own == {i \in DOMAIN entries : entries[i].key = k}
                        IN  IF stored'[k] = <<>> THEN own = {}
                            ELSE \E i \in own : own = {i} /\ stored'[k] = <<entries'[i].val>>
      BY <1>1, <1>2 DEF EntriesAreWhatWasStored
    <2> DEFINE own == {i \in DOMAIN entries : entries[i].key = k}
    <2>1. IF stored[k] = <<>> THEN own = {}
          ELSE \E i \in own : own = {i} /\ stored[k] = <<entries[i].val>>
      BY DEF SearchInv, EntriesAreWhatWasStored
    <2>2. s.at \in own <=> k = s.key
      BY <1>1, <1>2
    <2>3. own \subseteq DOMAIN entries
      OBVIOUS
    <2> HIDE DEF own
    <2>4. CASE s.op # "get" /\ k = s.key
      <3>1. own = {s.at}
        BY <2>1, <2>2, <2>4
      <3> QED
        <4>1. stored'[k] = <<s.val>> /\ stored'[k] # <<>> /\ entries'[s.at].val = s.val
          BY <1>1, <1>3, <1>4, <2>4
        <4>2. IF stored'[k] = <<>> THEN own = {}
              ELSE \E i \in own : own = {i} /\ stored'[k] = <<entries'[i].val>>
          BY <3>1, <4>1
        <4> QED
          BY <4>2 DEF own
    <2>5. CASE ~(s.op # "get" /\ k = s.key)
      <3>1. \A i \in own : entries'[i].val = entries[i].val
        BY <1>1, <2>2, <2>3, <2>5
      <3> QED
        BY <1>4, <2>1, <2>5, <3>1 DEF own
    <2> QED
      BY <2>4, <2>5
  <1> QED
    BY <1>1, <1>2, <1>3, <1>4, <1>5, SearchesOfKeys

\* The comparison has raised, which counts as true.
LEMMA ComparisonRaisesInv == ASSUME SearchInv, ComparisonRaises PROVE SearchInv'
  <1> DEFINE s == Innermost
  <1>1. /\ s \in SearchRecord
        /\ searched = "dict" /\ searches # <<>> /\ searches' = Outer
        /\ s.at \in DOMAIN entries /\ s.with = entries[s.at].key
        /\ entries' \in Seq(Entry) /\ Len(entries') = Len(entries)
        /\ DOMAIN entries' = DOMAIN entries
        /\ \A i \in DOMAIN entries : entries'[i].key = entries[i].key
        /\ \A i \in DOMAIN entries :
              entries'[i].val = IF s.op # "get" /\ i = s.at THEN s.val ELSE entries[i].val
        /\ UNCHANGED <<searched, elements>>
    BY FoundEntry DEF ComparisonRaises
  <1>2. /\ stored' = stored
        /\ disturbed' = IF s.op = "get" THEN disturbed ELSE disturbed \cup {s.with}
    BY DEF ComparisonRaises
  <1> HIDE DEF s
  <1>3. /\ s.with \in Objects
        /\ stored \in [Objects -> Seq(DictVals)] /\ disturbed \subseteq Objects
    BY <1>1 DEF SearchRecord, SearchInv, SearchState
  <1>4. disturbed \subseteq disturbed' /\ disturbed' \subseteq Objects
    BY <1>2, <1>3
  <1>5. EntriesAreWhatWasStored'
    <2> SUFFICES ASSUME NEW k \in Objects, k \notin disturbed'
                 PROVE  LET own == {i \in DOMAIN entries : entries[i].key = k}
                        IN  IF stored[k] = <<>> THEN own = {}
                            ELSE \E i \in own : own = {i} /\ stored[k] = <<entries'[i].val>>
      BY <1>1, <1>2 DEF EntriesAreWhatWasStored
    <2> DEFINE own == {i \in DOMAIN entries : entries[i].key = k}
    <2>1. IF stored[k] = <<>> THEN own = {}
          ELSE \E i \in own : own = {i} /\ stored[k] = <<entries[i].val>>
      BY <1>4 DEF SearchInv, EntriesAreWhatWasStored
    <2>2. \A i \in own : entries'[i].val = entries[i].val
      BY <1>1, <1>2
    <2> HIDE DEF own
    <2>3. IF stored[k] = <<>> THEN own = {}
          ELSE \E i \in own : own = {i} /\ stored[k] = <<entries'[i].val>>
      BY <2>1, <2>2
    <2> QED
      BY <2>3 DEF own
  <1> QED
    BY <1>1, <1>2, <1>3, <1>4, <1>5, SearchesOfKeys
\* A store has met the key nowhere and adds an entry: searches of the same key
\* meet it, except for one that is at what was the last entry.
LEMMA NoEntryInv == ASSUME SearchInv, NoEntry PROVE SearchInv'
  <1> DEFINE s == Innermost
             e == [key |-> s.key, val |-> s.val]
             new == Len(entries) + 1
  <1>1. /\ searched = "dict" /\ searches # <<>> /\ searches' = Outer
        /\ s.at = 0 /\ s.ahead = 0
        /\ UNCHANGED <<searched, elements>>
    BY DEF NoEntry, Between
  <1>2. s \in SearchRecord /\ InProgress(s)
    BY <1>1, InnermostSearch DEF SearchInv
  <1>3. s.op # "remove" /\ DictSearch(s)
    BY <1>1, <1>2 DEF SearchInv, SearchesGoOn
  <1>4. CASE s.op = "get"
    <2>1. UNCHANGED <<entries, stored, disturbed>>
      BY <1>4 DEF NoEntry, dict
    <2>2. EntriesAreWhatWasStored'
      BY <2>1 DEF SearchInv, EntriesAreWhatWasStored
    <2> QED
      BY <1>1, <2>1, <2>2, SearchesOfKeys DEF SearchInv, SearchState
  <1>5. CASE s.op # "get"
    <2>1. /\ Len(entries) < MaxPlaces
          /\ entries' = Append(entries, e)
          /\ stored' = [stored EXCEPT ![s.key] = <<s.val>>]
          /\ disturbed' = IF Overlooking(s.key) THEN disturbed \cup {s.key} ELSE disturbed
      BY <1>5 DEF NoEntry
    <2>2. /\ entries \in Seq(Entry) /\ array \in Seq(Objects)
          /\ stored \in [Objects -> Seq(DictVals)] /\ disturbed \subseteq Objects
      BY DEF SearchInv, SearchState
    <2>3. /\ s.key \in Objects /\ s.val \in DictVals /\ s.op = "set"
          /\ e \in Entry /\ e.key = s.key /\ e.val = s.val
      BY <1>2, <1>3, <1>5 DEF SearchRecord, Entry, Operations
    <2> HIDE DEF s, e, Entry
    <2>4. /\ entries' \in Seq(Entry) /\ Len(entries) \in Nat
          /\ Len(entries') = new
          /\ DOMAIN entries = 1..Len(entries) /\ DOMAIN entries' = 1..new
          /\ \A i \in 1..Len(entries) : entries'[i] = entries[i]
          /\ entries'[new] = e
      BY <2>1, <2>2, <2>3, AppendTyped
    <2>5. new \in Nat /\ Len(entries) < new
      BY <2>4
    <2>6. \A i \in DOMAIN entries' : i \in DOMAIN entries \/ i = new
      BY <2>4
    <2> HIDE DEF new
    <2>7. /\ stored' \in [Objects -> Seq(DictVals)]
          /\ \A k \in Objects : stored'[k] = IF k = s.key THEN <<s.val>> ELSE stored[k]
      BY <2>1, <2>2, <2>3
    <2>8. /\ disturbed \subseteq disturbed' /\ disturbed' \subseteq Objects
          /\ s.key \notin disturbed' => ~Overlooking(s.key)
      BY <2>1, <2>2, <2>3
    <2>9. /\ searches' \in Seq(SearchRecord)
          /\ \A x : InProgress(x)' <=> x \in ToSet(Outer)
          /\ \A x : InProgress(x)' => InProgress(x)
      BY <1>1, SearchEnded DEF SearchInv
    <2>10. UNCHANGED <<array, used, refs, astray>>
      BY <1>1 DEF elements
    <2>11. SearchState'
      <3>1. Len(entries') <= MaxPlaces
        BY <2>1, <2>4, SearchAssumption DEF new
      <3> QED
        BY <1>1, <2>4, <2>7, <2>8, <2>9, <2>10, <3>1 DEF SearchInv, SearchState
    <2>12. \A i \in DOMAIN entries : entries[i].key = s.key => s.key \in disturbed
      <3>1. \A i \in DOMAIN entries : i # 0 /\ ~Meets(s, i)
        BY <1>1, <2>4 DEF Meets
      <3> QED
        BY <1>3, <2>3, <3>1 DEF DictSearch
    <2>13. EntriesAreWhatWasStored'
      <3> SUFFICES ASSUME NEW k \in Objects, k \notin disturbed'
                   PROVE  LET own == {i \in DOMAIN entries' : entries'[i].key = k}
                          IN  IF stored'[k] = <<>> THEN own = {}
                              ELSE \E i \in own : own = {i} /\ stored'[k] = <<entries'[i].val>>
        BY DEF EntriesAreWhatWasStored
      <3> DEFINE own == {i \in DOMAIN entries : entries[i].key = k}
                 own2 == {i \in DOMAIN entries' : entries'[i].key = k}
      <3>1. IF stored[k] = <<>> THEN own = {}
            ELSE \E i \in own : own = {i} /\ stored[k] = <<entries[i].val>>
        BY <2>8 DEF SearchInv, EntriesAreWhatWasStored
      <3>2. \A i \in own : i \in DOMAIN entries /\ entries'[i] = entries[i]
        BY <2>4
      <3>3. CASE k = s.key
        <4>1. own = {}
          BY <2>8, <2>12, <3>3
        <4>2. own2 = {new}
          <5>1. \A i \in DOMAIN entries : i \in DOMAIN entries' /\ entries'[i] = entries[i]
            BY <2>4, <2>5
          <5>2. new \in DOMAIN entries'
            BY <2>4, <2>5
          <5> QED
            BY <2>3, <2>4, <2>6, <3>3, <4>1, <5>1, <5>2
        <4> HIDE DEF own2
        <4>5. stored'[k] = <<s.val>> /\ <<s.val>> # <<>>
          BY <2>7, <3>3
        <4>3. stored'[k] # <<>> /\ entries'[new].val = s.val
          BY <2>3, <2>4, <4>5
        <4>4. IF stored'[k] = <<>> THEN own2 = {}
              ELSE \E i \in own2 : own2 = {i} /\ stored'[k] = <<entries'[i].val>>
          BY <4>2, <4>3, <4>5
        <4> QED
          BY <4>4 DEF own2
      <3>4. CASE k # s.key
        <4>1. own2 = own
          <5>1. \A i \in DOMAIN entries : i \in DOMAIN entries' /\ entries'[i] = entries[i]
            BY <2>4, <2>5
          <5> QED
            BY <2>3, <2>4, <2>6, <3>4, <5>1
        <4>2. stored'[k] = stored[k]
          BY <2>7, <3>4
        <4> HIDE DEF own, own2
        <4>3. IF stored'[k] = <<>> THEN own2 = {}
              ELSE \E i \in own2 : own2 = {i} /\ stored'[k] = <<entries'[i].val>>
          BY <3>1, <3>2, <4>1, <4>2
        <4> QED
          BY <4>3 DEF own2
      <3> QED
        BY <3>3, <3>4
    <2>14. SearchesGoOn'
      <3> SUFFICES ASSUME NEW x \in SearchRecord, InProgress(x)'
                   PROVE  IF x.op = "remove" THEN searched' = "list" /\ ListSearch(x)'
                          ELSE searched' = "dict" /\ DictSearch(x)'
        BY DEF SearchesGoOn
      <3>1. x.op # "remove" /\ DictSearch(x)
        BY <1>1, <2>9 DEF SearchInv, SearchesGoOn
      <3>2. x.at \in Nat /\ x.ahead \in Nat /\ x.at <= Len(entries) /\ x.ahead <= Len(entries)
        BY <3>1, SearchAssumption DEF DictSearch, SearchRecord
      <3>3. x.at # 0 => x.with = entries'[x.at].key
        BY <2>4, <3>1, <3>2 DEF DictSearch
      <3>4. x.known => \E i \in DOMAIN entries' : entries'[i].key = x.key /\ Meets(x, i)
        <4>1. \A i \in DOMAIN entries : i \in DOMAIN entries' /\ entries'[i] = entries[i]
          BY <2>4, <2>5
        <4> QED
          BY <3>1, <4>1 DEF DictSearch
      <3>5. ASSUME x.op = "set", x.key \notin disturbed',
                   NEW i \in DOMAIN entries', entries'[i].key = x.key
            PROVE  Meets(x, i)
        <4>1. CASE i \in DOMAIN entries
          BY <2>4, <2>8, <3>1, <3>5, <4>1 DEF DictSearch
        <4>2. CASE i = new
          <5>1. x.key = s.key
            BY <2>3, <2>4, <3>5, <4>2
          <5>2. ~Overlooking(s.key)
            BY <2>8, <3>5, <5>1
          <5>3. x.ahead # 0
            BY <2>9, <3>5, <5>1, <5>2 DEF Overlooking
          <5> QED
            BY <2>4, <2>5, <3>2, <4>2, <5>3 DEF Meets
        <4> QED
          BY <2>6, <4>1, <4>2
      <3>6. x.at <= Len(entries') /\ x.ahead <= Len(entries')
        BY <2>4, <2>5, <3>2
      <3>7. DictSearch(x)'
        BY <3>3, <3>4, <3>5, <3>6 DEF DictSearch, Meets
      <3> QED
        BY <1>1, <3>1, <3>7
    <2>15. ReferencesExact'
      BY <2>10 DEF SearchInv, ReferencesExact, PlacesOf
    <2> QED
      BY <2>11, <2>13, <2>14, <2>15 DEF SearchInv
  <1> QED
    BY <1>4, <1>5
-----------------------------------------------------------------------------
(***************************************************************************)
(* The elements of a list.                                                 *)
(***************************************************************************)
\* The places of a list are finitely many.
LEMMA PlacesFinite ==
    ASSUME SearchState, NEW k
    PROVE  IsFiniteSet(PlacesOf(k)) /\ Cardinality(PlacesOf(k)) \in Nat
  <1>1. 1..used = {} \/ IsFiniteSet(1..used)
    <2>1. used \in Int
      BY LenProperties DEF SearchState
    <2> QED
      BY <2>1, FS_Interval
  <1>2. IsFiniteSet(1..used)
    BY <1>1, FS_EmptySet
  <1>3. PlacesOf(k) \subseteq 1..used
    BY DEF PlacesOf
  <1> QED
    BY <1>2, <1>3, FS_Subset, FS_CardinalityType

\* Code appends an element: no search in progress has a place beyond the end.
LEMMA AppendElementInv ==
    ASSUME SearchInv, NEW k \in Objects, AppendElement(k)
    PROVE  SearchInv'
  <1> DEFINE new == used + 1
  <1>1. /\ searched = "list" /\ ~astray /\ used < MaxPlaces
        /\ array' = IF used = Len(array) THEN Append(array, k) ELSE [array EXCEPT ![new] = k]
        /\ used' = new
        /\ refs' = [refs EXCEPT ![k] = @ + 1]
        /\ UNCHANGED <<searched, entries, stored, disturbed, searches, astray>>
    BY DEF AppendElement, CodeRuns, dict
  <1>2. /\ array \in Seq(Objects) /\ Len(array) \in Nat
        /\ used \in 0..Len(array)
        /\ refs \in [Objects -> Int]
    BY <1>1, LenProperties DEF SearchInv, SearchState
  <1>3. /\ array' \in Seq(Objects) /\ Len(array') \in Nat
        /\ Len(array) <= Len(array') /\ new <= Len(array')
        /\ \A i \in 1..used : array'[i] = array[i]
        /\ array'[new] = k
    <2>1. CASE used = Len(array)
      <3>1. array' = Append(array, k)
        BY <1>1, <2>1
      <3> QED
        BY <1>2, <2>1, <3>1, AppendTyped
    <2>2. CASE used # Len(array)
      <3>1. new \in 1..Len(array) /\ array' = [array EXCEPT ![new] = k]
        BY <1>1, <1>2, <2>2
      <3>2. /\ array' \in Seq(Objects) /\ Len(array') = Len(array)
            /\ \A i \in 1..Len(array) : array'[i] = IF i = new THEN k ELSE array[i]
        BY <1>2, <3>1, ExceptSeq
      <3> QED
        BY <1>2, <3>1, <3>2
    <2> QED
      BY <2>1, <2>2
  <1>4. new \in Nat /\ used < new
    BY <1>2
  <1>5. SearchState'
    <2>1. used' \in -1..Len(array') /\ used' <= MaxPlaces /\ used' >= 0
      BY <1>1, <1>2, <1>3, SearchAssumption
    <2> QED
      BY <1>1, <1>2, <1>3, <2>1 DEF SearchInv, SearchState
  <1>6. SearchesGoOn'
    <2> SUFFICES ASSUME NEW x \in SearchRecord, InProgress(x)'
                 PROVE  IF x.op = "remove" THEN searched' = "list" /\ ListSearch(x)'
                        ELSE searched' = "dict" /\ DictSearch(x)'
      BY DEF SearchesGoOn
    <2>1. InProgress(x)
      BY <1>1 DEF InProgress
    <2>2. x.op = "remove" /\ ListSearch(x)
      BY <1>1, <2>1 DEF SearchInv, SearchesGoOn
    <2>3. x.at \in Nat
      BY SearchAssumption DEF SearchRecord
    <2>4. ListSearch(x)'
      BY <1>1, <1>2, <1>3, <1>4, <2>2, <2>3 DEF ListSearch
    <2> QED
      BY <1>1, <2>2, <2>4
  <1>7. ReferencesExact'
    <2> SUFFICES ASSUME NEW j \in Objects PROVE refs'[j] = Cardinality(PlacesOf(j)')
      BY DEF ReferencesExact
    <2>1. /\ IsFiniteSet(PlacesOf(j)) /\ Cardinality(PlacesOf(j)) \in Nat
          /\ refs[j] = Cardinality(PlacesOf(j))
      BY <1>1, PlacesFinite DEF SearchInv, ReferencesExact
    <2>2. \A i : i \in 1..new <=> i \in 1..used \/ i = new
      BY <1>2
    <2>3. PlacesOf(j)' = IF j = k THEN PlacesOf(j) \cup {new} ELSE PlacesOf(j)
      BY <1>1, <1>3, <2>2 DEF PlacesOf
    <2>4. new \notin PlacesOf(j)
      BY <1>2, <1>4 DEF PlacesOf
    <2>5. Cardinality(PlacesOf(j) \cup {new}) = Cardinality(PlacesOf(j)) + 1
      BY <2>1, <2>4, FS_AddElement
    <2>6. refs'[j] = IF j = k THEN refs[j] + 1 ELSE refs[j]
      BY <1>1, <1>2
    <2> QED
      BY <2>1, <2>3, <2>5, <2>6
  <1>8. EntriesAreWhatWasStored'
    BY <1>1 DEF SearchInv, EntriesAreWhatWasStored
  <1> QED
    BY <1>5, <1>6, <1>7, <1>8 DEF SearchInv

\* The element at p is removed, and those after it move up: an object has one
\* place less if it was there.
LEMMA PlacesMoveUp ==
    ASSUME SearchState, NEW p \in 1..used, array' = MovedUp(p), used' = used - 1, NEW k
    PROVE  Cardinality(PlacesOf(k)') =
              Cardinality(PlacesOf(k)) - (IF array[p] = k THEN 1 ELSE 0)
  <1> DEFINE A == PlacesOf(k) \ {p}
             B == {i \in 1..(used - 1) : array'[i] = k}
             up(i) == IF i < p THEN i ELSE i - 1
             down(i) == IF i < p THEN i ELSE i + 1
             f == [i \in A |-> up(i)]
  <1>1. used \in Nat /\ Len(array) \in Nat /\ used <= Len(array) /\ DOMAIN array = 1..Len(array)
        /\ p \in Nat /\ 1 <= p /\ p <= used
    BY LenProperties DEF SearchState
  <1>2. \A i \in 1..(used - 1) : array'[i] = array[down(i)]
    BY <1>1 DEF MovedUp
  <1>3. /\ \A i \in A : i \in 1..used /\ i # p /\ array[i] = k
        /\ \A i : i \in 1..used /\ i # p /\ array[i] = k => i \in A
    BY DEF PlacesOf
  <1>4. \A i \in 1..used : i # p => up(i) \in 1..(used - 1) /\ down(up(i)) = i
    BY <1>1
  <1>5. \A i \in 1..(used - 1) : down(i) \in 1..used /\ down(i) # p /\ up(down(i)) = i
    BY <1>1
  <1>6. B = PlacesOf(k)'
    BY DEF PlacesOf
  <1>7. \A i \in B : i \in 1..(used - 1) /\ array'[i] = k
    OBVIOUS
  <1>8. \A i \in 1..(used - 1) : array'[i] = k => i \in B
    OBVIOUS
  <1> HIDE DEF A, B, up, down
  <1>9. f \in Bijection(A, B)
    <2>1. \A i \in A : f[i] = up(i) /\ f[i] \in B
      BY <1>2, <1>3, <1>4, <1>8
    <2>2. f \in [A -> B]
      BY <2>1
    <2>3. \A i, j \in A : f[i] = f[j] => i = j
      BY <1>3, <1>4, <2>1
    <2>4. \A b \in B : \E a \in A : f[a] = b
      <3> SUFFICES ASSUME NEW b \in B PROVE down(b) \in A /\ f[down(b)] = b
        OBVIOUS
      <3>1. down(b) \in A
        BY <1>2, <1>3, <1>5, <1>7
      <3> QED
        BY <1>5, <1>7, <2>1, <3>1
    <2> QED
      BY <2>2, <2>3, <2>4, Fun_IsBij
  <1>10. IsFiniteSet(PlacesOf(k)) /\ Cardinality(PlacesOf(k)) \in Nat
    BY PlacesFinite
  <1>11. IsFiniteSet(A) /\ Cardinality(A) =
            Cardinality(PlacesOf(k)) - (IF array[p] = k THEN 1 ELSE 0)
    <2>1. p \in PlacesOf(k) <=> array[p] = k
      BY DEF PlacesOf
    <2> QED
      BY <1>10, <2>1, FS_RemoveElement DEF A
  <1>12. Cardinality(A) = Cardinality(B)
    BY <1>9, <1>11, FS_Bijection DEF ExistsBijection
  <1> QED
    BY <1>6, <1>11, <1>12
\* An element is removed: exactly what was compared, unless it has moved; and
\* what has moved now is known to.
LEMMA RemoveElementInv == ASSUME SearchInv, RemoveElement PROVE SearchInv'
  <1> DEFINE s == Innermost
             p == s.at
             after(y) == [y EXCEPT !.moved = @ \/ y.at >= p]
  <1>1. /\ searched = "list" /\ ~astray /\ searches # <<>> /\ p # 0
        /\ refs' = [refs EXCEPT ![array[p]] = @ - 1]
        /\ used' = used - 1
        /\ array' = MovedUp(p)
        /\ astray' = (astray \/ s.moved)
        /\ searches' = [i \in DOMAIN Outer |-> after(Outer[i])]
        /\ UNCHANGED <<searched, entries, stored, disturbed>>
    BY DEF RemoveElement, Comparing, dict
  <1>2. /\ s \in SearchRecord /\ InProgress(s)
        /\ Outer \in Seq(SearchRecord)
        /\ \A y : y \in ToSet(Outer) => y \in SearchRecord /\ InProgress(y)
    BY <1>1, InnermostSearch DEF SearchInv
  <1>3. s.op = "remove" /\ ListSearch(s)
    BY <1>1, <1>2 DEF SearchInv, SearchesGoOn
  <1>4. /\ array \in Seq(Objects) /\ Len(array) \in Nat /\ DOMAIN array = 1..Len(array)
        /\ \A i \in 1..Len(array) : array[i] \in Objects
        /\ used \in 0..Len(array) /\ used <= MaxPlaces
        /\ refs \in [Objects -> Int]
    BY <1>1, LenProperties, ElementOfSeq DEF SearchInv, SearchState
  <1>5. p \in Nat /\ p \in 1..Len(array) /\ (~s.moved => p \in 1..used)
    BY <1>1, <1>2, <1>3, <1>4, SearchAssumption DEF SearchRecord, ListSearch
  <1>14. s.moved \in BOOLEAN /\ astray' = s.moved
    <2>1. s.moved \in BOOLEAN
      BY <1>2 DEF SearchRecord
    <2>2. astray \in BOOLEAN
      BY DEF SearchInv, SearchState
    <2> QED
      BY <1>1, <2>1, <2>2
  <1> HIDE DEF s
  <1>6. /\ array' \in Seq(Objects) /\ Len(array') = Len(array)
        /\ \A i \in 1..(p - 1) : array'[i] = array[i]
    <2>1. \A i \in 1..Len(array) :
             /\ i >= p /\ i < used => array'[i] = array[i + 1]
             /\ ~(i >= p /\ i < used) => array'[i] = array[i]
      BY <1>1, <1>4 DEF MovedUp
    <2>2. \A i \in 1..Len(array) : array'[i] \in Objects
      BY <1>4, <2>1
    <2>3. array' = [i \in 1..Len(array) |-> array'[i]]
      BY <1>1, <1>4 DEF MovedUp
    <2>4. array' \in [1..Len(array) -> Objects]
      BY <2>2, <2>3
    <2>5. array' \in Seq(Objects)
      <3> DEFINE n == Len(array)
      <3>1. n \in Nat /\ array' \in [1..n -> Objects]
        BY <1>4, <2>4
      <3> HIDE DEF n
      <3> QED
        BY <3>1, SeqDef
    <2>6. Len(array') = Len(array)
      BY <1>4, <2>4, <2>5, LenProperties
    <2> QED
      BY <1>4, <1>5, <2>1, <2>5, <2>6
  <1>7. \A y \in SearchRecord :
           /\ after(y) \in SearchRecord
           /\ after(y).op = y.op /\ after(y).at = y.at /\ after(y).with = y.with
           /\ after(y).ahead = y.ahead /\ after(y).known = y.known
           /\ after(y).moved <=> y.moved \/ y.at >= p
    <2> SUFFICES ASSUME NEW y \in SearchRecord
                 PROVE  /\ after(y) \in SearchRecord
                        /\ after(y).op = y.op /\ after(y).at = y.at
                        /\ after(y).with = y.with /\ after(y).ahead = y.ahead
                        /\ after(y).known = y.known
                        /\ after(y).moved <=> y.moved \/ y.at >= p
      OBVIOUS
    <2> DEFINE m == y.moved \/ y.at >= p
    <2>1. m \in BOOLEAN
      OBVIOUS
    <2>2. after(y) = [y EXCEPT !.moved = m]
      BY DEF SearchRecord
    <2> HIDE DEF after, m
    <2>3. /\ after(y) \in SearchRecord
          /\ after(y).op = y.op /\ after(y).at = y.at
          /\ after(y).with = y.with /\ after(y).ahead = y.ahead
          /\ after(y).known = y.known /\ after(y).moved = m
      BY <2>1, <2>2 DEF SearchRecord
    <2> QED
      BY <2>3 DEF m
  <1> HIDE DEF after, p, SearchRecord
  <1>8. \A x : InProgress(x)' => \E y \in SearchRecord : InProgress(y) /\ x = after(y)
    BY <1>1, <1>2 DEF InProgress, ToSet
  <1>9. searches' \in Seq(SearchRecord)
    <2>1. DOMAIN Outer = 1..Len(Outer) /\ Len(Outer) \in Nat
      BY <1>2, LenProperties
    <2>2. \A i \in 1..Len(Outer) : after(Outer[i]) \in SearchRecord
      BY <1>2, <1>7, <2>1, ElementOfSeq
    <2>3. searches' \in [1..Len(Outer) -> SearchRecord]
      BY <1>1, <2>1, <2>2
    <2> QED
      BY <2>1, <2>3, SeqDef
  <1>10. SearchState'
    <2>1. astray' \in BOOLEAN /\ (~astray' => used' >= 0)
      <3>1. ~s.moved => used' >= 0
        BY <1>1, <1>4, <1>5
      <3> QED
        BY <1>14, <3>1
    <2>2. used' \in -1..Len(array') /\ used' <= MaxPlaces
      BY <1>1, <1>4, <1>6, SearchAssumption
    <2>3. refs' \in [Objects -> Int]
      BY <1>1, <1>4, <1>5
    <2> QED
      BY <1>1, <1>6, <1>9, <2>1, <2>2, <2>3 DEF SearchInv, SearchState
  <1>11. SearchesGoOn'
    <2> SUFFICES ASSUME NEW x \in SearchRecord, InProgress(x)'
                 PROVE  IF x.op = "remove" THEN searched' = "list" /\ ListSearch(x)'
                        ELSE searched' = "dict" /\ DictSearch(x)'
      BY DEF SearchesGoOn
    <2>1. PICK y \in SearchRecord : InProgress(y) /\ x = after(y)
      BY <1>8
    <2>2. y.op = "remove" /\ ListSearch(y)
      BY <1>1, <2>1 DEF SearchInv, SearchesGoOn
    <2>3. y.at \in Nat
      BY SearchAssumption DEF SearchRecord
    <2>4. /\ x.op = y.op /\ x.at = y.at /\ x.with = y.with
          /\ x.ahead = y.ahead /\ x.known = y.known
          /\ x.moved <=> y.moved \/ y.at >= p
      BY <1>7, <2>1
    <2>5. ASSUME ~astray', x.at # 0, ~x.moved
          PROVE  x.at <= used' /\ array'[x.at] = x.with
      <3>1. ~y.moved /\ y.at < p /\ p \in 1..used
        BY <1>5, <1>14, <2>3, <2>4, <2>5
      <3>2. y.at \in 1..(p - 1) /\ array[y.at] = y.with
        BY <1>1, <1>5, <2>2, <2>3, <2>4, <2>5, <3>1 DEF ListSearch
      <3> QED
        <4>1. x.at <= used - 1
          BY <1>4, <1>5, <2>3, <2>4, <3>1
        <4>2. array'[x.at] = x.with
          BY <1>6, <2>4, <3>2
        <4> QED
          BY <1>1, <4>1, <4>2
    <2>6. ListSearch(x)'
      BY <1>6, <2>2, <2>4, <2>5 DEF ListSearch
    <2> QED
      BY <1>1, <2>2, <2>4, <2>6
  <1>12. ReferencesExact'
    <2> SUFFICES ASSUME ~astray', NEW k \in Objects PROVE refs'[k] = Cardinality(PlacesOf(k)')
      BY DEF ReferencesExact
    <2>1. p \in 1..used /\ array[p] \in Objects
      BY <1>1, <1>4, <1>5
    <2>2. Cardinality(PlacesOf(k)') =
             Cardinality(PlacesOf(k)) - (IF array[p] = k THEN 1 ELSE 0)
      BY <1>1, <2>1, PlacesMoveUp DEF SearchInv
    <2>3. refs[k] = Cardinality(PlacesOf(k))
      BY <1>1 DEF SearchInv, ReferencesExact
    <2>4. refs'[k] = refs[k] - (IF array[p] = k THEN 1 ELSE 0)
      BY <1>1, <1>4, <2>1
    <2> QED
      BY <2>2, <2>3, <2>4
  <1>13. EntriesAreWhatWasStored'
    BY <1>1 DEF SearchInv, EntriesAreWhatWasStored
  <1> QED
    BY <1>10, <1>11, <1>12, <1>13 DEF SearchInv

-----------------------------------------------------------------------------
\* A new dict, or a new list.
LEMMA SearchInitInv == SearchInit => SearchInv
  <1> SUFFICES ASSUME SearchInit PROVE SearchInv
    OBVIOUS
  <1>1. /\ searched \in {"dict", "list"} /\ entries = <<>> /\ array = <<>> /\ used = 0
        /\ searches = <<>> /\ stored = [k \in Objects |-> <<>>] /\ disturbed = {}
        /\ refs = [k \in Objects |-> 0] /\ astray = FALSE
    BY DEF SearchInit
  <1>2. SearchState
    <2>1. /\ entries \in Seq(Entry) /\ array \in Seq(Objects)
          /\ searches \in Seq(SearchRecord) /\ <<>> \in Seq(DictVals)
          /\ Len(entries) = 0 /\ Len(array) = 0
      BY <1>1, EmptySeq
    <2>2. used \in -1..Len(array) /\ used <= MaxPlaces /\ used >= 0
      BY <1>1, <2>1, SearchAssumption
    <2>3. stored \in [Objects -> Seq(DictVals)] /\ refs \in [Objects -> Int]
      BY <1>1, <2>1
    <2>4. Len(entries) <= MaxPlaces
      BY <2>1, SearchAssumption
    <2> QED
      BY <1>1, <2>1, <2>2, <2>3, <2>4 DEF SearchState
  <1>3. DOMAIN entries = {} /\ DOMAIN searches = {}
    BY <1>1
  <1>4. SearchesGoOn
    BY <1>3 DEF SearchesGoOn, InProgress
  <1>5. ReferencesExact
    <2>1. \A k : PlacesOf(k) = {}
      BY <1>1 DEF PlacesOf
    <2> QED
      BY <1>1, <2>1, FS_EmptySet DEF ReferencesExact
  <1>6. EntriesAreWhatWasStored
    BY <1>1, <1>3 DEF EntriesAreWhatWasStored
  <1> QED
    BY <1>2, <1>4, <1>5, <1>6 DEF SearchInv

\* Every step of searches, and of the code they run.
LEMMA SearchNextInv == SearchInv /\ [SearchNext]_searchVars => SearchInv'
  <1> SUFFICES ASSUME SearchInv, [SearchNext]_searchVars PROVE SearchInv'
    OBVIOUS
  <1>1. ASSUME NEW op \in Operations, NEW k \in Objects, NEW v \in DictVals, Begin(op, k, v)
        PROVE  SearchInv'
    BY <1>1, BeginInv
  <1>2. CASE CompareEntry
    BY <1>2, CompareEntryInv
  <1>3. CASE CompareElement
    BY <1>3, CompareElementInv
  <1>4. CASE Differs
    BY <1>4, DiffersInv
  <1>5. CASE Equal
    BY <1>5, EqualInv
  <1>6. CASE ComparisonRaises
    BY <1>6, ComparisonRaisesInv
  <1>7. CASE NoEntry
    BY <1>7, NoEntryInv
  <1>8. ASSUME NEW k \in Objects, AppendElement(k) PROVE SearchInv'
    BY <1>8, AppendElementInv
  <1>9. CASE RemoveElement
    BY <1>9, RemoveElementInv
  <1>10. CASE NoElement
    BY <1>10, NoElementInv
  <1>11. CASE UNCHANGED searchVars
    <2>1. UNCHANGED <<searched, entries, stored, disturbed, array, used, refs, astray,
                      searches>>
      BY <1>11 DEF searchVars, dict, elements
    <2>2. SearchState' /\ ReferencesExact' /\ EntriesAreWhatWasStored'
      <3>1. SearchState'
        BY <2>1 DEF SearchInv, SearchState
      <3>2. ReferencesExact'
        BY <2>1 DEF SearchInv, ReferencesExact, PlacesOf
      <3>3. EntriesAreWhatWasStored'
        BY <2>1 DEF SearchInv, EntriesAreWhatWasStored
      <3> QED
        BY <3>1, <3>2, <3>3
    <2>3. SearchesGoOn'
      <3> SUFFICES ASSUME NEW x \in SearchRecord, InProgress(x)'
                   PROVE  IF x.op = "remove" THEN searched' = "list" /\ ListSearch(x)'
                          ELSE searched' = "dict" /\ DictSearch(x)'
        BY DEF SearchesGoOn
      <3>1. /\ ListSearch(x)' <=> ListSearch(x)
            /\ DictSearch(x)' <=> DictSearch(x)
            /\ InProgress(x)
        BY <2>1 DEF ListSearch, DictSearch, Meets, InProgress
      <3> QED
        BY <2>1, <3>1 DEF SearchInv, SearchesGoOn
    <2> QED
      BY <2>2, <2>3 DEF SearchInv
  <1> QED
    BY <1>1, <1>2, <1>3, <1>4, <1>5, <1>6, <1>7, <1>8, <1>9, <1>10, <1>11 DEF SearchNext

\* The inductive invariant holds however searches and comparisons are nested.
LEMMA SearchInvariant == SearchSpecification => []SearchInv
  BY SearchInitInv, SearchNextInv, PTL DEF SearchSpecification

(***************************************************************************)
(* The types of dicts, lists and searches: no search has a place beyond    *)
(* the cells there are, and of a list that has been let go of twice        *)
(* used_cells may be -1.                                                   *)
(***************************************************************************)
THEOREM SearchTypeCorrect == SearchSpecification => []SearchTypeOK
  <1>1. SearchInv => SearchTypeOK
    <2> SUFFICES ASSUME SearchInv PROVE SearchTypeOK
      OBVIOUS
    <2>1. /\ searched \in {"dict", "list"}
          /\ entries \in Seq([key : Objects, val : DictVals])
          /\ array \in Seq(Objects) /\ used \in -1..Len(array)
          /\ searches \in Seq(SearchRecord)
      BY DEF SearchInv, SearchState, Entry
    <2>2. ASSUME NEW s \in ToSet(searches)
          PROVE  /\ s.op \in Operations /\ s.key \in Objects /\ s.val \in DictVals
                 /\ s.op = "remove" <=> searched = "list"
                 /\ s.at \in 0..MaxPlaces /\ s.ahead \in 0..(MaxPlaces + 1)
      <3>1. s \in SearchRecord /\ InProgress(s)
        BY <2>1, LenProperties, ElementOfSeq DEF ToSet, InProgress
      <3>2. IF s.op = "remove" THEN searched = "list" ELSE searched = "dict"
        BY <3>1 DEF SearchInv, SearchesGoOn
      <3> QED
        BY <3>1, <3>2 DEF SearchRecord
    <2> QED
      BY <2>1, <2>2 DEF SearchTypeOK
  <1> QED
    BY <1>1, SearchInvariant, PTL

(***************************************************************************)
(* A dict has one entry for each key that was stored, with its last value, *)
(* whatever stores the comparisons of a store run in the middle of it,     *)
(* apart from the keys in `disturbed': one stored inside a comparison of   *)
(* another store of it that was at its last entry, and one whose           *)
(* comparison raised in a store.                                           *)
(***************************************************************************)
THEOREM DictHoldsWhatWasStored == SearchSpecification => []EntriesAreWhatWasStored
  <1>1. SearchInv => EntriesAreWhatWasStored
    BY DEF SearchInv
  <1> QED
    BY <1>1, SearchInvariant, PTL

(***************************************************************************)
(* The entry a search looks for, if it was there when the search began, is *)
(* at the place that is compared or one of those ahead.                    *)
(***************************************************************************)
THEOREM NoSearchMissesItsKey == SearchSpecification => []SearchesMeetTheirKey
  <1>1. SearchInv => SearchesMeetTheirKey
    <2> SUFFICES ASSUME SearchInv, NEW s \in ToSet(searches), s.known
                 PROVE  \E i \in DOMAIN entries :
                           entries[i].key = s.key /\ (i = s.at \/ (s.ahead # 0 /\ i >= s.ahead))
      BY DEF SearchesMeetTheirKey
    <2>1. searches \in Seq(SearchRecord)
      BY DEF SearchInv, SearchState
    <2>2. s \in SearchRecord /\ InProgress(s)
      BY <2>1, LenProperties, ElementOfSeq DEF ToSet, InProgress
    <2>3. DictSearch(s) \/ ListSearch(s)
      BY <2>2 DEF SearchInv, SearchesGoOn
    <2> QED
      BY <2>3 DEF DictSearch, ListSearch, Meets
  <1> QED
    BY <1>1, SearchInvariant, PTL

(***************************************************************************)
(* A list has as many references to an object as it has places of it, and  *)
(* the element that is about to be removed is the one that was compared,   *)
(* until a comparison removes it or one before it.                         *)
(***************************************************************************)
THEOREM ListRemovesWhatItCompared == SearchSpecification => []RemovalsAreExact
  <1>1. SearchInv => RemovalsAreExact
    <2> SUFFICES ASSUME SearchInv, ~astray
                 PROVE  /\ \A k \in Objects :
                              refs[k] = Cardinality({i \in 1..used : array[i] = k})
                        /\ \A s \in ToSet(searches) :
                              s.op = "remove" /\ s.at # 0 /\ ~s.moved =>
                                 s.at <= used /\ array[s.at] = s.with
      BY DEF RemovalsAreExact
    <2>1. \A k \in Objects : refs[k] = Cardinality({i \in 1..used : array[i] = k})
      BY DEF SearchInv, ReferencesExact, PlacesOf
    <2>2. ASSUME NEW s \in ToSet(searches), s.op = "remove", s.at # 0, ~s.moved
          PROVE  s.at <= used /\ array[s.at] = s.with
      <3>1. searches \in Seq(SearchRecord)
        BY DEF SearchInv, SearchState
      <3>2. s \in SearchRecord /\ InProgress(s)
        BY <3>1, LenProperties, ElementOfSeq DEF ToSet, InProgress
      <3> QED
        BY <2>2, <3>2 DEF SearchInv, SearchesGoOn, ListSearch
    <2> QED
      BY <2>1, <2>2
  <1> QED
    BY <1>1, SearchInvariant, PTL

=============================================================================
