--------------------------- MODULE HashMapProofs ---------------------------
(***************************************************************************)
(* Proofs about HashMap: for any names, hashes and sizes, a search in one  *)
(* bucket finds what the map holds, and the map implements MapSpec, a map  *)
(* in the order of insertion.                                              *)
(***************************************************************************)
EXTENDS HashMap, SequenceFacts, FiniteSetTheorems, TLAPS

Stored == [key : Keys, val : MapVals, found : BOOLEAN, hash : Nat]

(***************************************************************************)
(* The inductive invariant.                                                *)
(***************************************************************************)
\* The entry of a name that fits is the only one of the name, compares equal to
\* it, and is in the bucket that a search for the name looks at.
EntriesPlaced ==
    \A e \in DOMAIN values : values[e].key \notin LongKeys =>
        /\ values[e].found /\ values[e].hash = Hash[values[e].key]
        /\ e \in BucketOf(values[e].key)
        /\ \A f \in DOMAIN values : values[f].key = values[e].key => f = e

MapInv ==
    /\ hash_size \in Nat /\ values \in Seq(Stored)
    /\ buckets \in [0..(hash_size - 1) -> SUBSET DOMAIN values]
    /\ hash_size = 0 => values = <<>>
    /\ EntriesPlaced

-----------------------------------------------------------------------------
(***************************************************************************)
(* Buckets.                                                                *)
(***************************************************************************)
\* A hash has a bucket.
LEMMA IndexInRange ==
    ASSUME NEW h \in Nat, NEW size \in Nat \ {0}
    PROVE  Index(h, size) \in 0..(size - 1)
  BY DEF Index

\* A search ends at one of the entries that comparing finds.
LEMMA FirstMatch ==
    ASSUME NEW n \in Nat, NEW places \in SUBSET (1..n), places # {}
    PROVE  Min(places) \in places
  <1>1. \A i \in places : i \in Int /\ i <= n
    OBVIOUS
  <1>2. \E x \in places : \A y \in places : x <= y
    BY LeastPlace
  <1> QED
    BY <1>2 DEF Min

\* A map with n entries.
LEMMA EntriesTyped ==
    ASSUME MapInv
    PROVE  /\ Len(values) \in Nat /\ DOMAIN values = 1..Len(values)
           /\ \A e \in DOMAIN values : values[e] \in Stored
  BY LenProperties, ElementOfSeq DEF MapInv

\* A search in a bucket of the map, or one that growing has filled, ends at an
\* entry of the name that compares equal to it.
LEMMA MatchFound ==
    ASSUME MapInv, NEW k, NEW bucket \in SUBSET DOMAIN values, Matches(k, bucket) # {}
    PROVE  /\ Min(Matches(k, bucket)) \in bucket
           /\ Min(Matches(k, bucket)) \in DOMAIN values
           /\ values[Min(Matches(k, bucket))].key = k
  <1> DEFINE n == Len(values)
             places == Matches(k, bucket)
  <1>1. n \in Nat /\ DOMAIN values = 1..n
    BY EntriesTyped
  <1>2. \A e \in places : e \in bucket /\ values[e].key = k
    BY DEF Matches
  <1> HIDE DEF n, places
  <1>3. places \in SUBSET (1..n) /\ places # {}
    <2>1. places # {}
      BY DEF places
    <2> QED
      BY <1>1, <1>2, <2>1
  <1>4. Min(places) \in places
    BY <1>1, <1>3, FirstMatch
  <1>5. Min(places) \in bucket /\ Min(places) \in DOMAIN values /\ values[Min(places)].key = k
    BY <1>2, <1>4
  <1> QED
    BY <1>5 DEF places

\* The buckets in which _Ga_hashmap_set searches.
Grown == IF MustGrow THEN Refilled(NewSize) ELSE buckets

\* Growing keeps every entry where a search for its name will look.
LEMMA GrowingKeepsPlaces ==
    ASSUME MapInv
    PROVE  /\ NewSize \in Nat \ {0}
           /\ Grown \in [0..(NewSize - 1) -> SUBSET DOMAIN values]
           /\ \A e \in DOMAIN values : values[e].key \notin LongKeys =>
                 e \in Grown[Index(Hash[values[e].key], NewSize)]
  <1>1. NewSize \in Nat \ {0}
    BY MapAssumption DEF MapInv, NewSize, MustGrow
  <1>2. CASE MustGrow
    <2>1. Grown = [b \in 0..(NewSize - 1) |->
                      {e \in DOMAIN values : Index(values[e].hash, NewSize) = b}]
      BY <1>2 DEF Grown, Refilled
    <2>2. ASSUME NEW e \in DOMAIN values, values[e].key \notin LongKeys
          PROVE  e \in Grown[Index(Hash[values[e].key], NewSize)]
      <3>1. values[e].hash = Hash[values[e].key] /\ values[e].hash \in Nat
        BY <2>2, EntriesTyped DEF MapInv, EntriesPlaced, Stored
      <3>2. Index(values[e].hash, NewSize) \in 0..(NewSize - 1)
        BY <1>1, <3>1, IndexInRange
      <3> QED
        BY <2>1, <3>1, <3>2
    <2>3. Grown \in [0..(NewSize - 1) -> SUBSET DOMAIN values]
      BY <2>1
    <2> QED
      BY <1>1, <2>2, <2>3
  <1>3. CASE ~MustGrow
    <2>1. NewSize = hash_size /\ Grown = buckets
      BY <1>3 DEF NewSize, Grown
    <2> QED
      BY <1>1, <2>1 DEF MapInv, EntriesPlaced, BucketOf
  <1> QED
    BY <1>2, <1>3

-----------------------------------------------------------------------------
(***************************************************************************)
(* The operations.  Each is also a step of MapSpec.                        *)
(***************************************************************************)
pairs == [i \in DOMAIN values |-> <<values[i].key, values[i].val>>]

\* The pairs that the map stands for.
LEMMA PairsTyped ==
    ASSUME NEW vs \in Seq(Stored),
           NEW ps, ps = [i \in DOMAIN vs |-> <<vs[i].key, vs[i].val>>]
    PROVE  /\ ps \in Seq(Keys \X MapVals) /\ Len(ps) = Len(vs)
           /\ DOMAIN ps = 1..Len(vs) /\ DOMAIN vs = 1..Len(vs) /\ Len(vs) \in Nat
           /\ \A i \in 1..Len(vs) : vs[i] \in Stored /\ ps[i] = <<vs[i].key, vs[i].val>>
  <1> DEFINE n == Len(vs)
  <1>1. n \in Nat /\ DOMAIN vs = 1..n /\ \A i \in 1..n : vs[i] \in Stored
    BY LenProperties, ElementOfSeq
  <1> HIDE DEF n
  <1>2. ps \in [1..n -> Keys \X MapVals] /\ DOMAIN ps = 1..n
        /\ \A i \in 1..n : ps[i] = <<vs[i].key, vs[i].val>>
    BY <1>1 DEF Stored
  <1>3. ps \in Seq(Keys \X MapVals)
    BY <1>1, <1>2, SeqDef
  <1>4. Len(ps) = n
    BY <1>1, <1>2, <1>3, LenProperties
  <1> QED
    BY <1>1, <1>2, <1>3, <1>4 DEF n

\* The value of a name the map holds is replaced.
LEMMA SetFound ==
    ASSUME MapInv, NEW k \in Keys, NEW v \in MapVals, MapSet(k, v),
           Matches(k, Grown[Index(Hash[k], NewSize)]) # {}
    PROVE  MapInv' /\ \E i \in Dictionary!Places(k) : pairs' = [pairs EXCEPT ![i] = <<k, v>>]
  <1> DEFINE at == Index(Hash[k], NewSize)
             m == Min(Matches(k, Grown[at]))
             e == [values[m] EXCEPT !.val = v]
  <1>1. /\ hash_size' = NewSize /\ buckets' = Grown
        /\ values' = [values EXCEPT ![m].val = v]
    BY DEF MapSet, Grown
  <1>2. /\ NewSize \in Nat \ {0}
        /\ Grown \in [0..(NewSize - 1) -> SUBSET DOMAIN values]
        /\ \A x \in DOMAIN values : values[x].key \notin LongKeys =>
              x \in Grown[Index(Hash[values[x].key], NewSize)]
    BY GrowingKeepsPlaces
  <1>3. at \in 0..(NewSize - 1)
    BY <1>2, MapAssumption, IndexInRange
  <1>4. m \in DOMAIN values /\ values[m].key = k
    <2>1. Grown[at] \in SUBSET DOMAIN values
      BY <1>2, <1>3
    <2> HIDE DEF at
    <2> QED
      BY <2>1, MatchFound DEF at
  <1> HIDE DEF m, at
  <1>5. /\ values \in Seq(Stored) /\ DOMAIN values = 1..Len(values)
        /\ \A x \in DOMAIN values : values[x] \in Stored
    BY EntriesTyped DEF MapInv
  <1>6. /\ e \in Stored /\ e.key = k /\ e.val = v
        /\ e.found = values[m].found /\ e.hash = values[m].hash
    BY <1>4, <1>5 DEF Stored
  <1>7. values' = [values EXCEPT ![m] = e]
    BY <1>1, <1>4
  <1> HIDE DEF e
  <1>8. /\ values' \in Seq(Stored) /\ Len(values') = Len(values)
        /\ DOMAIN values' = DOMAIN values
        /\ \A x \in DOMAIN values : values'[x] = IF x = m THEN e ELSE values[x]
    BY <1>4, <1>5, <1>6, <1>7, ExceptSeq
  <1>9. \A x \in DOMAIN values :
           /\ values'[x].key = values[x].key /\ values'[x].found = values[x].found
           /\ values'[x].hash = values[x].hash
           /\ values'[x].val = IF x = m THEN v ELSE values[x].val
    BY <1>4, <1>6, <1>8
  <1>10. EntriesPlaced'
    <2> SUFFICES ASSUME NEW x \in DOMAIN values, values'[x].key \notin LongKeys
                 PROVE  /\ values'[x].found /\ values'[x].hash = Hash[values'[x].key]
                        /\ x \in buckets'[Index(Hash[values'[x].key], hash_size')]
                        /\ \A f \in DOMAIN values : values'[f].key = values'[x].key => f = x
      BY <1>8 DEF EntriesPlaced, BucketOf
    <2>1. /\ values[x].found /\ values[x].hash = Hash[values[x].key]
          /\ \A f \in DOMAIN values : values[f].key = values[x].key => f = x
      BY <1>9 DEF MapInv, EntriesPlaced
    <2> QED
      BY <1>1, <1>2, <1>9, <2>1
  <1>11. MapInv'
    BY <1>1, <1>2, <1>8, <1>10 DEF MapInv
  <1>12. pairs' = [pairs EXCEPT ![m] = <<k, v>>]
    BY <1>4, <1>8, <1>9 DEF pairs
  <1>13. m \in Dictionary!Places(k)
    BY <1>4 DEF Dictionary!Places
  <1> QED
    BY <1>11, <1>12, <1>13
\* An entry is added for a name the search did not find.
LEMMA SetAdded ==
    ASSUME MapInv, NEW k \in Keys, NEW v \in MapVals, MapSet(k, v),
           Matches(k, Grown[Index(Hash[k], NewSize)]) = {}
    PROVE  /\ MapInv'
           /\ Dictionary!Places(k) = {} \/ k \in LongKeys
           /\ pairs' = Append(pairs, <<k, v>>)
  <1> DEFINE at == Index(Hash[k], NewSize)
             new == Len(values) + 1
  <1>1. /\ hash_size' = NewSize
        /\ buckets' = [Grown EXCEPT ![at] = @ \cup {new}]
        /\ \E copy \in Copies(k, v) : values' = Append(values, copy)
    BY DEF MapSet, Grown, dict_count
  <1>2. /\ NewSize \in Nat \ {0}
        /\ Grown \in [0..(NewSize - 1) -> SUBSET DOMAIN values]
        /\ \A x \in DOMAIN values : values[x].key \notin LongKeys =>
              x \in Grown[Index(Hash[values[x].key], NewSize)]
    BY GrowingKeepsPlaces
  <1>3. at \in 0..(NewSize - 1)
    BY <1>2, MapAssumption, IndexInRange
  <1>4. k \notin LongKeys => \A x \in DOMAIN values : values[x].key # k
    <2> SUFFICES ASSUME k \notin LongKeys, NEW x \in DOMAIN values, values[x].key = k
                 PROVE  FALSE
      OBVIOUS
    <2>1. x \in Grown[at] /\ values[x].found
      BY <1>2 DEF MapInv, EntriesPlaced
    <2> QED
      BY <2>1 DEF Matches
  <1>5. /\ values \in Seq(Stored) /\ Len(values) \in Nat /\ DOMAIN values = 1..Len(values)
        /\ \A x \in DOMAIN values : values[x] \in Stored
    BY EntriesTyped DEF MapInv
  <1>6. PICK copy \in Copies(k, v) : values' = Append(values, copy)
    BY <1>1
  <1>7. /\ copy \in Stored /\ copy.key = k /\ copy.val = v
        /\ k \notin LongKeys => copy.found /\ copy.hash = Hash[k]
    <2>1. CASE k \in LongKeys
      BY <2>1, MapAssumption DEF Copies, Stored
    <2>2. CASE k \notin LongKeys
      <3>1. copy = [key |-> k, val |-> v, found |-> TRUE, hash |-> Hash[k]]
        BY <2>2 DEF Copies
      <3> QED
        BY <2>2, <3>1, MapAssumption DEF Stored
    <2> QED
      BY <2>1, <2>2
  <1>8. /\ values' \in Seq(Stored) /\ DOMAIN values' = 1..new
        /\ \A x \in DOMAIN values : values'[x] = values[x]
        /\ values'[new] = copy
        /\ Len(values') = new
    BY <1>5, <1>6, <1>7, AppendTyped
  <1>9. /\ new \notin DOMAIN values /\ new \in DOMAIN values' /\ new \in Nat
        /\ \A x \in DOMAIN values : x \in DOMAIN values'
        /\ \A x \in DOMAIN values' : x \in DOMAIN values \/ x = new
    BY <1>5, <1>8
  <1> HIDE DEF at, new
  <1>10. /\ buckets' \in [0..(NewSize - 1) -> SUBSET DOMAIN values']
         /\ \A b \in 0..(NewSize - 1) :
               /\ Grown[b] \subseteq buckets'[b]
               /\ b = at => new \in buckets'[b]
    BY <1>1, <1>2, <1>3, <1>9
  <1>11. EntriesPlaced'
    <2> SUFFICES ASSUME NEW x \in DOMAIN values', values'[x].key \notin LongKeys
                 PROVE  /\ values'[x].found /\ values'[x].hash = Hash[values'[x].key]
                        /\ x \in buckets'[Index(Hash[values'[x].key], NewSize)]
                        /\ \A f \in DOMAIN values' : values'[f].key = values'[x].key => f = x
      BY <1>1 DEF EntriesPlaced, BucketOf
    <2>1. CASE x \in DOMAIN values
      <3>1. values'[x] = values[x] /\ values[x].key \in Keys
        BY <1>5, <1>8, <2>1 DEF Stored
      <3>2. /\ values[x].found /\ values[x].hash = Hash[values[x].key]
            /\ \A f \in DOMAIN values : values[f].key = values[x].key => f = x
            /\ x \in Grown[Index(Hash[values[x].key], NewSize)]
        BY <1>2, <2>1, <3>1 DEF MapInv, EntriesPlaced
      <3>3. Index(Hash[values[x].key], NewSize) \in 0..(NewSize - 1)
        BY <1>2, <3>1, MapAssumption, IndexInRange
      <3>4. values[x].key # k
        BY <1>4, <2>1, <3>1
      <3> QED
        BY <1>7, <1>8, <1>9, <1>10, <3>1, <3>2, <3>3, <3>4
    <2>2. CASE x = new
      <3>1. values'[x] = copy
        BY <1>8, <2>2
      <3>2. \A f \in DOMAIN values : values'[f].key # k
        BY <1>4, <1>7, <1>8, <3>1
      <3> QED
        BY <1>3, <1>7, <1>9, <1>10, <2>2, <3>1, <3>2 DEF at
    <2> QED
      BY <1>9, <2>1, <2>2
  <1>12. MapInv'
    BY <1>1, <1>2, <1>8, <1>10, <1>11 DEF MapInv
  <1>13. Dictionary!Places(k) = {} \/ k \in LongKeys
    BY <1>4 DEF Dictionary!Places
  <1>14. pairs' = Append(pairs, <<k, v>>)
    <2> DEFINE P == Keys \X MapVals
               longer == Append(pairs, <<k, v>>)
    <2>1. /\ pairs \in Seq(P) /\ Len(pairs) = Len(values)
          /\ \A i \in 1..Len(values) : pairs[i] = <<values[i].key, values[i].val>>
      BY <1>5, PairsTyped DEF pairs
    <2>2. /\ pairs' \in Seq(P) /\ Len(pairs') = new
          /\ \A i \in 1..new : pairs'[i] = <<values'[i].key, values'[i].val>>
      BY <1>8, PairsTyped DEF pairs
    <2>3. <<k, v>> \in P
      OBVIOUS
    <2> HIDE DEF P, pairs
    <2>4. /\ longer \in Seq(P) /\ Len(longer) = new
          /\ \A i \in 1..Len(values) : longer[i] = pairs[i]
          /\ longer[new] = <<k, v>>
      BY <2>1, <2>3, AppendTyped DEF new
    <2> HIDE DEF longer
    <2>5. \A i \in 1..Len(pairs') : pairs'[i] = longer[i]
      <3> SUFFICES ASSUME NEW i \in DOMAIN values' PROVE pairs'[i] = longer[i]
        BY <1>8, <2>2
      <3>1. CASE i \in DOMAIN values
        BY <1>5, <1>8, <1>9, <2>1, <2>2, <2>4, <3>1
      <3>2. CASE i = new
        BY <1>7, <1>8, <2>2, <2>4, <3>2
      <3> QED
        BY <1>9, <3>1, <3>2
    <2>6. pairs' = longer
      BY <2>2, <2>4, <2>5, SeqEqual
    <2> QED
      BY <2>6 DEF longer
  <1> QED
    BY <1>12, <1>13, <1>14
\* An entry is removed: those added later move up, on both lists.
LEMMA RemoveInv ==
    ASSUME MapInv, NEW k \in Keys, MapRemove(k)
    PROVE  MapInv' /\ Dictionary!Forget(k)
  <1> DEFINE e == Min(Matches(k, BucketOf(k)))
             n == Len(values)
             up(x) == IF x > e THEN x - 1 ELSE x
             down(x) == IF x < e THEN x ELSE x + 1
  <1>1. /\ hash_size # 0 /\ hash_size' = hash_size
        /\ Matches(k, BucketOf(k)) # {}
        /\ values' = RemoveAt(values, e)
        /\ buckets' = [b \in DOMAIN buckets |-> WithoutEntry(buckets[b], e)]
    BY DEF MapRemove
  <1>2. /\ values \in Seq(Stored) /\ n \in Nat /\ DOMAIN values = 1..n
        /\ hash_size \in Nat \ {0}
        /\ buckets \in [0..(hash_size - 1) -> SUBSET DOMAIN values]
        /\ \A x \in DOMAIN values : values[x] \in Stored
    BY <1>1, EntriesTyped DEF MapInv
  <1>3. e \in 1..n /\ values[e].key = k
    <2>1. Index(Hash[k], hash_size) \in 0..(hash_size - 1)
      BY <1>2, MapAssumption, IndexInRange
    <2>2. BucketOf(k) \in SUBSET DOMAIN values
      BY <1>2, <2>1 DEF BucketOf
    <2> QED
      BY <1>1, <1>2, <2>2, MatchFound
  <1> HIDE DEF e
  <1>4. /\ values' \in Seq(Stored) /\ Len(values') = n - 1
        /\ \A x \in 1..(n - 1) : values'[x] = IF x < e THEN values[x] ELSE values[x + 1]
    BY <1>1, <1>2, <1>3, RemoveAtTyped
  <1>5. DOMAIN values' = 1..(n - 1)
    BY <1>4, LenProperties
  <1>6. \A x \in 1..(n - 1) : down(x) \in 1..n /\ down(x) # e /\ up(down(x)) = x
    BY <1>2, <1>3
  <1>7. \A x \in 1..n : x # e => up(x) \in 1..(n - 1) /\ down(up(x)) = x
    BY <1>2, <1>3
  <1>8. \A x \in 1..(n - 1) : values'[x] = values[down(x)]
    BY <1>4
  <1>9. \A b \in 0..(hash_size - 1) :
           buckets'[b] = {up(x) : x \in buckets[b] \ {e}}
    BY <1>1, <1>2 DEF WithoutEntry
  <1>10. DOMAIN buckets' = 0..(hash_size - 1)
         /\ buckets' = [b \in 0..(hash_size - 1) |-> buckets'[b]]
    BY <1>1, <1>2
  <1> HIDE DEF n, up, down
  <1>11. buckets' \in [0..(hash_size - 1) -> SUBSET DOMAIN values']
    <2>1. ASSUME NEW b \in 0..(hash_size - 1) PROVE buckets'[b] \in SUBSET (1..(n - 1))
      BY <1>2, <1>7, <1>9
    <2> QED
      BY <1>5, <1>10, <2>1
  <1>12. EntriesPlaced'
    <2> SUFFICES ASSUME NEW x \in 1..(n - 1), values'[x].key \notin LongKeys
                 PROVE  /\ values'[x].found /\ values'[x].hash = Hash[values'[x].key]
                        /\ x \in buckets'[Index(Hash[values'[x].key], hash_size)]
                        /\ \A f \in 1..(n - 1) : values'[f].key = values'[x].key => f = x
      BY <1>1, <1>5 DEF EntriesPlaced, BucketOf
    <2> DEFINE old == down(x)
               b == Index(Hash[values[old].key], hash_size)
    <2>1. old \in DOMAIN values /\ old # e /\ up(old) = x /\ values'[x] = values[old]
      BY <1>2, <1>6, <1>8
    <2> HIDE DEF old
    <2>2. /\ values[old].found /\ values[old].hash = Hash[values[old].key]
          /\ old \in buckets[b]
          /\ \A f \in DOMAIN values : values[f].key = values[old].key => f = old
      BY <2>1 DEF MapInv, EntriesPlaced, BucketOf
    <2>3. b \in 0..(hash_size - 1)
      BY <1>2, <2>1, MapAssumption, IndexInRange DEF Stored
    <2> HIDE DEF b
    <2>4. x \in buckets'[b]
      BY <1>9, <2>1, <2>2, <2>3
    <2>5. ASSUME NEW f \in 1..(n - 1), values'[f].key = values'[x].key PROVE f = x
      <3>1. down(f) \in DOMAIN values /\ up(down(f)) = f /\ values'[f] = values[down(f)]
        BY <1>2, <1>6, <1>8
      <3>2. down(f) = old
        BY <2>1, <2>2, <2>5, <3>1
      <3> QED
        BY <2>1, <3>1, <3>2
    <2> QED
      BY <2>1, <2>2, <2>4, <2>5 DEF b
  <1>13. MapInv'
    BY <1>1, <1>2, <1>4, <1>11, <1>12 DEF MapInv
  <1>14. pairs' = RemoveAt(pairs, e)
    <2> DEFINE P == Keys \X MapVals
               rest == RemoveAt(pairs, e)
    <2>1. /\ pairs \in Seq(P) /\ Len(pairs) = n
          /\ \A i \in 1..n : pairs[i] = <<values[i].key, values[i].val>>
      BY <1>2, PairsTyped DEF pairs, n
    <2>2. /\ pairs' \in Seq(P) /\ Len(pairs') = n - 1
          /\ \A i \in 1..(n - 1) : pairs'[i] = <<values'[i].key, values'[i].val>>
      BY <1>4, PairsTyped DEF pairs
    <2> HIDE DEF P, pairs
    <2>3. /\ rest \in Seq(P) /\ Len(rest) = n - 1
          /\ \A i \in 1..(n - 1) : rest[i] = IF i < e THEN pairs[i] ELSE pairs[i + 1]
      BY <1>3, <2>1, RemoveAtTyped
    <2> HIDE DEF rest
    <2>4. ASSUME NEW i \in 1..(n - 1) PROVE pairs'[i] = rest[i]
      <3>1. i \in 1..n /\ i + 1 \in 1..n
        BY <1>2
      <3>2. values'[i] = IF i < e THEN values[i] ELSE values[i + 1]
        BY <1>4
      <3> QED
        BY <2>1, <2>2, <2>3, <3>1, <3>2
    <2>5. pairs' = rest
      BY <2>2, <2>3, <2>4, SeqEqual
    <2> QED
      BY <2>5 DEF rest
  <1>15. e \in Dictionary!Places(k)
    BY <1>2, <1>3 DEF Dictionary!Places
  <1>16. pairs' = Dictionary!RemoveAt(pairs, e)
    BY <1>14 DEF RemoveAt, Dictionary!RemoveAt
  <1>17. Dictionary!Forget(k)
    BY <1>15, <1>16 DEF Dictionary!Forget, pairs
  <1> QED
    BY <1>13, <1>17

-----------------------------------------------------------------------------
\* A new map.
LEMMA MapInitInv == MapInit => MapInv
  <1> SUFFICES ASSUME MapInit PROVE MapInv
    OBVIOUS
  <1>1. hash_size = 0 /\ values = <<>> /\ buckets = [b \in {} |-> {}]
    BY DEF MapInit
  <1>2. DOMAIN values = {} /\ 0..(hash_size - 1) = {} /\ values \in Seq(Stored)
    BY <1>1, EmptySeq
  <1>3. buckets \in [0..(hash_size - 1) -> SUBSET DOMAIN values]
    BY <1>1, <1>2
  <1> QED
    BY <1>1, <1>2, <1>3 DEF MapInv, EntriesPlaced

\* Every step keeps the invariant, and is a step of MapSpec or leaves the map
\* it stands for as it is.
LEMMA MapNextInv ==
    ASSUME MapInv, [MapNext]_mapVars
    PROVE  MapInv' /\ [Dictionary!Next]_pairs
  <1>1. ASSUME NEW k \in Keys, NEW v \in MapVals, MapSet(k, v)
        PROVE  MapInv' /\ [Dictionary!Next]_pairs
    <2>1. CASE Matches(k, Grown[Index(Hash[k], NewSize)]) # {}
      <3>1. MapInv' /\ Dictionary!Change(k, v)
        BY <1>1, <2>1, SetFound DEF Dictionary!Change, pairs
      <3> QED
        BY <3>1 DEF Dictionary!Next
    <2>2. CASE Matches(k, Grown[Index(Hash[k], NewSize)]) = {}
      <3>1. MapInv' /\ Dictionary!Add(k, v)
        BY <1>1, <2>2, SetAdded DEF Dictionary!Add, pairs
      <3> QED
        BY <3>1 DEF Dictionary!Next
    <2> QED
      BY <2>1, <2>2
  <1>2. ASSUME NEW k \in Keys, MapRemove(k) PROVE MapInv' /\ [Dictionary!Next]_pairs
    <2>1. MapInv' /\ Dictionary!Forget(k)
      BY <1>2, RemoveInv
    <2> QED
      BY <2>1 DEF Dictionary!Next
  <1>3. ASSUME UNCHANGED mapVars PROVE MapInv' /\ [Dictionary!Next]_pairs
    BY <1>3 DEF mapVars, MapInv, EntriesPlaced, BucketOf, pairs
  <1> QED
    BY <1>1, <1>2, <1>3 DEF MapNext

\* The inductive invariant holds of every map.
LEMMA MapInvariant == MapSpecification => []MapInv
  <1>1. MapInv /\ [MapNext]_mapVars => MapInv'
    BY MapNextInv
  <1> QED
    BY <1>1, MapInitInv, PTL DEF MapSpecification

(***************************************************************************)
(* The types of the map: what a bucket has is an entry of the map.         *)
(***************************************************************************)
THEOREM MapTypeCorrect == MapSpecification => []MapTypeOK
  <1>1. MapInv => MapTypeOK
    BY DEF MapInv, MapTypeOK, Stored
  <1> QED
    BY <1>1, MapInvariant, PTL

(***************************************************************************)
(* A search for a name that fits an entry finds its one entry if the map   *)
(* has one, in the one bucket it looks at, and nothing otherwise.          *)
(***************************************************************************)
THEOREM SearchesFindTheirEntry == MapSpecification => []LookupFindsEntries
  <1>1. MapInv => LookupFindsEntries
    <2> SUFFICES ASSUME MapInv, NEW k \in Keys \ LongKeys
                 PROVE  LET own == {i \in DOMAIN values : values[i].key = k}
                        IN  IF own = {} THEN Lookup(k) = <<>>
                            ELSE \E i \in own : own = {i} /\ Lookup(k) = <<values[i].val>>
      BY DEF LookupFindsEntries
    <2> DEFINE own == {i \in DOMAIN values : values[i].key = k}
               found == Matches(k, BucketOf(k))
    <2>1. Len(values) \in Nat /\ DOMAIN values = 1..Len(values) /\ values \in Seq(Stored)
      BY EntriesTyped DEF MapInv
    <2>2. hash_size # 0 => BucketOf(k) \in SUBSET DOMAIN values
      <3>1. hash_size # 0 => Index(Hash[k], hash_size) \in 0..(hash_size - 1)
        BY MapAssumption, IndexInRange DEF MapInv
      <3> QED
        BY <3>1 DEF MapInv, BucketOf
    <2>3. CASE own = {}
      <3>1. dict_count = 0 \/ found = {}
        <4>1. hash_size = 0 => dict_count = 0
          BY <2>1 DEF MapInv, dict_count
        <4>2. hash_size # 0 => found = {}
          BY <2>2, <2>3 DEF Matches
        <4> QED
          BY <4>1, <4>2
      <3>2. Lookup(k) = <<>>
        BY <3>1 DEF Lookup
      <3> QED
        BY <2>3, <3>2
    <2>4. CASE own # {}
      <3>1. PICK e \in DOMAIN values : values[e].key = k
        BY <2>4
      <3>2. /\ values[e].found /\ e \in BucketOf(k)
            /\ \A f \in DOMAIN values : values[f].key = k => f = e
        BY <3>1 DEF MapInv, EntriesPlaced
      <3>3. e \in own /\ own = {e}
        BY <3>1, <3>2
      <3>4. dict_count # 0 /\ hash_size # 0
        <4>1. Len(values) # 0
          BY <2>1, <3>1
        <4>2. values # <<>>
          BY <3>1
        <4> QED
          BY <4>1, <4>2 DEF MapInv, dict_count
      <3>5. e \in found
        BY <3>1, <3>2 DEF Matches
      <3>6. Min(found) \in DOMAIN values /\ values[Min(found)].key = k
        BY <2>2, <3>4, <3>5, MatchFound
      <3>7. Min(found) = e
        BY <3>2, <3>6
      <3>8. Lookup(k) = <<values[e].val>>
        BY <3>4, <3>5, <3>7 DEF Lookup
      <3> HIDE DEF own
      <3>9. \E i \in own : own = {i} /\ Lookup(k) = <<values[i].val>>
        BY <3>3, <3>8
      <3> QED
        BY <2>4, <3>9 DEF own
    <2> QED
      BY <2>3, <2>4
  <1> QED
    BY <1>1, MapInvariant, PTL

(***************************************************************************)
(* The hash map implements the map of MapSpec: growing and collisions are  *)
(* never seen, names are met in the order in which they were added, and a  *)
(* name that does not fit an entry harms no other.                         *)
(***************************************************************************)
THEOREM ImplementsMapSpec == MapSpecification => RefinesMapSpec
  <1>1. MapInit => Dictionary!Init
    BY DEF MapInit, Dictionary!Init
  <1>2. MapInv /\ [MapNext]_mapVars => [Dictionary!Next]_pairs
    BY MapNextInv
  <1> QED
    BY <1>1, <1>2, MapInvariant, PTL
       DEF MapSpecification, RefinesMapSpec, Dictionary!Spec, pairs

=============================================================================
