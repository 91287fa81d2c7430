------------------------------- MODULE HashMap -------------------------------
(***************************************************************************)
(* The hash map of hashmap_impl.c and include/gallium/dict.h.  Attributes, *)
(* globals, the import cache, the symbols of the compiler: every table of  *)
(* names in the interpreter is one.                                        *)
(*                                                                         *)
(* An entry is on two lists: that of all entries, in the order in which    *)
(* they were added, and that of its bucket.  Growing throws the buckets    *)
(* away and fills new ones from the first list, with the hash of the key   *)
(* each entry holds.  An entry has room for 128 bytes of the key, of which *)
(* the last is never written: of a longer name it holds a beginning, and   *)
(* whatever memory held, so that comparing it with the name may fail, and  *)
(* its hash is any.                                                        *)
(***************************************************************************)
EXTENDS Integers, Sequences, SequencesExt

CONSTANTS
    Keys,       \* the names that are stored
    LongKeys,   \* those that do not fit an entry
    Hash,       \* their _Ga_DICT_HASH
    Garbage,    \* the hashes that what an entry holds of a long name may have
    MapVals,
    FirstSize,  \* the size before the first growth: 32 in the code
    MaxEntries

ASSUME MapAssumption ==
    /\ LongKeys \subseteq Keys
    /\ Hash \in [Keys -> Nat]
    /\ Garbage \subseteq Nat
    /\ FirstSize \in Nat \ {0}

VARIABLES
    hash_size,  \* 0 before there are buckets
    values,     \* all entries (_Ga_dict_kvp_t), in the order they were added:
                \* key, val, found (comparing the entry with key succeeds) and
                \* hash (of what the entry holds of the key)
    buckets     \* the entries of each bucket, as places in values: both lists
                \* grow at their end, so those of a bucket are in this order

mapVars == <<hash_size, values, buckets>>

\* Types of the state; the buckets are numbered from 0.
MapTypeOK ==
    /\ hash_size \in Nat
    /\ values \in Seq([key : Keys, val : MapVals, found : BOOLEAN, hash : Nat])
    /\ buckets \in [0..(hash_size - 1) -> SUBSET DOMAIN values]

\* _Ga_hashmap_new, and the dictionary in every object: cleared memory.
MapInit ==
    /\ hash_size = 0
    /\ values = <<>>
    /\ buckets = [b \in {} |-> {}]

dict_count == Len(values)

-----------------------------------------------------------------------------
\* _Ga_DICT_BUCKET_INDEX: sizes are powers of two.
Index(hash, size) == hash % size

\* The entries of a bucket that comparing with the name k finds; a search ends
\* at the first.  Two names in LongKeys are taken to differ in the part that
\* an entry holds.
Matches(k, bucket) == {e \in bucket : values[e].key = k /\ values[e].found}

\* Mutant: a search in a map that has grown still uses the first size.
BucketFirstSize(k) == buckets[Index(Hash[k], 2 * FirstSize)]

BucketOf(k) == buckets[Index(Hash[k], hash_size)]

\* _Ga_hashmap_get and _Ga_hashmap_contains: the value of k, or nothing.
Lookup(k) ==
    IF dict_count = 0 \/ Matches(k, BucketOf(k)) = {} THEN <<>>
    ELSE <<values[Min(Matches(k, BucketOf(k)))].val>>

\* Mutant: an entry goes to the bucket it would have had at first.
RefilledBySize(size) ==
    [b \in 0..(size - 1) |->
        {e \in DOMAIN values : Index(values[e].hash, 2 * FirstSize) = b}]

\* dict_grow: the entries, in order, in the bucket of what each holds.
Refilled(size) ==
    [b \in 0..(size - 1) |-> {e \in DOMAIN values : Index(values[e].hash, size) = b}]

\* The map has no buckets, or is too full for its size.
MustGrow == hash_size = 0 \/ dict_count > (hash_size \div 4) * 3

NewSize ==
    IF ~MustGrow THEN hash_size
    ELSE IF hash_size = 0 THEN 2 * FirstSize ELSE 2 * hash_size

\* What strncpy leaves in a new entry for k.
Copies(k, v) ==
    IF k \in LongKeys
    THEN [key : {k}, val : {v}, found : BOOLEAN, hash : Garbage]
    ELSE {[key |-> k, val |-> v, found |-> TRUE, hash |-> Hash[k]]}

\* _Ga_hashmap_set: grow first, then search, then add.
MapSet(k, v) ==
    LET grown == IF MustGrow THEN Refilled(NewSize) ELSE buckets
        at == Index(Hash[k], NewSize)
        found == Matches(k, grown[at])
    IN  /\ hash_size' = NewSize
        /\ IF found # {}
           THEN /\ values' = [values EXCEPT ![Min(found)].val = v]
                /\ buckets' = grown
           ELSE /\ dict_count < MaxEntries
                /\ \E copy \in Copies(k, v) : values' = Append(values, copy)
                /\ buckets' = [grown EXCEPT ![at] = @ \cup {dict_count + 1}]

\* A bucket after the entry e is gone; those added after it move up.
WithoutEntry(bucket, e) == {IF x > e THEN x - 1 ELSE x : x \in bucket \ {e}}

\* _Ga_hashmap_remove.  It has no caller; of a map without buckets it would
\* read through the null pointer.
MapRemove(k) ==
    /\ hash_size # 0
    /\ Matches(k, BucketOf(k)) # {}
    /\ LET e == Min(Matches(k, BucketOf(k)))
       IN  /\ values' = RemoveAt(values, e)
           /\ buckets' = [b \in DOMAIN buckets |-> WithoutEntry(buckets[b], e)]
    /\ UNCHANGED hash_size

MapNext == \E k \in Keys : MapRemove(k) \/ \E v \in MapVals : MapSet(k, v)

MapSpecification == MapInit /\ [][MapNext]_mapVars

-----------------------------------------------------------------------------
Dictionary == INSTANCE MapSpec
    WITH Vals  <- MapVals,
         pairs <- [i \in DOMAIN values |-> <<values[i].key, values[i].val>>]

(***************************************************************************)
(* Two lists per entry, buckets that are thrown away and filled again, and *)
(* hashes that collide implement a map in the order of insertion: for      *)
(* every name that fits an entry, and whatever happens to those that do    *)
(* not.                                                                    *)
(***************************************************************************)
RefinesMapSpec == Dictionary!Spec

(***************************************************************************)
(* A search finds a name exactly if the map holds it, and its last value:  *)
(* it looks at one bucket only, and growing may have moved the entry.      *)
(***************************************************************************)
LookupFindsEntries ==
    \A k \in Keys \ LongKeys :
        LET own == {i \in DOMAIN values : values[i].key = k}
        IN  IF own = {} THEN Lookup(k) = <<>>
            ELSE \E i \in own : own = {i} /\ Lookup(k) = <<values[i].val>>

=============================================================================
