------------------------------- MODULE MapSpec -------------------------------
(***************************************************************************)
(* What a hash map promises: it maps names to values, and its iterator     *)
(* meets the names in the order in which they were first given a value.    *)
(* Names that do not fit an entry are the exception: the map may no longer *)
(* find what it stored for one, so that setting it again adds an entry,    *)
(* and removing it need not remove anything.  They never harm the others.  *)
(***************************************************************************)
EXTENDS Naturals, Sequences, SequencesExt

CONSTANTS Keys, LongKeys, Vals

VARIABLE pairs  \* the names and their values, oldest name first

Init == pairs = <<>>

Places(k) == {i \in DOMAIN pairs : pairs[i][1] = k}

Change(k, v) ==
    \E i \in Places(k) : pairs' = [pairs EXCEPT ![i] = <<k, v>>]

Add(k, v) ==
    /\ Places(k) = {} \/ k \in LongKeys
    /\ pairs' = Append(pairs, <<k, v>>)

Forget(k) == \E i \in Places(k) : pairs' = RemoveAt(pairs, i)

Next == \E k \in Keys : Forget(k) \/ \E v \in Vals : Change(k, v) \/ Add(k, v)

Spec == Init /\ [][Next]_pairs

=============================================================================
