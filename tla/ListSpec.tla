------------------------------ MODULE ListSpec ------------------------------
(***************************************************************************)
(* What a linked list promises: it is a sequence, and an iterator that was *)
(* taken from it stands before one of its elements or past its end.  An    *)
(* element that is added does not move an iterator, and is met by it if it *)
(* comes after it; an iterator that has reached the end stays there.       *)
(***************************************************************************)
EXTENDS Naturals, Sequences, SequencesExt

CONSTANT Vals

VARIABLES
    items,  \* the values, in order
    cursor  \* the position of the next value of the iterator, 0 past the end

Init == items = <<>> /\ cursor = 0

AddLast(v) == items' = Append(items, v) /\ UNCHANGED cursor

AddFirst(v) ==
    /\ items' = <<v>> \o items
    /\ cursor' = IF cursor = 0 THEN 0 ELSE cursor + 1

\* The first occurrence goes; nothing iterates over a list that loses values.
Delete(v) ==
    /\ cursor = 0
    /\ v \in ToSet(items)
    /\ items' = RemoveAt(items, CHOOSE i \in DOMAIN items :
                                    /\ items[i] = v
                                    /\ \A j \in 1..(i - 1) : items[j] # v)
    /\ UNCHANGED cursor

Clear == items' = <<>> /\ cursor' = 0

Start == items # <<>> /\ cursor' = 1 /\ UNCHANGED items

Advance ==
    /\ cursor # 0
    /\ cursor' = IF cursor = Len(items) THEN 0 ELSE cursor + 1
    /\ UNCHANGED items

Next ==
    \/ \E v \in Vals : AddLast(v) \/ AddFirst(v) \/ Delete(v)
    \/ Clear
    \/ Start
    \/ Advance

Spec == Init /\ [][Next]_<<items, cursor>>

=============================================================================
