------------------------------ MODULE PoolSpec ------------------------------
(***************************************************************************)
(* What a pool promises, without its links.  The blocks in use are a       *)
(* sequence, newest first: that is the order in which the collector meets  *)
(* them, and returning one does not disturb the order of the others.  The  *)
(* blocks that wait for reuse are a stack: the last one returned is the    *)
(* next one handed out.                                                    *)
(***************************************************************************)
EXTENDS Sequences, SequencesExt

CONSTANT Ents

VARIABLES
    allocated,  \* the blocks in use, newest first
    free        \* the blocks to reuse, last returned first

Init ==
    /\ allocated = <<>>
    /\ free = <<>>

\* Memory is asked for only when no block waits for reuse.
Get ==
    \/ /\ free # <<>>
       /\ allocated' = <<Head(free)>> \o allocated
       /\ free' = Tail(free)
    \/ /\ free = <<>>
       /\ \E ent \in Ents \ ToSet(allocated) :
            allocated' = <<ent>> \o allocated
       /\ UNCHANGED free

Put(ent) ==
    \E i \in DOMAIN allocated :
        /\ allocated[i] = ent
        /\ allocated' = RemoveAt(allocated, i)
        /\ free' = <<ent>> \o free

Next == Get \/ \E ent \in Ents : Put(ent)

Spec == Init /\ [][Next]_<<allocated, free>>

=============================================================================
