---------------------------- MODULE SequenceFacts ----------------------------
(***************************************************************************)
(* Facts about the operators of SequencesExt that the library of theorems  *)
(* does not have, for the proofs about stacks, lists and buckets.          *)
(***************************************************************************)
EXTENDS SequencesExt, SequenceTheorems, WellFoundedInduction, TLAPS

\* A prefix of a sequence.
LEMMA SubSeqTyped ==
    ASSUME NEW S, NEW s \in Seq(S), NEW n \in 0..Len(s)
    PROVE  SubSeq(s, 1, n) \in Seq(S)
  <1>1. SubSeq(s, 1, n) = [i \in 1..n |-> s[i]]
    BY SubSeqRestrict DEF Restrict
  <1>2. Len(s) \in Nat /\ n \in Nat /\ \A i \in 1..n : s[i] \in S
    BY ElementOfSeq
  <1>3. [i \in 1..n |-> s[i]] \in [1..n -> S]
    BY <1>2
  <1> QED
    BY <1>1, <1>2, <1>3, SeqDef

\* Front and Last of a sequence that is not empty.
LEMMA FrontLast ==
    ASSUME NEW S, NEW s \in Seq(S), s # <<>>
    PROVE  /\ Front(s) \in Seq(S)
           /\ Len(Front(s)) = Len(s) - 1
           /\ \A i \in 1..(Len(s) - 1) : Front(s)[i] = s[i]
           /\ Last(s) \in S
           /\ Len(s) \in Nat \ {0}
  <1>1. Len(s) \in Nat \ {0}
    BY EmptySeq
  <1>2. \A i \in 1..(Len(s) - 1) : s[i] \in S
    BY <1>1, ElementOfSeq
  <1>3. s[Len(s)] \in S
    BY <1>1, ElementOfSeq
  <1>4. /\ SubSeq(s, 1, Len(s) - 1) \in Seq(S)
        /\ Len(SubSeq(s, 1, Len(s) - 1)) = Len(s) - 1
        /\ \A i \in 1..(Len(s) - 1) : SubSeq(s, 1, Len(s) - 1)[i] = s[i]
    <2> DEFINE n == Len(s) - 1
    <2>1. n \in 0..Len(s)
      BY <1>1
    <2>2. \A i \in 1..n : s[i] \in S
      BY <1>2
    <2> HIDE DEF n
    <2>3. SubSeq(s, 1, n) = [i \in 1..n |-> s[i]]
      BY <2>1, SubSeqRestrict DEF Restrict
    <2>4. n \in Nat /\ [i \in 1..n |-> s[i]] \in [1..n -> S]
      BY ONLY <1>1, <2>1, <2>2
    <2>5. [i \in 1..n |-> s[i]] \in Seq(S)
      BY <2>4, SeqDef
    <2>6. Len([i \in 1..n |-> s[i]]) = n
      BY <2>4, <2>5, LenProperties
    <2> QED
      BY <2>3, <2>5, <2>6 DEF n
  <1> QED
    BY <1>1, <1>3, <1>4 DEF Front, Last

\* A sequence with an element more, and the places of it.
LEMMA AppendTyped ==
    ASSUME NEW S, NEW s \in Seq(S), NEW e \in S
    PROVE  /\ Append(s, e) \in Seq(S)
           /\ Len(s) \in Nat
           /\ Len(Append(s, e)) = Len(s) + 1
           /\ DOMAIN s = 1..Len(s)
           /\ DOMAIN Append(s, e) = 1..(Len(s) + 1)
           /\ \A i \in 1..Len(s) : Append(s, e)[i] = s[i] /\ s[i] \in S
           /\ Append(s, e)[Len(s) + 1] = e
  <1>1. Len(s) \in Nat /\ DOMAIN s = 1..Len(s) /\ \A i \in 1..Len(s) : s[i] \in S
    BY LenProperties, ElementOfSeq
  <1>2. /\ Append(s, e) \in Seq(S) /\ Len(Append(s, e)) = Len(s) + 1
        /\ \A i \in 1..Len(s) : Append(s, e)[i] = s[i]
        /\ Append(s, e)[Len(s) + 1] = e
    BY AppendProperties
  <1>3. DOMAIN Append(s, e) = 1..Len(Append(s, e))
    BY <1>2, LenProperties
  <1> QED
    BY <1>1, <1>2, <1>3

\* A sequence without its element i.
LEMMA RemoveAtTyped ==
    ASSUME NEW S, NEW s \in Seq(S), NEW i \in 1..Len(s)
    PROVE  /\ RemoveAt(s, i) \in Seq(S)
           /\ Len(RemoveAt(s, i)) = Len(s) - 1
           /\ \A j \in 1..(Len(s) - 1) :
                 RemoveAt(s, i)[j] = IF j < i THEN s[j] ELSE s[j + 1]
  <1> DEFINE n == Len(s)
             before == SubSeq(s, 1, i - 1)
             after == SubSeq(s, i + 1, n)
  <1>1. n \in Nat /\ i \in 1..n /\ \A j \in 1..n : s[j] \in S
    BY LenProperties, ElementOfSeq
  <1>2. RemoveAt(s, i) = before \o after
    BY DEF RemoveAt
  <1> HIDE DEF n
  <1>3. /\ before \in Seq(S) /\ Len(before) = i - 1
        /\ \A j \in 1..(i - 1) : before[j] = s[j]
    <2>1. /\ 1 \in Int /\ i - 1 \in Int /\ \A j \in 1..(i - 1) : s[j] \in S
      BY <1>1
    <2>2. /\ before \in Seq(S) /\ Len(before) = IF 1 <= i - 1 THEN (i - 1) - 1 + 1 ELSE 0
          /\ \A j \in 1..((i - 1) - 1 + 1) : before[j] = s[1 + j - 1]
      BY <2>1, SubSeqProperties
    <2>3. Len(before) = i - 1
      BY <1>1, <2>2
    <2>4. ASSUME NEW j \in 1..(i - 1) PROVE before[j] = s[j]
      <3>1. j \in 1..((i - 1) - 1 + 1) /\ 1 + j - 1 = j
        BY <1>1
      <3> HIDE DEF before
      <3> QED
        BY <2>2, <3>1
    <2> QED
      BY <2>2, <2>3, <2>4
  <1>4. /\ after \in Seq(S) /\ Len(after) = n - i
        /\ \A j \in 1..(n - i) : after[j] = s[i + j]
    <2>1. i + 1 \in Int /\ n \in Int /\ \A j \in (i + 1)..n : s[j] \in S
      BY <1>1
    <2>2. /\ after \in Seq(S) /\ Len(after) = IF i + 1 <= n THEN n - (i + 1) + 1 ELSE 0
          /\ \A j \in 1..(n - (i + 1) + 1) : after[j] = s[i + 1 + j - 1]
      BY <2>1, SubSeqProperties
    <2>3. Len(after) = n - i
      BY <1>1, <2>2
    <2>4. ASSUME NEW j \in 1..(n - i) PROVE after[j] = s[i + j]
      <3>1. j \in 1..(n - (i + 1) + 1) /\ i + 1 + j - 1 = i + j
        BY <1>1
      <3> HIDE DEF after
      <3> QED
        BY <2>2, <3>1
    <2> QED
      BY <2>2, <2>3, <2>4
  <1> HIDE DEF before, after
  <1>5. /\ before \o after \in Seq(S)
        /\ Len(before \o after) = Len(before) + Len(after)
        /\ \A j \in 1..(Len(before) + Len(after)) : (before \o after)[j] =
              IF j <= Len(before) THEN before[j] ELSE after[j - Len(before)]
    BY <1>3, <1>4, ConcatProperties
  <1>6. ASSUME NEW j \in 1..(n - 1)
        PROVE  (before \o after)[j] = IF j < i THEN s[j] ELSE s[j + 1]
    <2>1. Len(before) = i - 1 /\ j \in 1..(Len(before) + Len(after))
      BY <1>1, <1>3, <1>4
    <2>2. CASE j < i
      <3>1. j \in 1..(i - 1) /\ j <= Len(before)
        BY <1>1, <2>1, <2>2
      <3> QED
        BY <1>3, <1>5, <2>1, <2>2, <3>1
    <2>3. CASE ~(j < i)
      <3>1. j - Len(before) \in 1..(n - i) /\ ~(j <= Len(before)) /\ i + (j - Len(before)) = j + 1
        BY <1>1, <2>1, <2>3
      <3> QED
        BY <1>4, <1>5, <2>1, <2>3, <3>1
    <2> QED
      BY <2>2, <2>3
  <1>7. Len(before \o after) = n - 1
    BY <1>1, <1>3, <1>4, <1>5
  <1> QED
    BY <1>2, <1>5, <1>6, <1>7 DEF n

\* Of some places of a sequence one comes first.
LEMMA LeastPlace ==
    ASSUME NEW n \in Nat, NEW places \in SUBSET (1..n), places # {}
    PROVE  \E x \in places : \A y \in places : x <= y
  <1> DEFINE less == OpToRel(<, Nat)
  <1>1. places \subseteq Nat /\ places # {}
    OBVIOUS
  <1>2. IsWellFoundedOn(less, Nat)
    BY NatLessThanWellFounded
  <1>3. \A a, b \in Nat : a < b => <<a, b>> \in less
    BY DEF OpToRel
  <1> HIDE DEF less
  <1>4. PICK x \in places : \A y \in places : ~(<<y, x>> \in less)
    BY <1>1, <1>2, WFMin
  <1>5. ASSUME NEW y \in places PROVE x <= y
    <2>1. x \in Nat /\ y \in Nat /\ ~(y < x)
      BY <1>1, <1>3, <1>4
    <2> QED
      BY <2>1
  <1> QED
    BY <1>5

=============================================================================
