-------------------------- MODULE FrontEndProofs ---------------------------
(***************************************************************************)
(* What the lexer and the parser promise, for every set of sources.        *)
(*                                                                         *)
(* A call in progress is at a point of the table of ParserShapes, and at a *)
(* place among the nodes: those up to lo were there when it began, those   *)
(* up to hi when the call it waits for did.  What a function holds fits    *)
(* the shapes of its point; unless something has gone wrong it is owned,   *)
(* which is to say that it is made of nodes that were built since the call *)
(* began, that none of them was destroyed, and that none of them lacks     *)
(* what the compiler needs.  A fresh node is made of nodes that were built *)
(* since the last call it made began, so to destroy it takes nothing from  *)
(* what is held elsewhere.                                                 *)
(*                                                                         *)
(* First what one step does to the function at the top of the stack,       *)
(* instruction by instruction; then calls and returns; then the invariant, *)
(* action by action.  That the code of the parser fits the table, CodeFits,*)
(* depends on no source and no state: it is a hypothesis here, and TLC     *)
(* works it out.                                                           *)
(***************************************************************************)
EXTENDS FrontEnd, SequenceFacts

-----------------------------------------------------------------------------
(***************************************************************************)
(* Sequences of anything: what is held has no type of its own.             *)
(***************************************************************************)
IsSeq(s) == s \in Seq(ToSet(s))

LEMMA SequenceOfItsElements ==
    ASSUME NEW S, NEW s \in Seq(S)
    PROVE  IsSeq(s) /\ ToSet(s) \subseteq S
  <1>1. Len(s) \in Nat /\ DOMAIN s = 1..Len(s) /\ \A i \in 1..Len(s) : s[i] \in S
    BY LenProperties, ElementOfSeq
  <1>2. s = [i \in 1..Len(s) |-> s[i]]
    BY LenProperties
  <1>3. ToSet(s) = {s[i] : i \in 1..Len(s)}
    BY <1>1 DEF ToSet
  <1>4. s \in [1..Len(s) -> ToSet(s)]
    BY <1>2, <1>3
  <1>5. s \in Seq(ToSet(s))
    BY <1>1, <1>4, SeqDef
  <1> QED
    BY <1>1, <1>3, <1>5 DEF IsSeq

\* What a sequence is.
LEMMA Sequence ==
    ASSUME NEW s, IsSeq(s)
    PROVE  /\ Len(s) \in Nat /\ DOMAIN s = 1..Len(s)
           /\ ToSet(s) = {s[i] : i \in 1..Len(s)}
           /\ (s = <<>>) <=> (Len(s) = 0)
  <1>1. s \in Seq(ToSet(s))
    BY DEF IsSeq
  <1>2. Len(s) \in Nat /\ DOMAIN s = 1..Len(s) /\ ((s = <<>>) <=> (Len(s) = 0))
    BY <1>1, LenProperties, EmptySeq
  <1> QED
    BY <1>2 DEF ToSet

LEMMA Appended ==
    ASSUME NEW s, IsSeq(s), NEW e
    PROVE  /\ IsSeq(Append(s, e)) /\ Len(s) \in Nat /\ Len(Append(s, e)) = Len(s) + 1
           /\ \A i \in 1..Len(s) : Append(s, e)[i] = s[i]
           /\ Append(s, e)[Len(s) + 1] = e
  <1> DEFINE S == ToSet(s) \cup {e}
  <1>1. s \in Seq(S) /\ e \in S
    <2>1. s \in Seq(ToSet(s))
      BY DEF IsSeq
    <2>2. Seq(ToSet(s)) \subseteq Seq(S)
      <3>1. ASSUME NEW q \in Seq(ToSet(s)) PROVE q \in Seq(S)
        <4>1. PICK n \in Nat : q \in [1..n -> ToSet(s)]
          BY SeqDef
        <4>2. q \in [1..n -> S]
          BY <4>1
        <4> QED
          BY <4>2, SeqDef
      <3> QED
        BY <3>1
    <2> QED
      BY <2>1, <2>2
  <1> HIDE DEF S
  <1>2. /\ Append(s, e) \in Seq(S) /\ Len(s) \in Nat /\ Len(Append(s, e)) = Len(s) + 1
        /\ \A i \in 1..Len(s) : Append(s, e)[i] = s[i]
        /\ Append(s, e)[Len(s) + 1] = e
    BY <1>1, AppendTyped
  <1>3. IsSeq(Append(s, e))
    BY <1>2, SequenceOfItsElements
  <1> QED
    BY <1>2, <1>3

LEMMA Firsts ==
    ASSUME NEW s, IsSeq(s), NEW n \in 0..Len(s)
    PROVE  /\ IsSeq(SubSeq(s, 1, n)) /\ Len(SubSeq(s, 1, n)) = n
           /\ \A i \in 1..n : SubSeq(s, 1, n)[i] = s[i]
  <1>1. s \in Seq(ToSet(s)) /\ Len(s) \in Nat /\ n \in Nat
    BY Sequence DEF IsSeq
  <1>2. SubSeq(s, 1, n) \in Seq(ToSet(s))
    BY <1>1, SubSeqTyped
  <1>3. SubSeq(s, 1, n) = [i \in 1..n |-> s[i]]
    BY <1>1, SubSeqRestrict DEF Restrict
  <1>4. Len(SubSeq(s, 1, n)) = n
    <2>1. DOMAIN SubSeq(s, 1, n) = 1..n
      BY <1>3
    <2>2. Len(SubSeq(s, 1, n)) \in Nat /\ DOMAIN SubSeq(s, 1, n) = 1..Len(SubSeq(s, 1, n))
      BY <1>2, LenProperties
    <2>3. \A k \in Nat : 1..k = 1..n => k = n
      BY <1>1
    <2> QED
      BY <2>1, <2>2, <2>3
  <1> QED
    BY <1>2, <1>3, <1>4, SequenceOfItsElements

LEMMA Lasts ==
    ASSUME NEW s, IsSeq(s), NEW k \in 0..Len(s)
    PROVE  /\ IsSeq(SubSeq(s, Len(s) - k + 1, Len(s))) /\ Len(SubSeq(s, Len(s) - k + 1, Len(s))) = k
           /\ \A i \in 1..k : SubSeq(s, Len(s) - k + 1, Len(s))[i] = s[Len(s) - k + i]
  <1>1. s \in Seq(ToSet(s)) /\ Len(s) \in Nat /\ k \in Nat
    BY Sequence DEF IsSeq
  <1>2. PICK m : m = Len(s) - k + 1
    OBVIOUS
  <1>3. PICK n : n = Len(s)
    OBVIOUS
  <1>4. m \in Int /\ n \in Int /\ m \in 1..(n + 1) /\ \A i \in m..n : s[i] \in ToSet(s)
    BY <1>1, <1>2, <1>3, ElementOfSeq
  <1>5. /\ SubSeq(s, m, n) \in Seq(ToSet(s))
        /\ Len(SubSeq(s, m, n)) = IF m <= n THEN n - m + 1 ELSE 0
        /\ \A i \in 1..(n - m + 1) : SubSeq(s, m, n)[i] = s[m + i - 1]
    BY <1>4, SubSeqProperties
  <1>6. Len(SubSeq(s, m, n)) = k /\ n - m + 1 = k
    BY <1>1, <1>2, <1>3, <1>5
  <1>7. \A i \in 1..k : m + i - 1 = n - k + i
    BY <1>1, <1>2, <1>3
  <1>8. IsSeq(SubSeq(s, m, n))
    BY <1>5, SequenceOfItsElements
  <1> QED
    BY <1>2, <1>3, <1>5, <1>6, <1>7, <1>8

LEMMA Removed ==
    ASSUME NEW s, IsSeq(s), NEW i \in 1..Len(s)
    PROVE  /\ IsSeq(RemoveAt(s, i)) /\ Len(RemoveAt(s, i)) = Len(s) - 1
           /\ \A j \in 1..(Len(s) - 1) : RemoveAt(s, i)[j] = IF j < i THEN s[j] ELSE s[j + 1]
  <1>1. s \in Seq(ToSet(s))
    BY DEF IsSeq
  <1>2. /\ RemoveAt(s, i) \in Seq(ToSet(s)) /\ Len(RemoveAt(s, i)) = Len(s) - 1
        /\ \A j \in 1..(Len(s) - 1) : RemoveAt(s, i)[j] = IF j < i THEN s[j] ELSE s[j + 1]
    BY <1>1, RemoveAtTyped
  <1> QED
    BY <1>2, SequenceOfItsElements

\* A function on the first numbers.
LEMMA Listed ==
    ASSUME NEW n \in Nat, NEW S, NEW t \in [1..n -> S]
    PROVE  IsSeq(t) /\ Len(t) = n
  <1>1. t \in Seq(S)
    BY SeqDef
  <1>2. Len(t) \in Nat /\ DOMAIN t = 1..Len(t)
    BY <1>1, LenProperties
  <1>3. \A k \in Nat : 1..k = 1..n => k = n
    OBVIOUS
  <1>4. Len(t) = n
    BY <1>2, <1>3
  <1> QED
    BY <1>1, <1>4, SequenceOfItsElements

LEMMA Joined ==
    ASSUME NEW s, IsSeq(s), NEW t, IsSeq(t)
    PROVE  /\ IsSeq(s \o t) /\ Len(s \o t) = Len(s) + Len(t)
           /\ \A i \in 1..(Len(s) + Len(t)) : (s \o t)[i] = IF i <= Len(s) THEN s[i] ELSE t[i - Len(s)]
  <1> DEFINE S == ToSet(s) \cup ToSet(t)
  <1>1. s \in Seq(S) /\ t \in Seq(S)
    <2>1. ASSUME NEW A, A \subseteq S, NEW q \in Seq(A) PROVE q \in Seq(S)
      <3>1. PICK n \in Nat : q \in [1..n -> A]
        BY SeqDef
      <3>2. q \in [1..n -> S]
        BY <2>1, <3>1
      <3> QED
        BY <3>2, SeqDef
    <2>2. s \in Seq(ToSet(s)) /\ t \in Seq(ToSet(t))
      BY DEF IsSeq
    <2> QED
      BY <2>1, <2>2
  <1> HIDE DEF S
  <1>2. /\ s \o t \in Seq(S) /\ Len(s \o t) = Len(s) + Len(t)
        /\ \A i \in 1..(Len(s) + Len(t)) : (s \o t)[i] = IF i <= Len(s) THEN s[i] ELSE t[i - Len(s)]
    BY <1>1, ConcatProperties
  <1> QED
    BY <1>2, SequenceOfItsElements

LEMMA Tails ==
    ASSUME NEW s, IsSeq(s), s # <<>>
    PROVE  /\ IsSeq(Tail(s)) /\ Len(s) \in Nat \ {0} /\ Len(Tail(s)) = Len(s) - 1 /\ Head(s) = s[1]
           /\ \A i \in 1..(Len(s) - 1) : Tail(s)[i] = s[i + 1]
  <1>1. s \in Seq(ToSet(s)) /\ s # <<>>
    BY DEF IsSeq
  <1>2. /\ Tail(s) \in Seq(ToSet(s)) /\ Len(Tail(s)) = Len(s) - 1 /\ Head(s) = s[1]
        /\ \A i \in 1..Len(Tail(s)) : Tail(s)[i] = s[i + 1]
    BY <1>1, HeadTailProperties
  <1>3. Len(s) \in Nat \ {0}
    BY <1>1, EmptySeq
  <1> QED
    BY <1>2, <1>3, SequenceOfItsElements

LEMMA Single ==
    ASSUME NEW e
    PROVE  IsSeq(<<e>>) /\ Len(<<e>>) = 1 /\ <<e>>[1] = e /\ ToSet(<<e>>) = {e}
  <1>1. <<e>> \in Seq({e}) /\ Len(<<e>>) = 1 /\ <<e>>[1] = e
    OBVIOUS
  <1>2. IsSeq(<<e>>)
    BY <1>1, SequenceOfItsElements
  <1>3. ToSet(<<e>>) = {<<e>>[i] : i \in 1..1}
    BY <1>1, <1>2, Sequence
  <1> QED
    BY <1>1, <1>2, <1>3

-----------------------------------------------------------------------------
(***************************************************************************)
(* Nodes, and sets of them that the compiler can walk: what they are made  *)
(* of is in the set too, none was destroyed, nothing required is NULL.     *)
(* Best is the largest among the nodes from lo + 1 to hi, with the empty   *)
(* statement.                                                              *)
(***************************************************************************)
NodesFit(N) ==
    /\ IsSeq(N) /\ Len(N) \in Nat \ {0} /\ N[1] = [t |-> "empty"]
    /\ \A n \in 1..Len(N) :
          /\ \A f \in DOMAIN N[n] \ Plain : N[n][f] \in Seq(1..(n - 1))
          /\ WalkedFields(N[n].t) \cup Required(N[n].t) \subseteq DOMAIN N[n] \ Plain

Whole(N, F, C) ==
    /\ C \subseteq 1..Len(N) /\ C \cap F = {}
    /\ \A n \in C : /\ \A f \in DOMAIN N[n] \ Plain : ToSet(N[n][f]) \subseteq C
                    /\ \A f \in Required(N[n].t) : N[n][f] # Null

Best(N, F, lo, hi) == UNION {C \in SUBSET ({1} \cup ((lo + 1)..hi)) : Whole(N, F, C)}
Owned(N, F, v, lo, hi) == ToSet(v) \subseteq Best(N, F, lo, hi)

\* More nodes, and perhaps more of them destroyed.
Extends(M, N) == Len(N) <= Len(M) /\ \A n \in 1..Len(N) : M[n] = N[n]

LEMMA BestIsWhole ==
    ASSUME NEW N, NEW F, NEW lo, NEW hi
    PROVE  /\ Whole(N, F, Best(N, F, lo, hi))
           /\ Best(N, F, lo, hi) \subseteq {1} \cup ((lo + 1)..hi)
  <1> DEFINE B == Best(N, F, lo, hi)
  <1>1. ASSUME NEW n \in B
        PROVE  /\ n \in {1} \cup ((lo + 1)..hi) /\ n \in 1..Len(N) /\ n \notin F
               /\ \A f \in DOMAIN N[n] \ Plain : ToSet(N[n][f]) \subseteq B
               /\ \A f \in Required(N[n].t) : N[n][f] # Null
    <2>1. PICK C \in SUBSET ({1} \cup ((lo + 1)..hi)) : n \in C /\ Whole(N, F, C)
      BY <1>1 DEF Best
    <2>2. C \subseteq B
      BY <2>1 DEF Best
    <2> HIDE DEF B
    <2> QED
      BY <2>1, <2>2 DEF Whole
  <1> HIDE DEF B
  <1>2. Whole(N, F, B) /\ B \subseteq {1} \cup ((lo + 1)..hi)
    BY <1>1 DEF Whole
  <1> QED
    BY <1>2 DEF B

LEMMA BestHolds ==
    ASSUME NEW N, NEW F, NEW lo, NEW hi, NEW C, C \subseteq {1} \cup ((lo + 1)..hi), Whole(N, F, C)
    PROVE  C \subseteq Best(N, F, lo, hi)
  BY DEF Best

LEMMA BestGrows ==
    ASSUME NEW N, NEW F, NEW lo \in Nat, NEW hi \in Nat, Len(N) \in Nat,
           NEW M, NEW G, NEW low \in Nat, NEW high \in Nat, Len(M) \in Nat,
           Extends(M, N), low <= lo, hi <= high,
           G \cap ({1} \cup ((lo + 1)..hi)) \subseteq F
    PROVE  Best(N, F, lo, hi) \subseteq Best(M, G, low, high)
  <1>1. PICK B : B = Best(N, F, lo, hi)
    OBVIOUS
  <1>2. Whole(N, F, B) /\ B \subseteq {1} \cup ((lo + 1)..hi)
    BY <1>1, BestIsWhole
  <1>3. B \subseteq 1..Len(M) /\ \A n \in B : M[n] = N[n]
    BY <1>2 DEF Whole, Extends
  <1>4. B \cap G = {}
    BY <1>2 DEF Whole
  <1>5. Whole(M, G, B)
    BY <1>2, <1>3, <1>4 DEF Whole
  <1>6. B \subseteq {1} \cup ((low + 1)..high)
    BY <1>2
  <1> QED
    BY <1>1, <1>5, <1>6, BestHolds

LEMMA EmptyIsWhole ==
    ASSUME NEW N, NodesFit(N), NEW F, 1 \notin F, NEW lo, NEW hi
    PROVE  1 \in Best(N, F, lo, hi)
  <1>1. N[1] = [t |-> "empty"] /\ 1 \in 1..Len(N)
    BY DEF NodesFit
  <1>2. DOMAIN N[1] \ Plain = {} /\ N[1].t = "empty"
    BY <1>1 DEF Plain
  <1>3. Required(N[1].t) = {}
    BY <1>2 DEF Required
  <1>4. Whole(N, F, {1})
    BY <1>1, <1>2, <1>3 DEF Whole
  <1> QED
    BY <1>4, BestHolds

-----------------------------------------------------------------------------
(***************************************************************************)
(* Values, and what a call holds.                                          *)
(***************************************************************************)
IsOne(n, v) == \E i \in 1..n : v = <<i>>
HasShape(n, v, shape) ==
    /\ shape = "null" => v = Null
    /\ shape = "nodes" => v \in Seq(1..n)
    /\ shape \in {"some", "fresh", "dead"} => IsOne(n, v)
    /\ shape = "maybe" => v = Null \/ IsOne(n, v)

ValueFits(N, F, mode, v, shape, lo, hi) ==
    /\ HasShape(Len(N), v, shape)
    /\ mode # "failed" /\ shape \in ListShapes \ {"fresh"} => Owned(N, F, v, lo, hi)
    /\ mode # "failed" /\ shape = "fresh" => Owned(N, F, v, hi, Len(N))

HeldFits(N, F, mode, held, shapes, lo, hi) ==
    /\ IsSeq(held) /\ shapes \in Seq(Shapes) /\ Len(held) = Len(shapes)
    /\ \A i \in 1..Len(shapes) : ValueFits(N, F, mode, held[i], shapes[i], lo, hi)

Bounds(N, lo, hi) == lo \in Nat /\ hi \in Nat /\ Len(N) \in Nat /\ lo <= hi /\ hi <= Len(N)

LEMMA OneInSeq ==
    ASSUME NEW n \in Nat, NEW v
    PROVE  /\ IsOne(n, v) => v \in Seq(1..n) /\ v # Null /\ Len(v) = 1
           /\ Null \in Seq(1..n) /\ ToSet(Null) = {}
  <1>1. ASSUME NEW i \in 1..n PROVE <<i>> \in Seq(1..n) /\ <<i>> # <<>> /\ Len(<<i>>) = 1
    OBVIOUS
  <1>2. <<>> \in Seq(1..n) /\ DOMAIN <<>> = {}
    OBVIOUS
  <1>3. ToSet(<<>>) = {}
    BY <1>2 DEF ToSet
  <1> QED
    BY <1>1, <1>2, <1>3 DEF IsOne, Null

\* A list of nodes, whatever its shape is called.
LEMMA ListValue ==
    ASSUME NEW N, NEW F, NEW mode, NEW v, NEW shape \in ListShapes, NEW lo, NEW hi,
           Bounds(N, lo, hi), ValueFits(N, F, mode, v, shape, lo, hi)
    PROVE  /\ v \in Seq(1..Len(N))
           /\ mode # "failed" => Owned(N, F, v, lo, Len(N))
           /\ shape \in NodeShapes => IsOne(Len(N), v)
           /\ shape \in NodeShapes \cup {"null", "maybe"} => v = Null \/ IsOne(Len(N), v)
  <1>1. v \in Seq(1..Len(N))
    BY OneInSeq DEF ValueFits, HasShape, ListShapes, Bounds
  <1>2. ASSUME mode # "failed" PROVE Owned(N, F, v, lo, Len(N))
    <2>1. Extends(N, N) /\ F \cap ({1} \cup ((lo + 1)..hi)) \subseteq F /\ F \cap ({1} \cup ((hi + 1)..Len(N))) \subseteq F
      BY DEF Extends, Bounds
    <2>2. Best(N, F, lo, hi) \subseteq Best(N, F, lo, Len(N)) /\ Best(N, F, hi, Len(N)) \subseteq Best(N, F, lo, Len(N))
      BY <2>1, BestGrows DEF Bounds
    <2>3. Owned(N, F, v, lo, hi) \/ Owned(N, F, v, hi, Len(N))
      BY <1>2 DEF ValueFits
    <2> QED
      BY <2>2, <2>3 DEF Owned
  <1>3. shape \in NodeShapes => IsOne(Len(N), v)
    BY DEF ValueFits, HasShape, NodeShapes
  <1>4. shape \in NodeShapes \cup {"null", "maybe"} => v = Null \/ IsOne(Len(N), v)
    BY DEF ValueFits, HasShape, NodeShapes
  <1> QED
    BY <1>1, <1>2, <1>3, <1>4

\* What is held settles: nothing is fresh any more.
LEMMA Settles ==
    ASSUME NEW N, NEW F, NEW mode, NEW held, NEW shapes, NEW lo, NEW hi,
           Bounds(N, lo, hi), HeldFits(N, F, mode, held, shapes, lo, hi)
    PROVE  /\ HeldFits(N, F, mode, held, Settled(shapes), lo, Len(N))
           /\ Len(Settled(shapes)) = Len(shapes) /\ Len(held) = Len(shapes) /\ Len(shapes) \in Nat
           /\ IsSeq(Settled(shapes)) /\ IsSeq(held)
           /\ \A i \in 1..Len(shapes) :
                 Settled(shapes)[i] = IF shapes[i] = "fresh" THEN "some" ELSE shapes[i]
  <1>1. shapes \in Seq(Shapes) /\ IsSeq(held) /\ Len(held) = Len(shapes)
    BY DEF HeldFits
  <1>2. PICK n \in Nat : n = Len(shapes)
    BY <1>1, LenProperties
  <1>3. DOMAIN shapes = 1..n /\ \A i \in 1..n : shapes[i] \in Shapes
    BY <1>1, <1>2, LenProperties, ElementOfSeq
  <1>4. PICK new : new = Settled(shapes)
    OBVIOUS
  <1>5. /\ DOMAIN new = 1..n
        /\ \A i \in 1..n : new[i] = (IF shapes[i] = "fresh" THEN "some" ELSE shapes[i])
        /\ new \in [1..n -> Shapes]
    BY <1>3, <1>4 DEF Settled, Shapes
  <1>6. new \in Seq(Shapes) /\ Len(new) = n
    <2>1. new \in Seq(Shapes)
      BY <1>5, SeqDef
    <2>2. Len(new) \in Nat /\ DOMAIN new = 1..Len(new)
      BY <2>1, LenProperties
    <2>3. \A k \in Nat : 1..k = 1..n => k = n
      OBVIOUS
    <2> QED
      BY <1>5, <2>1, <2>2, <2>3
  <1>7. ASSUME NEW i \in 1..n
        PROVE  ValueFits(N, F, mode, held[i], new[i], lo, Len(N))
    <2>1. PICK v : v = held[i]
      OBVIOUS
    <2>2. PICK s : s = shapes[i]
      OBVIOUS
    <2>3. ValueFits(N, F, mode, v, s, lo, hi) /\ s \in Shapes
      BY <1>2, <1>3, <1>7, <2>1, <2>2 DEF HeldFits
    <2>4. CASE s \in ListShapes
      <3>1. mode # "failed" => Owned(N, F, v, lo, Len(N))
        BY <2>3, <2>4, ListValue
      <3>2. s = "fresh" => ValueFits(N, F, mode, v, "some", lo, Len(N))
        BY <2>3, <3>1 DEF ValueFits, HasShape
      <3>3. s # "fresh" => ValueFits(N, F, mode, v, s, lo, Len(N))
        BY <2>3, <3>1 DEF ValueFits
      <3> QED
        BY <1>5, <2>1, <2>2, <3>2, <3>3
    <2>5. CASE s \notin ListShapes
      <3>1. s # "fresh"
        BY <2>5 DEF ListShapes
      <3>2. ValueFits(N, F, mode, v, s, lo, Len(N))
        BY <2>3, <2>5, <3>1 DEF ValueFits
      <3> QED
        BY <1>5, <2>1, <2>2, <3>1, <3>2
    <2> QED
      BY <2>4, <2>5
  <1>8. HeldFits(N, F, mode, held, new, lo, Len(N))
    BY <1>1, <1>2, <1>6, <1>7 DEF HeldFits
  <1>9. IsSeq(new)
    BY <1>6, SequenceOfItsElements
  <1> QED
    BY <1>1, <1>2, <1>4, <1>5, <1>6, <1>8, <1>9

\* What is held without its elements: two sequences of one length.
LEMMA HeldIs ==
    ASSUME NEW N, NEW F, NEW mode, NEW held, NEW shapes, NEW lo, NEW hi,
           HeldFits(N, F, mode, held, shapes, lo, hi)
    PROVE  /\ IsSeq(held) /\ IsSeq(shapes) /\ Len(held) = Len(shapes) /\ Len(shapes) \in Nat
           /\ shapes \in Seq(Shapes) /\ DOMAIN shapes = 1..Len(shapes) /\ DOMAIN held = 1..Len(shapes)
           /\ \A i \in 1..Len(shapes) : shapes[i] \in Shapes /\ ValueFits(N, F, mode, held[i], shapes[i], lo, hi)
  <1>1. IsSeq(held) /\ shapes \in Seq(Shapes) /\ Len(held) = Len(shapes)
    BY DEF HeldFits
  <1>2. IsSeq(shapes)
    BY <1>1, SequenceOfItsElements
  <1>3. Len(shapes) \in Nat /\ DOMAIN shapes = 1..Len(shapes) /\ \A i \in 1..Len(shapes) : shapes[i] \in Shapes
    BY <1>1, LenProperties, ElementOfSeq
  <1>4. DOMAIN held = 1..Len(shapes)
    BY <1>1, Sequence
  <1> QED
    BY <1>1, <1>2, <1>3, <1>4 DEF HeldFits

\* Two sequences of one length whose elements fit are what is held.
LEMMA HeldBy ==
    ASSUME NEW N, NEW F, NEW mode, NEW held, NEW shapes, NEW lo, NEW hi,
           IsSeq(held), IsSeq(shapes), Len(held) = Len(shapes),
           \A i \in 1..Len(shapes) : shapes[i] \in Shapes /\ ValueFits(N, F, mode, held[i], shapes[i], lo, hi)
    PROVE  HeldFits(N, F, mode, held, shapes, lo, hi)
  <1>1. /\ shapes \in Seq(ToSet(shapes)) /\ Len(shapes) \in Nat /\ DOMAIN shapes = 1..Len(shapes)
        /\ shapes = [i \in 1..Len(shapes) |-> shapes[i]]
    BY Sequence, LenProperties DEF IsSeq
  <1>2. shapes \in [1..Len(shapes) -> Shapes]
    BY <1>1
  <1>3. shapes \in Seq(Shapes)
    BY <1>1, <1>2, SeqDef
  <1> QED
    BY <1>3 DEF HeldFits

LEMMA HeldAppend ==
    ASSUME NEW N, NEW F, NEW mode, NEW held, NEW shapes, NEW lo, NEW hi,
           HeldFits(N, F, mode, held, shapes, lo, hi),
           NEW v, NEW shape, shape \in Shapes, ValueFits(N, F, mode, v, shape, lo, hi)
    PROVE  HeldFits(N, F, mode, Append(held, v), Append(shapes, shape), lo, hi)
  <1>1. PICK n \in Nat : /\ n = Len(shapes) /\ n = Len(held) /\ IsSeq(held) /\ IsSeq(shapes)
                         /\ \A i \in 1..n : shapes[i] \in Shapes /\ ValueFits(N, F, mode, held[i], shapes[i], lo, hi)
    BY HeldIs
  <1>2. PICK h : h = Append(held, v)
    OBVIOUS
  <1>3. PICK s : s = Append(shapes, shape)
    OBVIOUS
  <1>4. IsSeq(h) /\ Len(h) = n + 1 /\ h[n + 1] = v /\ \A i \in 1..n : h[i] = held[i]
    BY <1>1, <1>2, Appended
  <1>5. IsSeq(s) /\ Len(s) = n + 1 /\ s[n + 1] = shape /\ \A i \in 1..n : s[i] = shapes[i]
    <2>1. IsSeq(shapes) /\ Len(shapes) = n
      BY <1>1
    <2>2. /\ IsSeq(Append(shapes, shape)) /\ Len(Append(shapes, shape)) = Len(shapes) + 1
          /\ \A i \in 1..Len(shapes) : Append(shapes, shape)[i] = shapes[i]
          /\ Append(shapes, shape)[Len(shapes) + 1] = shape
      BY ONLY <2>1, Appended
    <2> QED
      BY ONLY <1>3, <2>1, <2>2
  <1>6. ASSUME NEW i \in 1..(n + 1)
        PROVE  s[i] \in Shapes /\ ValueFits(N, F, mode, h[i], s[i], lo, hi)
    <2>1. CASE i = n + 1
      BY <1>4, <1>5, <2>1
    <2>2. CASE i # n + 1
      <3>1. i \in 1..n
        BY <2>2
      <3> QED
        BY <1>1, <1>4, <1>5, <3>1
    <2> QED
      BY <2>1, <2>2
  <1>7. HeldFits(N, F, mode, h, s, lo, hi)
    BY <1>4, <1>5, <1>6, HeldBy
  <1> QED
    BY <1>2, <1>3, <1>7

LEMMA HeldFirst ==
    ASSUME NEW N, NEW F, NEW mode, NEW held, NEW shapes, NEW lo, NEW hi,
           HeldFits(N, F, mode, held, shapes, lo, hi), NEW k \in 0..Len(shapes)
    PROVE  HeldFits(N, F, mode, SubSeq(held, 1, Len(held) - k), SubSeq(shapes, 1, Len(shapes) - k), lo, hi)
  <1>1. PICK n \in Nat : /\ n = Len(shapes) /\ n = Len(held) /\ IsSeq(held) /\ IsSeq(shapes)
                         /\ \A i \in 1..n : shapes[i] \in Shapes /\ ValueFits(N, F, mode, held[i], shapes[i], lo, hi)
    BY HeldIs
  <1>2. PICK m \in 0..n : m = n - k
    BY <1>1
  <1>3. PICK h : h = SubSeq(held, 1, m)
    OBVIOUS
  <1>4. PICK s : s = SubSeq(shapes, 1, m)
    OBVIOUS
  <1>5. IsSeq(h) /\ Len(h) = m /\ \A i \in 1..m : h[i] = held[i]
    BY <1>1, <1>3, Firsts
  <1>6. IsSeq(s) /\ Len(s) = m /\ \A i \in 1..m : s[i] = shapes[i]
    BY <1>1, <1>4, Firsts
  <1>7. HeldFits(N, F, mode, h, s, lo, hi)
    BY <1>1, <1>5, <1>6, HeldBy
  <1> QED
    BY <1>1, <1>2, <1>3, <1>4, <1>7

LEMMA HeldLast ==
    ASSUME NEW N, NEW F, NEW mode, NEW held, NEW shapes, NEW lo, NEW hi,
           HeldFits(N, F, mode, held, shapes, lo, hi), NEW k \in 0..Len(shapes)
    PROVE  HeldFits(N, F, mode, SubSeq(held, Len(held) - k + 1, Len(held)),
                    SubSeq(shapes, Len(shapes) - k + 1, Len(shapes)), lo, hi)
  <1>1. PICK n \in Nat : /\ n = Len(shapes) /\ n = Len(held) /\ IsSeq(held) /\ IsSeq(shapes)
                         /\ \A i \in 1..n : shapes[i] \in Shapes /\ ValueFits(N, F, mode, held[i], shapes[i], lo, hi)
    BY HeldIs
  <1>2. k \in 0..n
    BY <1>1
  <1>3. PICK h : h = SubSeq(held, n - k + 1, n)
    OBVIOUS
  <1>4. PICK s : s = SubSeq(shapes, n - k + 1, n)
    OBVIOUS
  <1>5. IsSeq(h) /\ Len(h) = k /\ \A i \in 1..k : h[i] = held[n - k + i]
    BY <1>1, <1>2, <1>3, Lasts
  <1>6. IsSeq(s) /\ Len(s) = k /\ \A i \in 1..k : s[i] = shapes[n - k + i]
    BY <1>1, <1>2, <1>4, Lasts
  <1>7. \A i \in 1..k : n - k + i \in 1..n
    BY <1>2
  <1>8. HeldFits(N, F, mode, h, s, lo, hi)
    BY <1>1, <1>5, <1>6, <1>7, HeldBy
  <1> QED
    BY <1>1, <1>3, <1>4, <1>8

LEMMA HeldRemove ==
    ASSUME NEW N, NEW F, NEW mode, NEW held, NEW shapes, NEW lo, NEW hi,
           HeldFits(N, F, mode, held, shapes, lo, hi), NEW k \in 1..Len(shapes)
    PROVE  HeldFits(N, F, mode, RemoveAt(held, k), RemoveAt(shapes, k), lo, hi)
  <1>1. PICK n \in Nat : /\ n = Len(shapes) /\ n = Len(held) /\ IsSeq(held) /\ IsSeq(shapes)
                         /\ \A i \in 1..n : shapes[i] \in Shapes /\ ValueFits(N, F, mode, held[i], shapes[i], lo, hi)
    BY HeldIs
  <1>2. k \in 1..n
    BY <1>1
  <1>3. PICK h : h = RemoveAt(held, k)
    OBVIOUS
  <1>4. PICK s : s = RemoveAt(shapes, k)
    OBVIOUS
  <1>5. IsSeq(h) /\ Len(h) = n - 1 /\ \A i \in 1..(n - 1) : h[i] = IF i < k THEN held[i] ELSE held[i + 1]
    BY <1>1, <1>2, <1>3, Removed
  <1>6. IsSeq(s) /\ Len(s) = n - 1 /\ \A i \in 1..(n - 1) : s[i] = IF i < k THEN shapes[i] ELSE shapes[i + 1]
    BY <1>1, <1>2, <1>4, Removed
  <1>7. \A i \in 1..(n - 1) : i \in 1..n /\ i + 1 \in 1..n
    BY <1>2
  <1>8. \A i \in 1..(n - 1) : s[i] \in Shapes /\ ValueFits(N, F, mode, h[i], s[i], lo, hi)
    BY <1>1, <1>5, <1>6, <1>7
  <1>9. HeldFits(N, F, mode, h, s, lo, hi)
    BY <1>5, <1>6, <1>8, HeldBy
  <1> QED
    BY <1>3, <1>4, <1>9

LEMMA HeldReplace ==
    ASSUME NEW N, NEW F, NEW mode, NEW held, NEW shapes, NEW lo, NEW hi,
           HeldFits(N, F, mode, held, shapes, lo, hi), NEW k \in 1..Len(shapes),
           NEW v, NEW shape, shape \in Shapes, ValueFits(N, F, mode, v, shape, lo, hi)
    PROVE  HeldFits(N, F, mode, [held EXCEPT ![k] = v], [shapes EXCEPT ![k] = shape], lo, hi)
  <1>1. PICK n \in Nat : /\ n = Len(shapes) /\ n = Len(held) /\ IsSeq(held) /\ IsSeq(shapes)
                         /\ \A i \in 1..n : shapes[i] \in Shapes /\ ValueFits(N, F, mode, held[i], shapes[i], lo, hi)
    BY HeldIs
  <1>2. k \in 1..n
    BY <1>1
  <1>3. PICK h : h = [held EXCEPT ![k] = v]
    OBVIOUS
  <1>4. PICK s : s = [shapes EXCEPT ![k] = shape]
    OBVIOUS
  <1>5. IsSeq(h) /\ Len(h) = n /\ \A i \in 1..n : h[i] = IF i = k THEN v ELSE held[i]
    <2>1. DOMAIN held = 1..n
      BY <1>1, Sequence
    <2>2. /\ \A i \in 1..n : h[i] = IF i = k THEN v ELSE held[i]
          /\ h \in [1..n -> ToSet(held) \cup {v}]
      BY <1>2, <1>3, <2>1 DEF ToSet
    <2>3. IsSeq(h) /\ Len(h) = n
      BY <2>2, Listed
    <2> QED
      BY ONLY <2>2, <2>3
  <1>6. IsSeq(s) /\ Len(s) = n /\ \A i \in 1..n : s[i] = IF i = k THEN shape ELSE shapes[i]
    <2>1. DOMAIN shapes = 1..n
      BY <1>1, Sequence
    <2>2. /\ \A i \in 1..n : s[i] = IF i = k THEN shape ELSE shapes[i]
          /\ s \in [1..n -> ToSet(shapes) \cup {shape}]
      BY <1>2, <1>4, <2>1 DEF ToSet
    <2>3. IsSeq(s) /\ Len(s) = n
      BY <2>2, Listed
    <2> QED
      BY ONLY <2>2, <2>3
  <1>7. \A i \in 1..n : s[i] \in Shapes /\ ValueFits(N, F, mode, h[i], s[i], lo, hi)
    BY <1>1, <1>5, <1>6
  <1>8. HeldFits(N, F, mode, h, s, lo, hi)
    BY <1>5, <1>6, <1>7, HeldBy
  <1> QED
    BY <1>3, <1>4, <1>8

\* More nodes, some of them destroyed, something gone wrong: what is held
\* still fits, unless it was fresh.
LEMMA HeldKeeps ==
    ASSUME NEW N, NEW F, NEW mode, NEW held, NEW shapes, NEW lo, NEW hi,
           Bounds(N, lo, hi), HeldFits(N, F, mode, held, shapes, lo, hi),
           \A i \in 1..Len(shapes) : shapes[i] # "fresh",
           NEW M, NEW G, NEW later, Extends(M, N), Len(M) \in Nat,
           later # "failed" => mode # "failed" /\ G \cap ({1} \cup ((lo + 1)..hi)) \subseteq F
    PROVE  HeldFits(M, G, later, held, shapes, lo, hi)
  <1>1. PICK n \in Nat : /\ n = Len(shapes) /\ n = Len(held) /\ IsSeq(held) /\ IsSeq(shapes)
                         /\ \A i \in 1..n : shapes[i] \in Shapes /\ ValueFits(N, F, mode, held[i], shapes[i], lo, hi)
    BY HeldIs
  <1>2. later # "failed" => Best(N, F, lo, hi) \subseteq Best(M, G, lo, hi)
    BY BestGrows DEF Bounds
  <1>3. \A v, s : HasShape(Len(N), v, s) => HasShape(Len(M), v, s)
    <2>1. 1..Len(N) \subseteq 1..Len(M)
      BY DEF Extends, Bounds
    <2>2. \A v : v \in Seq(1..Len(N)) => v \in Seq(1..Len(M))
      <3>1. ASSUME NEW v \in Seq(1..Len(N)) PROVE v \in Seq(1..Len(M))
        <4>1. PICK k \in Nat : v \in [1..k -> 1..Len(N)]
          BY SeqDef
        <4>2. v \in [1..k -> 1..Len(M)]
          BY <2>1, <4>1
        <4> QED
          BY <4>2, SeqDef
      <3> QED
        BY <3>1
    <2>3. \A v : IsOne(Len(N), v) => IsOne(Len(M), v)
      BY <2>1 DEF IsOne
    <2> QED
      BY <2>2, <2>3 DEF HasShape
  <1>4. ASSUME NEW i \in 1..n PROVE shapes[i] \in Shapes /\ ValueFits(M, G, later, held[i], shapes[i], lo, hi)
    <2>1. PICK v : v = held[i]
      OBVIOUS
    <2>2. PICK s : s = shapes[i]
      OBVIOUS
    <2>3. ValueFits(N, F, mode, v, s, lo, hi) /\ s # "fresh" /\ s \in Shapes
      BY <1>1, <2>1, <2>2
    <2>4. HasShape(Len(M), v, s)
      BY <1>3, <2>3 DEF ValueFits
    <2>5. later # "failed" /\ s \in ListShapes => Owned(M, G, v, lo, hi)
      BY <1>2, <2>3 DEF ValueFits, Owned
    <2>6. ValueFits(M, G, later, v, s, lo, hi)
      BY <2>3, <2>4, <2>5 DEF ValueFits
    <2> QED
      BY <2>1, <2>2, <2>3, <2>6
  <1> QED
    BY <1>1, <1>4, HeldBy

-----------------------------------------------------------------------------
(***************************************************************************)
(* The calls in progress, counted from the first of them.  Each has a      *)
(* place: the point of the table where it is, and two numbers of nodes.    *)
(* The nodes up to lo are none of its business; those that it holds are    *)
(* no later than hi, if they are not fresh.                                *)
(***************************************************************************)
At(s, d) == s[Len(s) - d + 1]

Raised(mode, later) ==
    later = mode \/ (mode = "unread" /\ later = "read") \/ (mode = "read" /\ later = "failed")

FrameFits(N, F, mode, frame, place) ==
    /\ place.point \in Table /\ place.point.mode = mode
    /\ frame = [rest |-> place.point.rest, held |-> frame.held]
    /\ Bounds(N, place.lo, place.hi)
    /\ HeldFits(N, F, mode, frame.held, place.point.shapes, place.lo, place.hi)

\* A call and the one that waits for it.
Linked(caller, callee) ==
    /\ callee.point.gives = GivesBack(Head(caller.point.rest).fn)
    /\ caller.lo <= callee.lo
    /\ Head(caller.point.rest).args = 0 => caller.hi <= callee.lo

\* The first k calls wait, each for the next one.
Below(s, N, F, mode, places, k) ==
    /\ \A d \in 1..k : /\ FrameFits(N, F, mode, At(s, d), places[d])
                       /\ places[d].point.waits = TRUE
                       /\ Linked(places[d], places[d + 1])
    /\ \A i, j \in 1..(k + 1) : i <= j => places[i].hi <= places[j].hi

StackFits(s, N, F, mode, places) ==
    /\ IsSeq(s) /\ Len(s) \in Nat \ {0} /\ mode \in Modes
    /\ places[1].point.gives = "node"
    /\ Below(s, N, F, mode, places, Len(s) - 1)
    /\ FrameFits(N, F, mode, At(s, Len(s)), places[Len(s)])
    /\ places[Len(s)].point.waits = FALSE

LEMMA InFrontOfTail ==
    ASSUME NEW s, IsSeq(s), s # <<>>, NEW f
    PROVE  /\ IsSeq(<<f>> \o Tail(s)) /\ Len(<<f>> \o Tail(s)) = Len(s) /\ Len(s) \in Nat \ {0}
           /\ At(<<f>> \o Tail(s), Len(s)) = f /\ At(s, Len(s)) = Head(s)
           /\ \A d \in 1..(Len(s) - 1) : At(<<f>> \o Tail(s), d) = At(s, d)
  <1>1. /\ IsSeq(Tail(s)) /\ Len(s) \in Nat \ {0} /\ Len(Tail(s)) = Len(s) - 1 /\ Head(s) = s[1]
        /\ \A i \in 1..(Len(s) - 1) : Tail(s)[i] = s[i + 1]
    BY Tails
  <1>2. IsSeq(<<f>>) /\ Len(<<f>>) = 1 /\ <<f>>[1] = f
    BY Single
  <1>3. PICK t : t = <<f>> \o Tail(s)
    OBVIOUS
  <1>4. PICK n \in Nat \ {0} : n = Len(s)
    BY <1>1
  <1>5. /\ IsSeq(t) /\ Len(t) = n
        /\ \A i \in 1..n : t[i] = IF i <= 1 THEN <<f>>[i] ELSE Tail(s)[i - 1]
    BY <1>1, <1>2, <1>3, <1>4, Joined
  <1>6. t[1] = f /\ \A i \in 1..n : i > 1 => t[i] = s[i]
    <2>1. t[1] = f
      BY <1>2, <1>4, <1>5
    <2>2. ASSUME NEW i \in 1..n, i > 1 PROVE t[i] = s[i]
      <3>1. i - 1 \in 1..(n - 1) /\ ~(i <= 1) /\ (i - 1) + 1 = i
        BY <1>4, <2>2
      <3> QED
        BY <1>1, <1>4, <1>5, <3>1
    <2> QED
      BY <2>1, <2>2
  <1>7. At(t, n) = f /\ At(s, n) = Head(s)
    <2>1. n - n + 1 = 1
      BY <1>4
    <2> QED
      BY <1>1, <1>4, <1>5, <1>6, <2>1 DEF At
  <1>8. ASSUME NEW d \in 1..(n - 1) PROVE At(t, d) = At(s, d)
    <2>1. n - d + 1 \in 1..n /\ n - d + 1 > 1
      BY <1>4, <1>8
    <2> QED
      BY <1>4, <1>5, <1>6, <2>1 DEF At
  <1> QED
    BY <1>1, <1>3, <1>4, <1>5, <1>7, <1>8

LEMMA TwoInFrontOfTail ==
    ASSUME NEW s, IsSeq(s), s # <<>>, NEW c, NEW f
    PROVE  /\ IsSeq(<<c, f>> \o Tail(s)) /\ Len(<<c, f>> \o Tail(s)) = Len(s) + 1
           /\ At(<<c, f>> \o Tail(s), Len(s) + 1) = c /\ At(<<c, f>> \o Tail(s), Len(s)) = f
           /\ \A d \in 1..(Len(s) - 1) : At(<<c, f>> \o Tail(s), d) = At(s, d)
  <1>1. /\ IsSeq(Tail(s)) /\ Len(s) \in Nat \ {0} /\ Len(Tail(s)) = Len(s) - 1
        /\ \A i \in 1..(Len(s) - 1) : Tail(s)[i] = s[i + 1]
    BY Tails
  <1>2. IsSeq(<<c, f>>) /\ Len(<<c, f>>) = 2 /\ <<c, f>>[1] = c /\ <<c, f>>[2] = f
    <2>1. <<c, f>> \in Seq({c, f}) /\ Len(<<c, f>>) = 2 /\ <<c, f>>[1] = c /\ <<c, f>>[2] = f
      OBVIOUS
    <2> QED
      BY <2>1, SequenceOfItsElements
  <1>3. PICK t : t = <<c, f>> \o Tail(s)
    OBVIOUS
  <1>4. PICK n \in Nat \ {0} : n = Len(s)
    BY <1>1
  <1>5. /\ IsSeq(t) /\ Len(t) = n + 1
        /\ \A i \in 1..(n + 1) : t[i] = IF i <= 2 THEN <<c, f>>[i] ELSE Tail(s)[i - 2]
    BY <1>1, <1>2, <1>3, <1>4, Joined
  <1>6. t[1] = c /\ t[2] = f /\ \A i \in 1..(n + 1) : i > 2 => t[i] = s[i - 1]
    <2>1. t[1] = c /\ t[2] = f
      BY <1>2, <1>4, <1>5
    <2>2. ASSUME NEW i \in 1..(n + 1), i > 2 PROVE t[i] = s[i - 1]
      <3>1. i - 2 \in 1..(n - 1) /\ ~(i <= 2) /\ (i - 2) + 1 = i - 1
        BY <1>4, <2>2
      <3> QED
        BY <1>1, <1>4, <1>5, <3>1
    <2> QED
      BY <2>1, <2>2
  <1>7. At(t, n + 1) = c /\ At(t, n) = f
    <2>1. (n + 1) - (n + 1) + 1 = 1 /\ (n + 1) - n + 1 = 2
      BY <1>4
    <2> QED
      BY <1>5, <1>6, <2>1 DEF At
  <1>8. ASSUME NEW d \in 1..(n - 1) PROVE At(t, d) = At(s, d)
    <2>1. (n + 1) - d + 1 \in 1..(n + 1) /\ (n + 1) - d + 1 > 2 /\ ((n + 1) - d + 1) - 1 = n - d + 1
      BY <1>4, <1>8
    <2> QED
      BY <1>4, <1>5, <1>6, <2>1 DEF At
  <1> QED
    BY <1>3, <1>4, <1>5, <1>7, <1>8

LEMMA InFrontOfTails ==
    ASSUME NEW s, IsSeq(s), Len(s) > 1, NEW f
    PROVE  /\ IsSeq(<<f>> \o Tail(Tail(s))) /\ Len(<<f>> \o Tail(Tail(s))) = Len(s) - 1
           /\ At(<<f>> \o Tail(Tail(s)), Len(s) - 1) = f /\ At(s, Len(s) - 1) = s[2]
           /\ \A d \in 1..(Len(s) - 2) : At(<<f>> \o Tail(Tail(s)), d) = At(s, d)
  <1>1. PICK n \in Nat : n = Len(s)
    BY Sequence
  <1>2. s # <<>>
    BY Sequence
  <1>3. PICK u : u = Tail(s)
    OBVIOUS
  <1>4. IsSeq(u) /\ Len(u) = n - 1 /\ \A i \in 1..(n - 1) : u[i] = s[i + 1]
    BY <1>1, <1>2, <1>3, Tails
  <1>5. u # <<>> /\ n > 1
    BY <1>1, <1>4, Sequence
  <1>6. PICK t : t = <<f>> \o Tail(u)
    OBVIOUS
  <1>7. /\ IsSeq(t) /\ Len(t) = n - 1
        /\ At(t, n - 1) = f /\ \A d \in 1..(n - 2) : At(t, d) = At(u, d)
    <2>1. /\ IsSeq(t) /\ Len(t) = Len(u) /\ At(t, Len(u)) = f
          /\ \A d \in 1..(Len(u) - 1) : At(t, d) = At(u, d)
      BY <1>4, <1>5, <1>6, InFrontOfTail
    <2> QED
      BY <1>1, <1>4, <2>1
  <1>8. At(s, n - 1) = s[2] /\ \A d \in 1..(n - 2) : At(u, d) = At(s, d)
    <2>1. n - (n - 1) + 1 = 2
      BY <1>1
    <2>2. ASSUME NEW d \in 1..(n - 2) PROVE At(u, d) = At(s, d)
      <3>1. (n - 1) - d + 1 \in 1..(n - 1) /\ ((n - 1) - d + 1) + 1 = n - d + 1
        BY <1>1, <2>2
      <3> QED
        BY <1>1, <1>4, <3>1 DEF At
    <2> QED
      BY <1>1, <2>1, <2>2 DEF At
  <1> QED
    BY <1>1, <1>3, <1>6, <1>7, <1>8
\* A call that waits goes on waiting when something goes wrong, or when the
\* first token is read.
LEMMA WaitingPoint ==
    ASSUME CodeFits, NEW p \in Table, p.waits = TRUE
    PROVE  /\ Fits(p) /\ AfterWaiting(p) \subseteq Table
           /\ FitsWaiting(p) /\ p.shapes \in Seq(Shapes) /\ p.mode \in Modes
  <1>1. Fits(p) /\ PointsAfter(p) \subseteq Table
    BY DEF CodeFits
  <1>2. PointsAfter(p) = AfterWaiting(p)
    BY DEF PointsAfter
  <1>3. FitsWaiting(p) /\ p.shapes \in Seq(Shapes) /\ p.mode \in Modes
    BY <1>1 DEF Fits
  <1> QED
    BY <1>1, <1>2, <1>3

Lift(p, later) == IF later = p.mode THEN p ELSE InMode(later, p)

LEMMA Lifted ==
    ASSUME CodeFits, NEW p \in Table, p.waits = TRUE, NEW later, Raised(p.mode, later)
    PROVE  /\ Lift(p, later) \in Table /\ Lift(p, later).mode = later /\ Lift(p, later).waits = TRUE
           /\ Lift(p, later).rest = p.rest /\ Lift(p, later).shapes = p.shapes
           /\ Lift(p, later).gives = p.gives /\ later \in Modes
           /\ later # "failed" => p.mode # "failed"
  <1>1. AfterWaiting(p) \subseteq Table /\ p.mode \in Modes
    BY WaitingPoint
  <1>2. PICK q : q = InMode(later, p)
    OBVIOUS
  <1>3. q.mode = later /\ q.waits = TRUE /\ q.rest = p.rest /\ q.shapes = p.shapes /\ q.gives = p.gives
    BY <1>2 DEF InMode, Point
  <1>4. p.mode = "unread" => InMode("read", p) \in AfterWaiting(p)
    BY DEF AfterWaiting, Where
  <1>5. p.mode = "read" => InMode("failed", p) \in AfterWaiting(p)
    BY DEF AfterWaiting, Where
  <1>6. later # p.mode => q \in Table
    BY <1>1, <1>2, <1>4, <1>5 DEF Raised
  <1> QED
    BY <1>1, <1>2, <1>3, <1>6 DEF Lift, Raised, Modes

Place(point, lo, hi) == [point |-> point, lo |-> lo, hi |-> hi]

\* The calls that wait do not mind what the last one does: it may read, make
\* nodes, destroy its own, or fail.
LEMMA FrameKeeps ==
    ASSUME CodeFits, NEW N, NEW F, NEW mode, NEW frame, NEW place,
           FrameFits(N, F, mode, frame, place), place.point.waits = TRUE,
           NEW M, NEW G, NEW later, Raised(mode, later), Extends(M, N), Len(M) \in Nat,
           later # "failed" => G \cap ({1} \cup (1..place.hi)) \subseteq F
    PROVE  FrameFits(M, G, later, frame, Place(Lift(place.point, later), place.lo, place.hi))
  <1>1. PICK p : p = place.point
    OBVIOUS
  <1>2. PICK lo : lo = place.lo
    OBVIOUS
  <1>3. PICK hi : hi = place.hi
    OBVIOUS
  <1>4. /\ p \in Table /\ p.mode = mode /\ frame = [rest |-> p.rest, held |-> frame.held]
        /\ Bounds(N, lo, hi) /\ HeldFits(N, F, mode, frame.held, p.shapes, lo, hi) /\ p.waits = TRUE
    BY <1>1, <1>2, <1>3 DEF FrameFits
  <1>5. PICK q : q = Lift(p, later)
    OBVIOUS
  <1>6. /\ q \in Table /\ q.mode = later /\ q.rest = p.rest /\ q.shapes = p.shapes
        /\ later # "failed" => mode # "failed"
    BY <1>4, <1>5, Lifted
  <1>7. \A i \in 1..Len(p.shapes) : p.shapes[i] # "fresh"
    <2>1. FitsWaiting(p) /\ p.shapes \in Seq(Shapes)
      BY <1>4, WaitingPoint
    <2>2. DOMAIN p.shapes = 1..Len(p.shapes)
      BY <2>1, LenProperties
    <2> QED
      BY <2>1, <2>2 DEF FitsWaiting
  <1>8. later # "failed" => mode # "failed" /\ G \cap ({1} \cup ((lo + 1)..hi)) \subseteq F
    <2>1. (lo + 1)..hi \subseteq 1..hi
      BY <1>4 DEF Bounds
    <2> QED
      BY <1>3, <1>6, <2>1
  <1>9. HeldFits(M, G, later, frame.held, p.shapes, lo, hi)
    BY <1>4, <1>7, <1>8, HeldKeeps
  <1>10. Bounds(M, lo, hi)
    BY <1>4 DEF Bounds, Extends
  <1>11. PICK new : new = Place(q, lo, hi)
    OBVIOUS
  <1>12. new.point = q /\ new.lo = lo /\ new.hi = hi
    BY <1>11 DEF Place
  <1>13. FrameFits(M, G, later, frame, new)
    BY <1>4, <1>6, <1>9, <1>10, <1>12 DEF FrameFits
  <1> QED
    BY <1>1, <1>2, <1>3, <1>5, <1>11, <1>13

\* What the last call may do.
Changes(N, F, mode, M, G, later, hi) ==
    /\ Raised(mode, later) /\ Extends(M, N) /\ Len(M) \in Nat
    /\ later # "failed" => G \cap ({1} \cup (1..hi)) \subseteq F
SameBelow(t, s, k) == \A d \in 1..k : At(t, d) = At(s, d)
Succeeds(top, place) ==
    /\ top.point.gives = place.point.gives /\ top.lo = place.lo /\ place.lo \in Nat
    /\ top.hi \in Nat /\ place.hi \in Nat /\ place.hi <= top.hi

Keeps(new, places, t, M, G, later, k, top) ==
    /\ Below(t, M, G, later, new, k) /\ new[k + 1] = top
    /\ new[1].point.gives = places[1].point.gives
    /\ \A d \in 1..k : new[d] = Place(Lift(places[d].point, later), places[d].lo, places[d].hi)

LEMMA BelowKeeps ==
    ASSUME CodeFits, NEW s, NEW N, NEW F, NEW mode, NEW places, NEW k \in Nat,
           Below(s, N, F, mode, places, k), NEW t, SameBelow(t, s, k),
           NEW M, NEW G, NEW later, Changes(N, F, mode, M, G, later, places[k + 1].hi),
           NEW top, Succeeds(top, places[k + 1])
    PROVE  \E new : Keeps(new, places, t, M, G, later, k, top)
  <1>0. /\ Raised(mode, later) /\ Extends(M, N) /\ Len(M) \in Nat
        /\ later # "failed" => G \cap ({1} \cup (1..places[k + 1].hi)) \subseteq F
        /\ top.point.gives = places[k + 1].point.gives /\ top.lo = places[k + 1].lo
        /\ top.hi \in Nat /\ places[k + 1].hi \in Nat /\ places[k + 1].hi <= top.hi
        /\ \A d \in 1..k : At(t, d) = At(s, d)
    BY DEF Changes, Succeeds, SameBelow
  <1>1. PICK new : new = [d \in Nat |-> IF d = k + 1 THEN top
                                        ELSE Place(Lift(places[d].point, later), places[d].lo, places[d].hi)]
    OBVIOUS
  <1>2. /\ new[k + 1] = top
        /\ \A d \in 1..k : new[d] = Place(Lift(places[d].point, later), places[d].lo, places[d].hi)
    BY <1>1
  <1>3. ASSUME NEW d \in 1..k
        PROVE  /\ FrameFits(N, F, mode, At(s, d), places[d]) /\ places[d].point.waits = TRUE
               /\ Linked(places[d], places[d + 1]) /\ places[d].point.mode = mode
               /\ places[d].point \in Table /\ places[d].hi \in Nat /\ places[d].lo \in Nat
               /\ places[d].hi <= places[k + 1].hi
    BY <1>3 DEF Below, FrameFits, Bounds
  <1>4. ASSUME NEW d \in 1..k
        PROVE  /\ FrameFits(M, G, later, At(t, d), new[d]) /\ new[d].point.waits = TRUE
               /\ new[d].lo = places[d].lo /\ new[d].hi = places[d].hi
               /\ new[d].point.rest = places[d].point.rest /\ new[d].point.gives = places[d].point.gives
    <2>1. PICK place : place = places[d]
      OBVIOUS
    <2>2. FrameFits(N, F, mode, At(s, d), place) /\ place.point.waits = TRUE /\ place.point.mode = mode /\ place.point \in Table
      BY <1>3, <2>1
    <2>3. later # "failed" => G \cap ({1} \cup (1..place.hi)) \subseteq F
      <3>1. PICK a \in Nat : a = place.hi
        BY <1>3, <2>1
      <3>2. PICK b \in Nat : b = places[k + 1].hi
        BY <1>0
      <3>3. a <= b
        BY <1>3, <2>1, <3>1, <3>2
      <3>4. 1..a \subseteq 1..b
        BY <3>3
      <3> QED
        BY <1>0, <3>1, <3>2, <3>4
    <2>4. PICK p : p = place.point
      OBVIOUS
    <2>5. PICK q : q = Lift(p, later)
      OBVIOUS
    <2>6. q.waits = TRUE /\ q.rest = p.rest /\ q.gives = p.gives
      BY <1>0, <2>2, <2>4, <2>5, Lifted
    <2>7. FrameFits(M, G, later, At(s, d), Place(Lift(place.point, later), place.lo, place.hi))
      BY <1>0, <2>2, <2>3, FrameKeeps
    <2>8. new[d] = Place(q, place.lo, place.hi)
      BY <1>2, <2>1, <2>4, <2>5
    <2>9. new[d].point = q /\ new[d].lo = place.lo /\ new[d].hi = place.hi
      BY <2>8 DEF Place
    <2> QED
      BY <1>0, <2>1, <2>4, <2>5, <2>6, <2>7, <2>8, <2>9
  <1>5. /\ new[k + 1].point.gives = places[k + 1].point.gives /\ new[k + 1].lo = places[k + 1].lo
    BY <1>0, <1>2
  <1>6. ASSUME NEW d \in 1..k PROVE Linked(new[d], new[d + 1])
    <2>1. /\ new[d + 1].point.gives = places[d + 1].point.gives /\ new[d + 1].lo = places[d + 1].lo
      <3>1. d + 1 \in 1..k \/ d = k
        OBVIOUS
      <3> QED
        BY <1>4, <1>5, <3>1
    <2> QED
      BY <1>3, <1>4, <2>1 DEF Linked
  <1>7. \A i, j \in 1..(k + 1) : i <= j => new[i].hi <= new[j].hi
    <2>1. ASSUME NEW i \in 1..(k + 1), NEW j \in 1..(k + 1), i <= j PROVE new[i].hi <= new[j].hi
      <3>1. places[i].hi <= places[j].hi
        BY <2>1 DEF Below
      <3>2. CASE j = k + 1 /\ i = k + 1
        BY <1>0, <1>2, <3>2
      <3>3. CASE j = k + 1 /\ i # k + 1
        <4>1. i \in 1..k
          BY <3>3
        <4>2. new[i].hi = places[i].hi /\ places[i].hi <= places[k + 1].hi /\ new[j].hi = top.hi /\ places[i].hi \in Nat
          BY <1>2, <1>3, <1>4, <3>3, <4>1
        <4> QED
          BY <1>0, <4>2
      <3>4. CASE j # k + 1
        <4>1. i \in 1..k /\ j \in 1..k
          BY <2>1, <3>4
        <4> QED
          BY <1>4, <3>1, <4>1
      <3> QED
        BY <3>2, <3>3, <3>4
    <2> QED
      BY <2>1
  <1>8. Below(t, M, G, later, new, k)
    BY <1>4, <1>6, <1>7 DEF Below
  <1>9. new[1].point.gives = places[1].point.gives
    <2>1. CASE k = 0
      BY <1>5, <2>1
    <2>2. CASE k # 0
      <3>1. 1 \in 1..k
        BY <2>2
      <3> QED
        BY <1>4, <3>1
    <2> QED
      BY <2>1, <2>2
  <1> QED
    BY <1>2, <1>8, <1>9 DEF Keeps
\* What is known of the last call and of those that wait for it.
TopIs(s, N, F, mode, places, L, p, lo, hi) ==
    /\ L \in Nat \ {0} /\ IsSeq(s) /\ s # <<>> /\ mode \in Modes
    /\ p \in Table /\ p.mode = mode /\ p.waits = FALSE
    /\ Head(s) = [rest |-> p.rest, held |-> Head(s).held]
    /\ Bounds(N, lo, hi) /\ HeldFits(N, F, mode, Head(s).held, p.shapes, lo, hi)
    /\ Below(s, N, F, mode, places, L - 1) /\ L - 1 \in Nat /\ (L - 1) + 1 = L
    /\ places[1].point.gives = "node"
    /\ lo \in Nat /\ hi \in Nat /\ Len(N) \in Nat /\ lo <= hi /\ hi <= Len(N)

LEMMA TopFits ==
    ASSUME NEW s, NEW N, NEW F, NEW mode, NEW places, StackFits(s, N, F, mode, places)
    PROVE  TopIs(s, N, F, mode, places, Len(s), places[Len(s)].point, places[Len(s)].lo, places[Len(s)].hi)
  <1> DEFINE L == Len(s)
             p == places[L].point
             lo == places[L].lo
             hi == places[L].hi
  <1>1. IsSeq(s) /\ L \in Nat \ {0} /\ s # <<>> /\ mode \in Modes
    BY Sequence DEF StackFits
  <1>2. At(s, L) = Head(s)
    BY <1>1, InFrontOfTail
  <1>3. FrameFits(N, F, mode, At(s, L), places[L]) /\ p.waits = FALSE
    BY DEF StackFits
  <1>4. /\ p \in Table /\ p.mode = mode /\ Head(s) = [rest |-> p.rest, held |-> Head(s).held]
        /\ Bounds(N, lo, hi) /\ HeldFits(N, F, mode, Head(s).held, p.shapes, lo, hi)
    BY <1>2, <1>3 DEF FrameFits
  <1>5. Below(s, N, F, mode, places, L - 1) /\ places[1].point.gives = "node"
    BY DEF StackFits
  <1>6. L - 1 \in Nat /\ (L - 1) + 1 = L
    BY <1>1
  <1>7. lo \in Nat /\ hi \in Nat /\ Len(N) \in Nat /\ lo <= hi /\ hi <= Len(N)
    BY <1>4 DEF Bounds
  <1> QED
    BY <1>1, <1>3, <1>4, <1>5, <1>6, <1>7 DEF TopIs

\* The last call goes on to another point.
Continues(N, F, mode, place, q, held, high) ==
    /\ q.waits = FALSE /\ q.gives = place.point.gives /\ q.mode = mode
    /\ place.hi <= high /\ high <= Len(N)
    /\ HeldFits(N, F, mode, held, q.shapes, place.lo, high)

LEMMA InPlace ==
    ASSUME CodeFits, NEW s, NEW N, NEW F, NEW mode, NEW places, StackFits(s, N, F, mode, places),
           NEW M, NEW G, NEW later \in Modes, Changes(N, F, mode, M, G, later, places[Len(s)].hi),
           NEW q \in Table, NEW high \in Nat, NEW held, Continues(M, G, later, places[Len(s)], q, held, high),
           NEW t, t = <<[rest |-> q.rest, held |-> held]>> \o Tail(s)
    PROVE  \E new : StackFits(t, M, G, later, new)
  <1>0. /\ q.waits = FALSE /\ q.gives = places[Len(s)].point.gives /\ later = q.mode
        /\ Raised(mode, later) /\ Extends(M, N) /\ Len(M) \in Nat
        /\ places[Len(s)].hi <= high /\ high <= Len(M)
        /\ later # "failed" => G \cap ({1} \cup (1..places[Len(s)].hi)) \subseteq F
        /\ HeldFits(M, G, later, held, q.shapes, places[Len(s)].lo, high)
    BY DEF Continues, Changes
  <1>1. PICK L : L = Len(s)
    OBVIOUS
  <1>2. PICK p : p = places[L].point
    OBVIOUS
  <1>3. PICK lo : lo = places[L].lo
    OBVIOUS
  <1>4. PICK hi : hi = places[L].hi
    OBVIOUS
  <1>5. /\ L \in Nat \ {0} /\ IsSeq(s) /\ s # <<>> /\ Below(s, N, F, mode, places, L - 1)
        /\ L - 1 \in Nat /\ (L - 1) + 1 = L /\ places[1].point.gives = "node"
        /\ lo \in Nat /\ hi \in Nat /\ lo <= hi
    <2>1. TopIs(s, N, F, mode, places, Len(s), places[Len(s)].point, places[Len(s)].lo, places[Len(s)].hi)
      BY TopFits
    <2>2. TopIs(s, N, F, mode, places, L, p, lo, hi)
      BY ONLY <1>1, <1>2, <1>3, <1>4, <2>1
    <2> QED
      BY ONLY <2>2 DEF TopIs
  <1>6. PICK f : f = [rest |-> q.rest, held |-> held]
    OBVIOUS
  <1>7. IsSeq(t) /\ Len(t) = L /\ At(t, L) = f /\ \A d \in 1..(L - 1) : At(t, d) = At(s, d)
    BY <1>1, <1>5, <1>6, InFrontOfTail
  <1>8. PICK top : top = Place(q, lo, high)
    OBVIOUS
  <1>9. top.point = q /\ top.lo = lo /\ top.hi = high
    BY <1>8 DEF Place
  <1>10. PICK k \in Nat : k = L - 1
    BY <1>5
  <1>11. /\ Below(s, N, F, mode, places, k) /\ SameBelow(t, s, k)
         /\ Changes(N, F, mode, M, G, later, places[k + 1].hi) /\ Succeeds(top, places[k + 1])
    <2>1. k + 1 = L
      BY <1>5, <1>10
    <2>2. Below(s, N, F, mode, places, k) /\ SameBelow(t, s, k)
      BY <1>5, <1>7, <1>10 DEF SameBelow
    <2>3. Changes(N, F, mode, M, G, later, places[k + 1].hi)
      BY <1>1, <2>1
    <2>4. Succeeds(top, places[k + 1])
      BY <1>0, <1>1, <1>3, <1>4, <1>5, <1>9, <2>1 DEF Succeeds
    <2> QED
      BY <2>2, <2>3, <2>4
  <1>12. \E new : Keeps(new, places, t, M, G, later, k, top)
    BY ONLY CodeFits, <1>11, BelowKeeps
  <1>13. PICK new : /\ Below(t, M, G, later, new, k) /\ new[k + 1] = top
                    /\ new[1].point.gives = places[1].point.gives
    BY <1>12 DEF Keeps
  <1>14. FrameFits(M, G, later, f, top)
    <2>1. Bounds(M, lo, high)
      BY <1>0, <1>1, <1>4, <1>5 DEF Bounds
    <2>2. f = [rest |-> q.rest, held |-> f.held] /\ f.held = held
      BY <1>6
    <2> QED
      BY <1>0, <1>1, <1>3, <1>9, <2>1, <2>2 DEF FrameFits
  <1>15. StackFits(t, M, G, later, new)
    <2>1. k = Len(t) - 1 /\ k + 1 = Len(t) /\ Len(t) \in Nat \ {0} /\ IsSeq(t)
      BY <1>5, <1>7, <1>10
    <2>2. At(t, Len(t)) = f /\ new[Len(t)] = top
      BY <1>7, <1>13, <2>1
    <2> QED
      BY <1>0, <1>5, <1>9, <1>13, <1>14, <2>1, <2>2 DEF StackFits
  <1> QED
    BY <1>15

LEMMA BelowTheLast ==
    \A n \in Nat : \A i, j \in 1..(n + 1) : i <= j /\ j # n + 1 => i \in 1..n /\ j \in 1..n
  OBVIOUS

\* It calls a function, and waits for it.
LEMMA Pushed ==
    ASSUME CodeFits, NEW s, NEW N, NEW F, NEW mode, NEW places, StackFits(s, N, F, mode, places),
           NEW c \in Table, c.waits = FALSE, c.mode = mode,
           NEW w \in Table, w.waits = TRUE, w.mode = mode, w.gives = places[Len(s)].point.gives,
           c.gives = GivesBack(Head(w.rest).fn),
           NEW low \in Nat, places[Len(s)].lo <= low, low <= Len(N),
           Head(w.rest).args = 0 => low = Len(N),
           NEW values, HeldFits(N, F, mode, values, c.shapes, low, Len(N)),
           NEW held, HeldFits(N, F, mode, held, w.shapes, places[Len(s)].lo, Len(N)),
           NEW t, t = <<[rest |-> c.rest, held |-> values], [rest |-> w.rest, held |-> held]>> \o Tail(s)
    PROVE  \E new : StackFits(t, N, F, mode, new)
  <1>1. PICK L : L = Len(s)
    OBVIOUS
  <1>2. PICK p : p = places[L].point
    OBVIOUS
  <1>3. PICK lo : lo = places[L].lo
    OBVIOUS
  <1>4. PICK hi : hi = places[L].hi
    OBVIOUS
  <1>5. /\ L \in Nat \ {0} /\ IsSeq(s) /\ s # <<>> /\ Below(s, N, F, mode, places, L - 1)
        /\ L - 1 \in Nat /\ (L - 1) + 1 = L /\ places[1].point.gives = "node"
        /\ lo \in Nat /\ hi \in Nat /\ lo <= hi /\ hi <= Len(N) /\ Len(N) \in Nat /\ mode \in Modes
    <2>1. TopIs(s, N, F, mode, places, Len(s), places[Len(s)].point, places[Len(s)].lo, places[Len(s)].hi)
      BY TopFits
    <2>2. TopIs(s, N, F, mode, places, L, p, lo, hi)
      BY ONLY <1>1, <1>2, <1>3, <1>4, <2>1
    <2> QED
      BY ONLY <2>2 DEF TopIs
  <1>6. PICK f : f = [rest |-> w.rest, held |-> held]
    OBVIOUS
  <1>7. PICK g : g = [rest |-> c.rest, held |-> values]
    OBVIOUS
  <1>8. /\ IsSeq(t) /\ Len(t) = L + 1 /\ At(t, L + 1) = g /\ At(t, L) = f
        /\ \A d \in 1..(L - 1) : At(t, d) = At(s, d)
    BY <1>1, <1>5, <1>6, <1>7, TwoInFrontOfTail
  <1>9. PICK under : under = Place(w, lo, Len(N))
    OBVIOUS
  <1>10. PICK top : top = Place(c, low, Len(N))
    OBVIOUS
  <1>11. /\ under.point = w /\ under.lo = lo /\ under.hi = Len(N)
         /\ top.point = c /\ top.lo = low /\ top.hi = Len(N)
    BY <1>9, <1>10 DEF Place
  <1>12. PICK k \in Nat : k = L - 1
    BY <1>5
  <1>13. /\ Below(s, N, F, mode, places, k) /\ SameBelow(t, s, k)
         /\ Changes(N, F, mode, N, F, mode, places[k + 1].hi) /\ Succeeds(under, places[k + 1])
    <2>1. k + 1 = L
      BY <1>5, <1>12
    <2>2. Below(s, N, F, mode, places, k) /\ SameBelow(t, s, k)
      BY <1>5, <1>8, <1>12 DEF SameBelow
    <2>3. Changes(N, F, mode, N, F, mode, places[k + 1].hi)
      BY <1>5 DEF Changes, Raised, Extends
    <2>4. Succeeds(under, places[k + 1])
      BY <1>1, <1>3, <1>4, <1>5, <1>11, <2>1 DEF Succeeds
    <2> QED
      BY <2>2, <2>3, <2>4
  <1>14. \E new : Keeps(new, places, t, N, F, mode, k, under)
    BY ONLY CodeFits, <1>13, BelowKeeps
  <1>15. PICK mid : /\ Below(t, N, F, mode, mid, k) /\ mid[k + 1] = under
                    /\ mid[1].point.gives = places[1].point.gives
    BY <1>14 DEF Keeps
  <1>16. PICK new : new = [d \in Nat |-> IF d = L + 1 THEN top ELSE mid[d]]
    OBVIOUS
  <1>17. new[L + 1] = top /\ new[L] = under /\ \A d \in 1..L : new[d] = mid[d]
    <2>1. L + 1 \in Nat /\ L \in Nat /\ L # L + 1 /\ L = k + 1 /\ \A d \in 1..L : d \in Nat /\ d # L + 1
      BY <1>5, <1>12
    <2> QED
      BY <1>15, <1>16, <2>1
  <1>18. FrameFits(N, F, mode, f, under)
    <2>1. Bounds(N, lo, Len(N))
      BY <1>5 DEF Bounds
    <2>2. f = [rest |-> w.rest, held |-> f.held] /\ f.held = held
      BY <1>6
    <2> QED
      BY <1>1, <1>3, <1>11, <2>1, <2>2 DEF FrameFits
  <1>19. FrameFits(N, F, mode, g, top)
    <2>1. Bounds(N, low, Len(N))
      BY <1>5 DEF Bounds
    <2>2. g = [rest |-> c.rest, held |-> g.held] /\ g.held = values
      BY <1>7
    <2> QED
      BY <1>11, <2>1, <2>2 DEF FrameFits
  <1>20. Linked(under, top)
    <2>1. lo <= low
      BY <1>1, <1>3
    <2> QED
      BY <1>5, <1>11, <2>1 DEF Linked
  <1>21. Below(t, N, F, mode, new, L)
    <2>1. ASSUME NEW d \in 1..L
          PROVE  /\ FrameFits(N, F, mode, At(t, d), new[d]) /\ new[d].point.waits = TRUE
                 /\ Linked(new[d], new[d + 1])
      <3>1. CASE d = L
        BY <1>8, <1>11, <1>17, <1>18, <1>20, <3>1
      <3>2. CASE d # L
        <4>1. d \in 1..k /\ d + 1 \in 1..L
          BY <1>5, <1>12, <3>2
        <4> QED
          BY <1>15, <1>17, <4>1 DEF Below
      <3> QED
        BY <3>1, <3>2
    <2>2. ASSUME NEW i \in 1..(L + 1), NEW j \in 1..(L + 1), i <= j PROVE new[i].hi <= new[j].hi
      <3>1. \A d \in 1..L : new[d].hi <= new[L].hi
        <4>1. \A d \in 1..(k + 1) : mid[d].hi <= mid[k + 1].hi
          BY <1>15 DEF Below
        <4> QED
          BY <1>5, <1>12, <1>17, <4>1
      <3>2. new[L].hi = Len(N) /\ new[L + 1].hi = Len(N)
        BY <1>11, <1>17
      <3>3. CASE j = L + 1 /\ i = L + 1
        <4>1. new[i].hi = Len(N) /\ new[j].hi = Len(N)
          BY <3>2, <3>3
        <4>2. Len(N) \in Nat
          BY <1>5
        <4> QED
          BY ONLY <4>1, <4>2
      <3>4. CASE j = L + 1 /\ i # L + 1
        <4>1. i \in 1..L
          BY <1>5, <3>4
        <4> QED
          BY <3>1, <3>2, <3>4, <4>1
      <3>5. CASE j # L + 1
        <4>1. i \in 1..L /\ j \in 1..L /\ L = k + 1
          <5>1. L \in Nat
            BY <1>5
          <5>2. i \in 1..L /\ j \in 1..L
            BY <2>2, <3>5, <5>1, BelowTheLast
          <5> QED
            BY <1>5, <1>12, <5>2
        <4> QED
          BY <1>15, <1>17, <2>2, <4>1 DEF Below
      <3> QED
        BY <3>3, <3>4, <3>5
    <2> QED
      BY <2>1, <2>2 DEF Below
  <1>22. StackFits(t, N, F, mode, new)
    <2>1. Len(t) - 1 = L /\ L + 1 = Len(t) /\ Len(t) \in Nat \ {0} /\ IsSeq(t)
      BY <1>5, <1>8
    <2>2. At(t, Len(t)) = g /\ new[Len(t)] = top
      BY <1>8, <1>17, <2>1
    <2>3. new[1].point.gives = "node"
      BY <1>5, <1>15, <1>17
    <2> QED
      BY <1>5, <1>11, <1>19, <1>21, <2>1, <2>2, <2>3 DEF StackFits
  <1> QED
    BY <1>22

\* The last call has gone, and the one that waited for it goes on.
LEMMA FromBelow ==
    ASSUME CodeFits, NEW s, IsSeq(s), NEW N, NEW F, NEW mode \in Modes, NEW places, Len(N) \in Nat,
           Len(s) > 1, Below(s, N, F, mode, places, Len(s) - 1), places[1].point.gives = "node",
           NEW f, NEW top, Succeeds(top, places[Len(s) - 1]), FrameFits(N, F, mode, f, top),
           top.point.waits = FALSE,
           NEW t, t = <<f>> \o Tail(Tail(s))
    PROVE  \E new : StackFits(t, N, F, mode, new)
  <1>0. Len(s) \in Nat
    BY Sequence
  <1>1. PICK k \in Nat : k = Len(s) - 2
    <2>1. PICK n \in Nat : n = Len(s)
      BY <1>0
    <2>2. n > 1
      BY <2>1
    <2>3. n - 2 \in Nat
      BY ONLY <2>1, <2>2
    <2> QED
      BY <2>1, <2>3
  <1>2. k + 1 = Len(s) - 1 /\ k \in Nat /\ Len(s) - 1 = k + 1 /\ 1..k \subseteq 1..(k + 1)
    BY <1>0, <1>1
  <1>3. IsSeq(t) /\ Len(t) = k + 1 /\ At(t, k + 1) = f /\ \A d \in 1..k : At(t, d) = At(s, d)
    <2>1. /\ IsSeq(t) /\ Len(t) = Len(s) - 1 /\ At(t, Len(s) - 1) = f
          /\ \A d \in 1..(Len(s) - 2) : At(t, d) = At(s, d)
      BY InFrontOfTails
    <2> QED
      BY <1>1, <1>2, <2>1
  <1>4. Below(s, N, F, mode, places, k)
    <2>1. Below(s, N, F, mode, places, k + 1)
      BY <1>2
    <2>2. 1..(k + 1) \subseteq 1..(k + 1 + 1)
      BY <1>2
    <2> QED
      BY <1>2, <2>1, <2>2 DEF Below
  <1>5. SameBelow(t, s, k) /\ Changes(N, F, mode, N, F, mode, places[k + 1].hi) /\ Succeeds(top, places[k + 1])
    <2>1. SameBelow(t, s, k)
      BY <1>3 DEF SameBelow
    <2>2. Extends(N, N) /\ Raised(mode, mode)
      BY DEF Extends, Raised
    <2>3. Changes(N, F, mode, N, F, mode, places[k + 1].hi)
      BY <2>2 DEF Changes
    <2>4. Succeeds(top, places[k + 1])
      BY <1>2
    <2> QED
      BY <2>1, <2>3, <2>4
  <1>6. \E new : Keeps(new, places, t, N, F, mode, k, top)
    BY ONLY CodeFits, <1>4, <1>5, BelowKeeps
  <1>7. PICK new : /\ Below(t, N, F, mode, new, k) /\ new[k + 1] = top
                   /\ new[1].point.gives = places[1].point.gives
    BY <1>6 DEF Keeps
  <1>8. k = Len(t) - 1 /\ k + 1 = Len(t) /\ Len(t) \in Nat \ {0}
    <2>1. PICK n : n = Len(t)
      OBVIOUS
    <2>2. n = k + 1
      BY <1>3, <2>1
    <2>3. k = n - 1 /\ k + 1 = n /\ n \in Nat \ {0}
      BY ONLY <1>1, <2>2
    <2> QED
      BY <2>1, <2>3
  <1>9. StackFits(t, N, F, mode, new)
    <2>1. At(t, Len(t)) = f /\ new[Len(t)] = top
      BY <1>3, <1>7, <1>8
    <2> QED
      BY <1>3, <1>7, <1>8, <2>1 DEF StackFits
  <1> QED
    BY <1>9

\* What a call returns: a node, of its own while all is well.
Answers(N, F, mode, v, gives, lo) ==
    gives = "node" => /\ v = Null \/ IsOne(Len(N), v)
                      /\ mode # "failed" => IsOne(Len(N), v) /\ Owned(N, F, v, lo, Len(N))

LEMMA ResumedPoint ==
    ASSUME CodeFits, NEW w \in Table, w.waits = TRUE
    PROVE  /\ Resumed(w) \in Table
           /\ Resumed(w) = Point(w.mode, FALSE, Tail(w.rest), Append(w.shapes, ResultShape(w)), w.gives)
           /\ w.mode = "failed" /\ Head(w.rest).check # <<>> => Checked(w) \in Table
           /\ Checked(w) = Point(w.mode, FALSE, Head(w.rest).check \o Tail(w.rest), w.shapes, w.gives)
           /\ \A i \in 1..Len(w.shapes) : w.shapes[i] # "fresh"
           /\ GivesBack(Head(w.rest).fn) = "plain" => Head(w.rest).check = <<>>
           /\ w.rest # <<>> /\ ResultShape(w) \in Shapes
  <1>1. Fits(w) /\ AfterWaiting(w) \subseteq Table /\ FitsWaiting(w) /\ w.shapes \in Seq(Shapes)
    BY WaitingPoint
  <1>2. Resumed(w) \in Table /\ (w.mode = "failed" /\ Head(w.rest).check # <<>> => Checked(w) \in Table)
    BY <1>1 DEF AfterWaiting, Where
  <1>3. Resumed(w) = Point(w.mode, FALSE, Tail(w.rest), Append(w.shapes, ResultShape(w)), w.gives)
    BY DEF Resumed, Past, Goes
  <1>4. Checked(w) = Point(w.mode, FALSE, Head(w.rest).check \o Tail(w.rest), w.shapes, w.gives)
    BY DEF Checked, Goes
  <1>5. DOMAIN w.shapes = 1..Len(w.shapes)
    BY <1>1, LenProperties
  <1>6. \A i \in 1..Len(w.shapes) : w.shapes[i] # "fresh"
    BY <1>1, <1>5 DEF FitsWaiting
  <1>7. GivesBack(Head(w.rest).fn) = "plain" => Head(w.rest).check = <<>>
    BY <1>1 DEF FitsWaiting
  <1>8. w.rest # <<>>
    BY <1>1 DEF Fits
  <1>9. ResultShape(w) \in Shapes
    BY DEF ResultShape, Shapes
  <1> QED
    BY <1>2, <1>3, <1>4, <1>6, <1>7, <1>8, <1>9

\* Nothing fresh is held: it may as well be held until later.
LEMMA HeldRaises ==
    ASSUME NEW N, NEW F, NEW mode, NEW held, NEW shapes, NEW lo, NEW hi,
           Bounds(N, lo, hi), HeldFits(N, F, mode, held, shapes, lo, hi),
           \A i \in 1..Len(shapes) : shapes[i] # "fresh"
    PROVE  HeldFits(N, F, mode, held, shapes, lo, Len(N))
  <1>1. PICK t : t = Settled(shapes)
    OBVIOUS
  <1>2. /\ HeldFits(N, F, mode, held, t, lo, Len(N))
        /\ \A i \in 1..Len(shapes) : t[i] = IF shapes[i] = "fresh" THEN "some" ELSE shapes[i]
        /\ Len(t) = Len(shapes)
    BY <1>1, Settles
  <1>3. \A i \in 1..Len(shapes) : t[i] = shapes[i]
    BY <1>2
  <1>4. /\ IsSeq(held) /\ IsSeq(shapes) /\ Len(held) = Len(shapes) /\ Len(shapes) \in Nat
    BY HeldIs
  <1>5. \A i \in 1..Len(t) : t[i] \in Shapes /\ ValueFits(N, F, mode, held[i], t[i], lo, Len(N))
    BY <1>2, HeldIs
  <1>6. \A i \in 1..Len(shapes) : shapes[i] \in Shapes /\ ValueFits(N, F, mode, held[i], shapes[i], lo, Len(N))
    BY <1>2, <1>3, <1>5
  <1> QED
    BY <1>4, <1>6, HeldBy

LEMMA Popped ==
    ASSUME CodeFits, NEW s, NEW N, NEW F, NEW mode, NEW places, StackFits(s, N, F, mode, places), Len(s) > 1,
           NEW later, later \in Modes, NEW G, Changes(N, F, mode, N, G, later, places[Len(s)].hi),
           NEW v, Answers(N, G, later, v, places[Len(s)].point.gives, places[Len(s)].lo),
           NEW t, t = <<IF Head(s[2].rest).check # <<>> /\ v = Null
                        THEN [s[2] EXCEPT !.rest = Head(s[2].rest).check \o Tail(@)]
                        ELSE [rest |-> Tail(s[2].rest), held |-> Append(s[2].held, v)]>> \o Tail(Tail(s))
    PROVE  \E new : StackFits(t, N, G, later, new)
  <1>1. PICK L : L = Len(s)
    OBVIOUS
  <1>2. PICK callee : callee = places[L]
    OBVIOUS
  <1>3. PICK k \in Nat : k = L - 1
    BY <1>1, TopFits DEF TopIs
  <1>4. /\ IsSeq(s) /\ L = k + 1 /\ k > 0 /\ Below(s, N, F, mode, places, k) /\ places[1].point.gives = "node"
        /\ callee.lo \in Nat /\ callee.hi \in Nat /\ Len(N) \in Nat /\ callee.hi <= Len(N) /\ callee.lo <= callee.hi
    <2>1. TopIs(s, N, F, mode, places, Len(s), places[Len(s)].point, places[Len(s)].lo, places[Len(s)].hi)
      BY TopFits
    <2>2. TopIs(s, N, F, mode, places, L, callee.point, callee.lo, callee.hi)
      BY ONLY <1>1, <1>2, <2>1
    <2> QED
      BY <1>1, <1>3, <2>2 DEF TopIs
  <1>5. SameBelow(s, s, k) /\ Changes(N, F, mode, N, G, later, places[k + 1].hi) /\ Succeeds(callee, places[k + 1])
    BY <1>1, <1>2, <1>4 DEF SameBelow, Succeeds
  <1>6. \E mid : Keeps(mid, places, s, N, G, later, k, callee)
    BY ONLY CodeFits, <1>4, <1>5, BelowKeeps
  <1>7. PICK mid : Below(s, N, G, later, mid, k) /\ mid[k + 1] = callee /\ mid[1].point.gives = "node"
    BY <1>4, <1>6 DEF Keeps
  <1>8. PICK under : under = mid[k]
    OBVIOUS
  <1>9. FrameFits(N, G, later, At(s, k), under) /\ under.point.waits = TRUE /\ Linked(under, callee)
    BY <1>4, <1>7, <1>8 DEF Below
  <1>10. PICK w : w = under.point
    OBVIOUS
  <1>11. PICK lo : lo = under.lo
    OBVIOUS
  <1>12. PICK hi : hi = under.hi
    OBVIOUS
  <1>13. PICK caller : caller = s[2]
    OBVIOUS
  <1>14. At(s, k) = caller
    BY <1>1, <1>3, <1>13, InFrontOfTails, <1>4
  <1>15. /\ w \in Table /\ w.mode = later /\ w.waits = TRUE /\ caller = [rest |-> w.rest, held |-> caller.held]
         /\ Bounds(N, lo, hi) /\ HeldFits(N, G, later, caller.held, w.shapes, lo, hi)
    BY <1>9, <1>10, <1>11, <1>12, <1>14 DEF FrameFits
  <1>16. /\ callee.point.gives = GivesBack(Head(w.rest).fn) /\ lo <= callee.lo
         /\ Head(w.rest).args = 0 => hi <= callee.lo
    BY <1>9, <1>10, <1>11, <1>12 DEF Linked
  <1>17. lo \in Nat /\ hi \in Nat /\ lo <= hi /\ hi <= Len(N)
    BY <1>15 DEF Bounds
  <1>18. PICK f, top : /\ FrameFits(N, G, later, f, top) /\ top.point.waits = FALSE /\ Succeeds(top, under)
                       /\ t = <<f>> \o Tail(Tail(s))
    <2> DEFINE checked == Head(caller.rest).check # <<>> /\ v = Null
    <2>1. caller.rest = w.rest
      BY <1>15
    <2>2. CASE checked
      <3>1. later = "failed"
        <4>1. Head(w.rest).check # <<>> /\ v = Null
          BY <2>1, <2>2
        <4>2. GivesBack(Head(w.rest).fn) # "plain"
          BY <1>15, <4>1, ResumedPoint
        <4>3. callee.point.gives = "node"
          BY <1>16, <4>2 DEF GivesBack
        <4>4. later # "failed" => IsOne(Len(N), v)
          BY <1>1, <1>2, <4>3 DEF Answers
        <4>5. ~IsOne(Len(N), v)
          BY <1>4, <4>1, OneInSeq
        <4> QED
          BY <4>4, <4>5
      <3>2. PICK q : q = Checked(w)
        OBVIOUS
      <3>3. /\ q \in Table /\ q.waits = FALSE /\ q.mode = later /\ q.gives = w.gives
            /\ q.rest = Head(w.rest).check \o Tail(w.rest) /\ q.shapes = w.shapes
        <4>1. q = Point(w.mode, FALSE, Head(w.rest).check \o Tail(w.rest), w.shapes, w.gives) /\ q \in Table
          BY <1>15, <2>1, <2>2, <3>1, <3>2, ResumedPoint
        <4> QED
          BY <1>15, <4>1 DEF Point
      <3>4. PICK f : f = [rest |-> q.rest, held |-> caller.held]
        OBVIOUS
      <3>5. [caller EXCEPT !.rest = Head(caller.rest).check \o Tail(@)] = f
        <4>1. PICK r : r = caller.rest
          OBVIOUS
        <4>2. PICK h : h = caller.held
          OBVIOUS
        <4>3. caller = [rest |-> r, held |-> h]
          BY <1>15, <4>1, <4>2
        <4>4. PICK x : x = Head(r).check \o Tail(r)
          OBVIOUS
        <4>5. [[rest |-> r, held |-> h] EXCEPT !.rest = x] = [rest |-> x, held |-> h]
          OBVIOUS
        <4>6. [caller EXCEPT !.rest = Head(caller.rest).check \o Tail(@)] = [caller EXCEPT !.rest = x]
          BY <4>1, <4>4
        <4> QED
          BY <2>1, <3>3, <3>4, <4>1, <4>2, <4>3, <4>4, <4>5, <4>6
      <3>6. t = <<f>> \o Tail(Tail(s))
        BY <1>13, <2>2, <3>5
      <3>7. FrameFits(N, G, later, f, Place(q, lo, hi))
        <4>1. PICK place : place = Place(q, lo, hi)
          OBVIOUS
        <4>2. place.point = q /\ place.lo = lo /\ place.hi = hi
          BY <4>1 DEF Place
        <4>3. f.held = caller.held /\ f = [rest |-> q.rest, held |-> f.held]
          BY <3>4
        <4> QED
          BY <1>15, <3>3, <4>1, <4>2, <4>3 DEF FrameFits
      <3>8. Place(q, lo, hi).point.waits = FALSE /\ Succeeds(Place(q, lo, hi), under)
        <4>1. PICK top : top = Place(q, lo, hi)
          OBVIOUS
        <4>2. top.point = q /\ top.lo = lo /\ top.hi = hi
          BY <4>1 DEF Place
        <4>3. top.point.waits = FALSE /\ Succeeds(top, under)
          <5>1. top.point.waits = FALSE /\ top.point.gives = under.point.gives
            BY <1>10, <3>3, <4>2
          <5>2. top.lo = under.lo /\ top.hi = under.hi /\ under.lo \in Nat /\ under.hi \in Nat
            BY <1>11, <1>12, <1>17, <4>2
          <5>3. under.hi <= top.hi
            BY ONLY <5>2
          <5> QED
            BY <5>1, <5>2, <5>3 DEF Succeeds
        <4> QED
          BY <4>1, <4>3
      <3> QED
        BY ONLY <3>6, <3>7, <3>8
    <2>3. CASE ~checked
      <3>1. PICK shape : shape = ResultShape(w)
        OBVIOUS
      <3>2. shape \in Shapes /\ \A i \in 1..Len(w.shapes) : w.shapes[i] # "fresh"
        BY <1>15, <3>1, ResumedPoint
      <3>3. PICK high \in Nat : /\ hi <= high /\ high <= Len(N)
                                /\ HeldFits(N, G, later, caller.held, w.shapes, lo, high)
                                /\ ValueFits(N, G, later, v, shape, lo, high)
        <4>1. CASE shape = "plain"
          <5>1. ValueFits(N, G, later, v, shape, lo, hi)
            BY <4>1 DEF ValueFits, HasShape, ListShapes
          <5> QED
            BY <1>15, <1>17, <5>1
        <4>2. CASE shape # "plain"
          <5>1. GivesBack(Head(w.rest).fn) = "node" /\ callee.point.gives = "node"
            BY <1>16, <3>1, <4>2 DEF ResultShape, GivesBack
          <5>2. /\ v = Null \/ IsOne(Len(N), v)
                /\ later # "failed" => IsOne(Len(N), v) /\ Owned(N, G, v, callee.lo, Len(N))
            BY <1>1, <1>2, <5>1 DEF Answers
          <5>3. CASE later = "failed"
            <6>1. shape = "maybe"
              BY <1>15, <3>1, <5>1, <5>3 DEF ResultShape
            <6>2. ValueFits(N, G, later, v, shape, lo, hi)
              BY <5>2, <5>3, <6>1 DEF ValueFits, HasShape
            <6> QED
              BY <1>15, <1>17, <6>2
          <5>4. CASE later # "failed"
            <6>1. IsOne(Len(N), v) /\ Owned(N, G, v, callee.lo, Len(N))
              BY <5>2, <5>4
            <6>2. \A x \in Nat : x <= callee.lo => Owned(N, G, v, x, Len(N))
              <7>1. ASSUME NEW x \in Nat, x <= callee.lo PROVE Owned(N, G, v, x, Len(N))
                <8>1. PICK y \in Nat : y = callee.lo
                  BY <1>4
                <8>2. Extends(N, N) /\ G \cap ({1} \cup ((y + 1)..Len(N))) \subseteq G /\ x <= y /\ Len(N) <= Len(N)
                  BY <1>4, <7>1, <8>1 DEF Extends
                <8>3. Best(N, G, y, Len(N)) \subseteq Best(N, G, x, Len(N))
                  BY <1>4, <8>2, BestGrows
                <8> QED
                  BY <6>1, <8>1, <8>3 DEF Owned
              <7> QED
                BY <7>1
            <6>3. CASE Head(w.rest).args = 0
              <7>1. shape = "fresh"
                BY <1>15, <3>1, <5>1, <5>4, <6>3 DEF ResultShape
              <7>2. Owned(N, G, v, hi, Len(N))
                BY <1>16, <1>17, <6>2, <6>3
              <7>3. ValueFits(N, G, later, v, shape, lo, hi)
                BY <6>1, <7>1, <7>2 DEF ValueFits, HasShape
              <7> QED
                BY <1>15, <1>17, <7>3
            <6>4. CASE Head(w.rest).args # 0
              <7>1. shape = "some"
                BY <1>15, <3>1, <5>1, <5>4, <6>4 DEF ResultShape
              <7>2. Owned(N, G, v, lo, Len(N))
                BY <1>16, <1>17, <6>2
              <7>3. ValueFits(N, G, later, v, shape, lo, Len(N))
                BY <6>1, <7>1, <7>2 DEF ValueFits, HasShape
              <7>4. HeldFits(N, G, later, caller.held, w.shapes, lo, Len(N))
                BY <1>15, <3>2, HeldRaises
              <7> QED
                BY <1>4, <1>17, <7>3, <7>4
            <6> QED
              BY <6>3, <6>4
          <5> QED
            BY <5>3, <5>4
        <4> QED
          BY <4>1, <4>2
      <3>4. PICK held : held = Append(caller.held, v)
        OBVIOUS
      <3>5. PICK shapes : shapes = Append(w.shapes, shape)
        OBVIOUS
      <3>6. HeldFits(N, G, later, held, shapes, lo, high)
        BY <3>2, <3>3, <3>4, <3>5, HeldAppend
      <3>7. PICK q : q = Resumed(w)
        OBVIOUS
      <3>8. /\ q \in Table /\ q.waits = FALSE /\ q.mode = later /\ q.gives = w.gives
            /\ q.rest = Tail(w.rest) /\ q.shapes = shapes
        <4>1. q = Point(w.mode, FALSE, Tail(w.rest), shapes, w.gives) /\ q \in Table
          BY <1>15, <3>1, <3>5, <3>7, ResumedPoint
        <4> QED
          BY <1>15, <4>1 DEF Point
      <3>9. PICK f : f = [rest |-> q.rest, held |-> held]
        OBVIOUS
      <3>10. t = <<f>> \o Tail(Tail(s))
        BY <1>13, <2>1, <2>3, <3>4, <3>8, <3>9
      <3>11. FrameFits(N, G, later, f, Place(q, lo, high))
        <4>1. PICK place : place = Place(q, lo, high)
          OBVIOUS
        <4>2. place.point = q /\ place.lo = lo /\ place.hi = high
          BY <4>1 DEF Place
        <4>3. f.held = held /\ f = [rest |-> q.rest, held |-> f.held]
          BY <3>9
        <4>4. Bounds(N, lo, high)
          BY <1>4, <1>17, <3>3 DEF Bounds
        <4> QED
          BY <3>6, <3>8, <4>1, <4>2, <4>3, <4>4 DEF FrameFits
      <3>12. Place(q, lo, high).point.waits = FALSE /\ Succeeds(Place(q, lo, high), under)
        <4>1. PICK top : top = Place(q, lo, high)
          OBVIOUS
        <4>2. top.point = q /\ top.lo = lo /\ top.hi = high
          BY <4>1 DEF Place
        <4>3. top.point.waits = FALSE /\ Succeeds(top, under)
          BY <1>10, <1>11, <1>12, <1>17, <3>3, <3>8, <4>2 DEF Succeeds
        <4> QED
          BY <4>1, <4>3
      <3> QED
        BY ONLY <3>10, <3>11, <3>12
    <2> QED
      BY <2>2, <2>3
  <1>19. k = Len(s) - 1
    BY <1>1, <1>3
  <1>20. /\ FrameFits(N, G, later, f, top) /\ t = <<f>> \o Tail(Tail(s)) /\ top.point.waits = FALSE
         /\ Below(s, N, G, later, mid, Len(s) - 1) /\ Succeeds(top, mid[Len(s) - 1])
         /\ mid[1].point.gives = "node" /\ Len(N) \in Nat /\ IsSeq(s) /\ Len(s) > 1 /\ later \in Modes
    BY <1>4, <1>7, <1>8, <1>18, <1>19
  <1> QED
    BY ONLY CodeFits, <1>20, FromBelow

-----------------------------------------------------------------------------
(***************************************************************************)
(* The instructions, for a call whose place is a point of the table.       *)
(***************************************************************************)
\* What the table says of an instruction: the points it leads to are there,
\* and it finds what it expects.
Led(p, do) ==
    /\ do = "take" => AfterTake(p) \subseteq Table
    /\ do = "take component" => AfterTakeComponent(p) \subseteq Table
    /\ do = "take integer" => AfterTakeInteger(p) \subseteq Table
    /\ do = "put nodes" => AfterPutNodes(p) \subseteq Table
    /\ do = "copy" => AfterCopy(p) \subseteq Table
    /\ do = "move" => AfterMove(p) \subseteq Table
    /\ do = "forget" => AfterForget(p) \subseteq Table
    /\ do = "switch" => AfterSwitch(p) \subseteq Table
    /\ do = "null" => AfterNull(p) \subseteq Table
    /\ do = "loop" => AfterLoop(p) \subseteq Table
    /\ do = "until" => AfterUntil(p) \subseteq Table
    /\ do = "items" => AfterItems(p) \subseteq Table
    /\ do = "call" => AfterCall(p) \subseteq Table
    /\ do = "return" => AfterReturn(p) \subseteq Table
    /\ do = "node" => AfterNode(p) \subseteq Table
    /\ do = "unwrap" => AfterUnwrap(p) \subseteq Table
    /\ do = "destroy" => AfterDestroy(p) \subseteq Table
    /\ do = "complain" => AfterComplain(p) \subseteq Table
    /\ do \in {"take name", "take op", "take macro"} => AfterTakeValue(p) \subseteq Table
    /\ do \in {"put", "put flag"} => AfterPut(p) \subseteq Table
    /\ do \in {"push", "unshift"} => AfterPush(p) \subseteq Table
    /\ do \in {"second", "held"} => AfterTest(p) \subseteq Table
Found(p, do) ==
    /\ do = "take component" => FitsTakeComponent(p)
    /\ do = "take macro" => p.mode \in {"read", "failed"}
    /\ do = "move" => FitsMove(p)
    /\ do = "null" => FitsNull(p)
    /\ do = "put nodes" => FitsPutNodes(p)
    /\ do = "call" => FitsCall(p)
    /\ do = "return" => FitsReturn(p)
    /\ do = "node" => FitsNode(p)
    /\ do = "quit" => FitsQuit(p)
    /\ do = "answer" => FitsAnswer(p)
    /\ do = "unwrap" => FitsUnwrap(p)
    /\ do = "destroy" => FitsDestroy(p)
    /\ do = "fail" => FitsFail(p)
    /\ do = "give up" => FitsGiveUp(p)
    /\ do = "complain" => FitsComplain(p)
    /\ do \in {"push", "unshift"} => FitsPush(p)
    /\ do \in {"copy", "forget", "held"} => FitsForget(p)
    /\ do \notin {"take", "forget"} => \A i \in DOMAIN p.shapes : p.shapes[i] # "dead"

LEMMA Instruction ==
    ASSUME CodeFits, NEW p \in Table, p.waits = FALSE
    PROVE  /\ p.rest # <<>> /\ p.mode \in Modes /\ p.shapes \in Seq(Shapes)
           /\ Led(p, Head(p.rest).do) /\ Found(p, Head(p.rest).do)
  <1> DEFINE do == Head(p.rest).do
  <1>1. Fits(p) /\ PointsAfter(p) \subseteq Table
    BY DEF CodeFits
  <1>2. p.waits = FALSE
    OBVIOUS
  <1> HIDE DEF do
  <1>3. do = "take" => AfterTake(p) \subseteq Table
    BY <1>1, <1>2 DEF PointsAfter, do
  <1>4. do = "take component" => AfterTakeComponent(p) \subseteq Table
    BY <1>1, <1>2 DEF PointsAfter, do
  <1>5. do = "take integer" => AfterTakeInteger(p) \subseteq Table
    BY <1>1, <1>2 DEF PointsAfter, do
  <1>6. do = "put nodes" => AfterPutNodes(p) \subseteq Table
    BY <1>1, <1>2 DEF PointsAfter, do
  <1>7. do = "copy" => AfterCopy(p) \subseteq Table
    BY <1>1, <1>2 DEF PointsAfter, do
  <1>8. do = "move" => AfterMove(p) \subseteq Table
    BY <1>1, <1>2 DEF PointsAfter, do
  <1>9. do = "forget" => AfterForget(p) \subseteq Table
    BY <1>1, <1>2 DEF PointsAfter, do
  <1>10. do = "switch" => AfterSwitch(p) \subseteq Table
    BY <1>1, <1>2 DEF PointsAfter, do
  <1>11. do = "null" => AfterNull(p) \subseteq Table
    BY <1>1, <1>2 DEF PointsAfter, do
  <1>12. do = "loop" => AfterLoop(p) \subseteq Table
    BY <1>1, <1>2 DEF PointsAfter, do
  <1>13. do = "until" => AfterUntil(p) \subseteq Table
    BY <1>1, <1>2 DEF PointsAfter, do
  <1>14. do = "items" => AfterItems(p) \subseteq Table
    BY <1>1, <1>2 DEF PointsAfter, do
  <1>15. do = "call" => AfterCall(p) \subseteq Table
    BY <1>1, <1>2 DEF PointsAfter, do
  <1>16. do = "return" => AfterReturn(p) \subseteq Table
    BY <1>1, <1>2 DEF PointsAfter, do
  <1>17. do = "node" => AfterNode(p) \subseteq Table
    BY <1>1, <1>2 DEF PointsAfter, do
  <1>18. do = "unwrap" => AfterUnwrap(p) \subseteq Table
    BY <1>1, <1>2 DEF PointsAfter, do
  <1>19. do = "destroy" => AfterDestroy(p) \subseteq Table
    BY <1>1, <1>2 DEF PointsAfter, do
  <1>20. do = "complain" => AfterComplain(p) \subseteq Table
    BY <1>1, <1>2 DEF PointsAfter, do
  <1>21. do \in {"take name", "take op", "take macro"} => AfterTakeValue(p) \subseteq Table
    BY <1>1, <1>2 DEF PointsAfter, do
  <1>22. do \in {"put", "put flag"} => AfterPut(p) \subseteq Table
    BY <1>1, <1>2 DEF PointsAfter, do
  <1>23. do \in {"push", "unshift"} => AfterPush(p) \subseteq Table
    BY <1>1, <1>2 DEF PointsAfter, do
  <1>24. do \in {"second", "held"} => AfterTest(p) \subseteq Table
    BY <1>1, <1>2 DEF PointsAfter, do
  <1>25. p.rest # <<>> /\ p.mode \in Modes /\ p.shapes \in Seq(Shapes) /\ Found(p, do)
    BY <1>1, <1>2 DEF Fits, Found, do
  <1>26. Led(p, do)
    BY <1>3, <1>4, <1>5, <1>6, <1>7, <1>8, <1>9, <1>10, <1>11, <1>12, <1>13, <1>14, <1>15, <1>16, <1>17, <1>18, <1>19, <1>20, <1>21, <1>22, <1>23, <1>24 DEF Led
  <1> QED
    BY <1>25, <1>26 DEF do


Ready(N, F, mode, p, held, lo, hi) ==
    /\ p \in Table /\ p.waits = FALSE /\ p.mode = mode /\ mode \in Modes
    /\ Bounds(N, lo, hi) /\ HeldFits(N, F, mode, held, p.shapes, lo, hi)

Steps(N, F, mode, p, lo, hi, rest, held) ==
    \E q \in Table, high \in Nat :
       /\ q.waits = FALSE /\ q.gives = p.gives /\ q.mode = mode /\ q.rest = rest
       /\ hi <= high /\ high <= Len(N) /\ HeldFits(N, F, mode, held, q.shapes, lo, high)

LEMMA StackSteps ==
    ASSUME CodeFits, NEW s, NEW N, NEW F, NEW mode, NEW places, StackFits(s, N, F, mode, places),
           NEW M, NEW G, NEW later \in Modes, Changes(N, F, mode, M, G, later, places[Len(s)].hi),
           NEW rest, NEW held,
           Steps(M, G, later, places[Len(s)].point, places[Len(s)].lo, places[Len(s)].hi, rest, held),
           NEW t, t = <<[rest |-> rest, held |-> held]>> \o Tail(s)
    PROVE  \E new : StackFits(t, M, G, later, new)
  <1>1. PICK q \in Table, high \in Nat :
           /\ q.waits = FALSE /\ q.gives = places[Len(s)].point.gives /\ q.mode = later /\ q.rest = rest
           /\ places[Len(s)].hi <= high /\ high <= Len(M)
           /\ HeldFits(M, G, later, held, q.shapes, places[Len(s)].lo, high)
    BY DEF Steps
  <1>2. Continues(M, G, later, places[Len(s)], q, held, high)
    BY <1>1 DEF Continues
  <1>3. t = <<[rest |-> q.rest, held |-> held]>> \o Tail(s)
    BY <1>1
  <1> QED
    BY <1>2, <1>3, InPlace

\* The call that is in progress.
LEMMA ReadyTop ==
    ASSUME NEW s, NEW N, NEW F, NEW mode, NEW places, StackFits(s, N, F, mode, places)
    PROVE  /\ Ready(N, F, mode, places[Len(s)].point, Head(s).held, places[Len(s)].lo, places[Len(s)].hi)
           /\ Head(s).rest = places[Len(s)].point.rest
  <1>1. TopIs(s, N, F, mode, places, Len(s), places[Len(s)].point, places[Len(s)].lo, places[Len(s)].hi)
    BY TopFits
  <1>2. PICK r : r = places[Len(s)].point.rest
    OBVIOUS
  <1>3. PICK h : h = Head(s).held
    OBVIOUS
  <1>4. Head(s) = [rest |-> r, held |-> h]
    BY <1>1, <1>2, <1>3 DEF TopIs
  <1>5. Head(s).rest = r
    BY <1>4
  <1> QED
    BY <1>1, <1>2, <1>5 DEF TopIs, Ready

-----------------------------------------------------------------------------
\* What is held does not depend on whether the first token was read.
LEMMA HeldReads ==
    ASSUME NEW N, NEW F, NEW mode, NEW held, NEW shapes, NEW lo, NEW hi,
           HeldFits(N, F, mode, held, shapes, lo, hi)
    PROVE  /\ HeldFits(N, F, Reading(mode), held, shapes, lo, hi)
           /\ mode \in Modes => Raised(mode, Reading(mode)) /\ Reading(mode) \in Modes
  <1>1. Reading(mode) # "failed" => mode # "failed"
    BY DEF Reading
  <1>2. \A v, shape : ValueFits(N, F, mode, v, shape, lo, hi) => ValueFits(N, F, Reading(mode), v, shape, lo, hi)
    BY <1>1 DEF ValueFits
  <1>3. HeldFits(N, F, Reading(mode), held, shapes, lo, hi)
    BY <1>2 DEF HeldFits
  <1> QED
    BY <1>3 DEF Raised, Reading, Modes

\* Something plain is held.
LEMMA PlainFits ==
    ASSUME NEW N, NEW F, NEW mode, NEW v, NEW lo, NEW hi
    PROVE  ValueFits(N, F, mode, v, "plain", lo, hi) /\ "plain" \in Shapes
  BY DEF ValueFits, HasShape, ListShapes, Shapes

\* To go on with a new value behind what is held, which settles.
LEMMA HoldsValue ==
    ASSUME NEW N, NEW F, NEW mode, NEW p, NEW held, NEW lo, NEW hi, Ready(N, F, mode, p, held, lo, hi),
           NEW shape \in Shapes, NEW v, ValueFits(N, F, mode, v, shape, lo, Len(N))
    PROVE  /\ Holds(p, shape) \in Table =>
                 Steps(N, F, mode, p, lo, hi, Tail(p.rest), Append(held, v))
           /\ HasRead(Holds(p, shape)) \in Table =>
                 Steps(N, F, Reading(mode), p, lo, hi, Tail(p.rest), Append(held, v))
  <1>1. Bounds(N, lo, hi) /\ HeldFits(N, F, mode, held, p.shapes, lo, hi) /\ p.mode = mode
    BY DEF Ready
  <1>2. PICK t : t = Settled(p.shapes)
    OBVIOUS
  <1>3. HeldFits(N, F, mode, held, t, lo, Len(N))
    BY <1>1, <1>2, Settles
  <1>4. PICK u : u = Append(t, shape)
    OBVIOUS
  <1>5. PICK h : h = Append(held, v)
    OBVIOUS
  <1>6. HeldFits(N, F, mode, h, u, lo, Len(N))
    BY <1>3, <1>4, <1>5, HeldAppend
  <1>7. HeldFits(N, F, Reading(mode), h, u, lo, Len(N))
    BY <1>6, HeldReads
  <1>8. Len(N) \in Nat /\ hi <= Len(N) /\ Len(N) <= Len(N)
    BY <1>1 DEF Bounds
  <1>9. PICK q : q = Holds(p, shape)
    OBVIOUS
  <1>10. q.waits = FALSE /\ q.gives = p.gives /\ q.mode = mode /\ q.rest = Tail(p.rest) /\ q.shapes = u
    BY <1>1, <1>2, <1>4, <1>9 DEF Holds, Past, Goes, Point
  <1>11. PICK r : r = HasRead(q)
    OBVIOUS
  <1>12. r.waits = FALSE /\ r.gives = p.gives /\ r.mode = Reading(mode) /\ r.rest = Tail(p.rest) /\ r.shapes = u
    BY <1>10, <1>11 DEF HasRead, InMode, Point
  <1>13. q \in Table => Steps(N, F, mode, p, lo, hi, Tail(p.rest), h)
    BY <1>6, <1>8, <1>10 DEF Steps
  <1>14. r \in Table => Steps(N, F, Reading(mode), p, lo, hi, Tail(p.rest), h)
    BY <1>7, <1>8, <1>12 DEF Steps
  <1> QED
    BY <1>5, <1>9, <1>11, <1>13, <1>14

\* To go on with other values, none of them fresh.
LEMMA GoesSteps ==
    ASSUME NEW N, NEW F, NEW mode, NEW p, NEW held, NEW lo, NEW hi, Ready(N, F, mode, p, held, lo, hi),
           NEW rest, NEW h, NEW u, HeldFits(N, F, mode, h, u, lo, Len(N))
    PROVE  /\ Goes(p, rest, u) \in Table => Steps(N, F, mode, p, lo, hi, rest, h)
           /\ HasRead(Goes(p, rest, u)) \in Table => Steps(N, F, Reading(mode), p, lo, hi, rest, h)
           /\ InMode("failed", Goes(p, rest, u)) \in Table => Steps(N, F, "failed", p, lo, hi, rest, h)
  <1>1. Bounds(N, lo, hi) /\ p.mode = mode
    BY DEF Ready
  <1>2. HeldFits(N, F, Reading(mode), h, u, lo, Len(N))
    BY HeldReads
  <1>3. HeldFits(N, F, "failed", h, u, lo, Len(N))
    <2>1. \A v, shape : ValueFits(N, F, mode, v, shape, lo, Len(N)) => ValueFits(N, F, "failed", v, shape, lo, Len(N))
      BY DEF ValueFits
    <2> QED
      BY <2>1 DEF HeldFits
  <1>4. Len(N) \in Nat /\ hi <= Len(N) /\ Len(N) <= Len(N)
    BY <1>1 DEF Bounds
  <1>5. PICK q : q = Goes(p, rest, u)
    OBVIOUS
  <1>6. q.waits = FALSE /\ q.gives = p.gives /\ q.mode = mode /\ q.rest = rest /\ q.shapes = u
    BY <1>1, <1>5 DEF Goes, Point
  <1>7. PICK r : r = HasRead(q)
    OBVIOUS
  <1>8. r.waits = FALSE /\ r.gives = p.gives /\ r.mode = Reading(mode) /\ r.rest = rest /\ r.shapes = u
    BY <1>6, <1>7 DEF HasRead, InMode, Point
  <1>9. PICK x : x = InMode("failed", q)
    OBVIOUS
  <1>10. x.waits = FALSE /\ x.gives = p.gives /\ x.mode = "failed" /\ x.rest = rest /\ x.shapes = u
    BY <1>6, <1>9 DEF InMode, Point
  <1>11. q \in Table => Steps(N, F, mode, p, lo, hi, rest, h)
    BY <1>4, <1>6 DEF Steps
  <1>12. r \in Table => Steps(N, F, Reading(mode), p, lo, hi, rest, h)
    BY <1>2, <1>4, <1>8 DEF Steps
  <1>13. x \in Table => Steps(N, F, "failed", p, lo, hi, rest, h)
    BY <1>3, <1>4, <1>10 DEF Steps
  <1> QED
    BY <1>5, <1>7, <1>9, <1>11, <1>12, <1>13

\* To go on with the same values.
LEMMA StaysSteps ==
    ASSUME NEW N, NEW F, NEW mode, NEW p, NEW held, NEW lo, NEW hi, Ready(N, F, mode, p, held, lo, hi), NEW rest
    PROVE  /\ Goes(p, rest, p.shapes) \in Table => Steps(N, F, mode, p, lo, hi, rest, held)
           /\ HasRead(Goes(p, rest, p.shapes)) \in Table => Steps(N, F, Reading(mode), p, lo, hi, rest, held)
  <1>1. Bounds(N, lo, hi) /\ p.mode = mode /\ HeldFits(N, F, mode, held, p.shapes, lo, hi)
    BY DEF Ready
  <1>2. HeldFits(N, F, Reading(mode), held, p.shapes, lo, hi)
    BY <1>1, HeldReads
  <1>3. hi \in Nat /\ hi <= Len(N) /\ hi <= hi
    BY <1>1 DEF Bounds
  <1>4. PICK q : q = Goes(p, rest, p.shapes)
    OBVIOUS
  <1>5. q.waits = FALSE /\ q.gives = p.gives /\ q.mode = mode /\ q.rest = rest /\ q.shapes = p.shapes
    BY <1>1, <1>4 DEF Goes, Point
  <1>6. PICK r : r = HasRead(q)
    OBVIOUS
  <1>7. r.waits = FALSE /\ r.gives = p.gives /\ r.mode = Reading(mode) /\ r.rest = rest /\ r.shapes = p.shapes
    BY <1>5, <1>6 DEF HasRead, InMode, Point
  <1>8. q \in Table => Steps(N, F, mode, p, lo, hi, rest, held)
    BY <1>1, <1>3, <1>5 DEF Steps
  <1>9. r \in Table => Steps(N, F, Reading(mode), p, lo, hi, rest, held)
    BY <1>2, <1>3, <1>7 DEF Steps
  <1> QED
    BY <1>4, <1>6, <1>8, <1>9

\* What every instruction begins with.
Begun(N, F, mode, p, held, lo, hi) ==
    /\ p \in Table /\ p.waits = FALSE /\ p.mode = mode /\ mode \in Modes /\ p.rest # <<>>
    /\ Bounds(N, lo, hi) /\ HeldFits(N, F, mode, held, p.shapes, lo, hi)
    /\ Led(p, Head(p.rest).do) /\ Found(p, Head(p.rest).do)
    /\ HeldFits(N, F, mode, held, Settled(p.shapes), lo, Len(N))
    /\ Len(Settled(p.shapes)) = Len(p.shapes) /\ Len(held) = Len(p.shapes) /\ Len(p.shapes) \in Nat
    /\ p.shapes # <<>> => Len(p.shapes) > 0
    /\ \A i \in 1..Len(p.shapes) : /\ p.shapes[i] \in Shapes
                                   /\ Settled(p.shapes)[i] = IF p.shapes[i] = "fresh" THEN "some" ELSE p.shapes[i]

LEMMA Begins ==
    ASSUME CodeFits, NEW N, NEW F, NEW mode, NEW p, NEW held, NEW lo, NEW hi, Ready(N, F, mode, p, held, lo, hi)
    PROVE  Begun(N, F, mode, p, held, lo, hi)
  <1>1. /\ p \in Table /\ p.waits = FALSE /\ p.mode = mode /\ mode \in Modes
        /\ Bounds(N, lo, hi) /\ HeldFits(N, F, mode, held, p.shapes, lo, hi)
    BY DEF Ready
  <1>2. p.rest # <<>> /\ Led(p, Head(p.rest).do) /\ Found(p, Head(p.rest).do) /\ p.shapes \in Seq(Shapes)
    BY <1>1, Instruction
  <1>3. /\ HeldFits(N, F, mode, held, Settled(p.shapes), lo, Len(N))
        /\ Len(Settled(p.shapes)) = Len(p.shapes) /\ Len(held) = Len(p.shapes) /\ Len(p.shapes) \in Nat
        /\ \A i \in 1..Len(p.shapes) : Settled(p.shapes)[i] = IF p.shapes[i] = "fresh" THEN "some" ELSE p.shapes[i]
    BY <1>1, Settles
  <1>4. p.shapes # <<>> => Len(p.shapes) > 0
    BY <1>2, <1>3, EmptySeq
  <1>5. \A i \in 1..Len(p.shapes) : p.shapes[i] \in Shapes
    BY <1>2, ElementOfSeq
  <1> QED
    BY <1>1, <1>2, <1>3, <1>4, <1>5 DEF Begun

LEMMA StepTake ==
    ASSUME CodeFits, NEW N, NEW F, NEW mode, NEW p, NEW held, NEW lo, NEW hi, Ready(N, F, mode, p, held, lo, hi),
           Head(p.rest).do = "take"
    PROVE  Steps(N, F, Reading(mode), p, lo, hi, Tail(p.rest), held)
  <1>1. AfterTake(p) \subseteq Table
    BY Begins DEF Led, Begun
  <1>2. HasRead(Goes(p, Tail(p.rest), p.shapes)) \in Table
    BY <1>1 DEF AfterTake, Past
  <1> QED
    BY <1>2, StaysSteps

LEMMA StepValue ==
    ASSUME CodeFits, NEW N, NEW F, NEW mode, NEW p, NEW held, NEW lo, NEW hi, Ready(N, F, mode, p, held, lo, hi), NEW v
    PROVE  /\ Head(p.rest).do \in {"take name", "take op", "take macro"} =>
                 Steps(N, F, Reading(mode), p, lo, hi, Tail(p.rest), Append(held, v))
           /\ Head(p.rest).do \in {"put", "put flag"} =>
                 Steps(N, F, mode, p, lo, hi, Tail(p.rest), Append(held, v))
  <1>1. ValueFits(N, F, mode, v, "plain", lo, Len(N)) /\ "plain" \in Shapes
    BY PlainFits
  <1>2. Led(p, Head(p.rest).do)
    BY Begins DEF Begun
  <1>3. Head(p.rest).do \in {"take name", "take op", "take macro"} => HasRead(Holds(p, "plain")) \in Table
    BY <1>2 DEF Led, AfterTakeValue
  <1>4. Head(p.rest).do \in {"put", "put flag"} => Holds(p, "plain") \in Table
    BY <1>2 DEF Led, AfterPut
  <1> QED
    BY <1>1, <1>3, <1>4, HoldsValue

LEMMA StepComponent ==
    ASSUME CodeFits, NEW N, NEW F, NEW mode, NEW p, NEW held, NEW lo, NEW hi, Ready(N, F, mode, p, held, lo, hi),
           Head(p.rest).do = "take component", NEW v
    PROVE  Steps(N, F, Reading(mode), p, lo, hi, Tail(p.rest), Append(SubSeq(held, 1, Len(held) - 1), v))
  <1>1. /\ Led(p, "take component") /\ Found(p, "take component") /\ HeldFits(N, F, mode, held, Settled(p.shapes), lo, Len(N))
        /\ Len(Settled(p.shapes)) = Len(p.shapes) /\ Len(p.shapes) \in Nat /\ (p.shapes # <<>> => Len(p.shapes) > 0)
    <2>1. /\ Led(p, Head(p.rest).do) /\ Found(p, Head(p.rest).do) /\ HeldFits(N, F, mode, held, Settled(p.shapes), lo, Len(N))
          /\ Len(Settled(p.shapes)) = Len(p.shapes) /\ Len(p.shapes) \in Nat /\ (p.shapes # <<>> => Len(p.shapes) > 0)
      <3>1. Begun(N, F, mode, p, held, lo, hi)
        BY Begins
      <3> QED
        BY ONLY <3>1 DEF Begun
    <2> QED
      BY <2>1
  <1>2. p.shapes # <<>>
    BY <1>1 DEF Found, FitsTakeComponent
  <1>3. PICK u : u = FirstShapes(p, 1)
    OBVIOUS
  <1>4. PICK h : h = SubSeq(held, 1, Len(held) - 1)
    OBVIOUS
  <1>5. HeldFits(N, F, mode, h, u, lo, Len(N))
    <2>1. PICK t : t = Settled(p.shapes)
      OBVIOUS
    <2>2. 1 \in 0..Len(t)
      <3>1. PICK n \in Nat : n = Len(p.shapes)
        BY <1>1
      <3>2. n > 0
        BY <1>1, <1>2, <3>1
      <3>3. 1 \in 0..n
        BY ONLY <3>1, <3>2
      <3> QED
        BY <1>1, <2>1, <3>1, <3>3
    <2>3. HeldFits(N, F, mode, h, SubSeq(t, 1, Len(t) - 1), lo, Len(N))
      BY <1>1, <1>4, <2>1, <2>2, HeldFirst
    <2> QED
      BY <1>1, <1>3, <2>1, <2>3 DEF FirstShapes
  <1>6. PICK x : x = Append(u, "plain")
    OBVIOUS
  <1>7. PICK y : y = Append(h, v)
    OBVIOUS
  <1>8. HeldFits(N, F, mode, y, x, lo, Len(N))
    BY <1>5, <1>6, <1>7, PlainFits, HeldAppend
  <1>9. HasRead(Goes(p, Tail(p.rest), x)) \in Table
    BY <1>1, <1>3, <1>6 DEF Led, AfterTakeComponent, Past
  <1>10. Steps(N, F, Reading(mode), p, lo, hi, Tail(p.rest), y)
    BY <1>8, <1>9, GoesSteps
  <1> QED
    BY <1>4, <1>7, <1>10

LEMMA StepInteger ==
    ASSUME CodeFits, NEW N, NEW F, NEW mode, NEW p, NEW held, NEW lo, NEW hi, Ready(N, F, mode, p, held, lo, hi),
           Head(p.rest).do = "take integer", NEW v
    PROVE  /\ Steps(N, F, Reading(mode), p, lo, hi, Tail(p.rest), Append(held, v))
           /\ Steps(N, F, Reading(mode), p, lo, hi, Error({}), held)
  <1>1. Led(p, "take integer") /\ HeldFits(N, F, mode, held, Settled(p.shapes), lo, Len(N))
    <2>1. Led(p, Head(p.rest).do) /\ HeldFits(N, F, mode, held, Settled(p.shapes), lo, Len(N))
      BY Begins DEF Begun
    <2> QED
      BY <2>1
  <1>2. HasRead(Holds(p, "plain")) \in Table /\ HasRead(Goes(p, Error({}), Settled(p.shapes))) \in Table
    BY <1>1 DEF Led, AfterTakeInteger
  <1>3. ValueFits(N, F, mode, v, "plain", lo, Len(N)) /\ "plain" \in Shapes
    BY PlainFits
  <1>4. Steps(N, F, Reading(mode), p, lo, hi, Tail(p.rest), Append(held, v))
    BY <1>2, <1>3, HoldsValue
  <1>5. Steps(N, F, Reading(mode), p, lo, hi, Error({}), held)
    BY <1>1, <1>2, GoesSteps
  <1> QED
    BY <1>4, <1>5

\* The empty statement is never destroyed.
LEMMA EmptyIsOwned ==
    ASSUME NEW N, NodesFit(N), NEW F, F \subseteq 2..Len(N), NEW lo, NEW hi
    PROVE  1 \in Best(N, F, lo, hi) /\ Owned(N, F, Empty, lo, hi) /\ IsOne(Len(N), Empty)
  <1>1. 1 \in Best(N, F, lo, hi)
    <2>1. 1 \in 1..Len(N) /\ 1 \notin F
      BY DEF NodesFit
    <2>2. N[1].t = "empty" /\ DOMAIN N[1] = {"t"}
      BY DEF NodesFit
    <2>3. Required("empty") = {} /\ {"t"} \ Plain = {}
      BY DEF Required, Plain
    <2>4. Whole(N, F, {1})
      BY <2>1, <2>2, <2>3 DEF Whole
    <2> QED
      BY <2>4, BestHolds
  <1>2. ToSet(Empty) = {1}
    BY Single DEF Empty
  <1>3. IsOne(Len(N), Empty)
    BY DEF NodesFit, IsOne, Empty
  <1> QED
    BY <1>1, <1>2, <1>3 DEF Owned

LEMMA StepNodes ==
    ASSUME CodeFits, NEW N, NEW F, NEW mode, NEW p, NEW held, NEW lo, NEW hi, Ready(N, F, mode, p, held, lo, hi),
           NodesFit(N), F \subseteq 2..Len(N), Head(p.rest).do = "put nodes"
    PROVE  Steps(N, F, mode, p, lo, hi, Tail(p.rest), Append(held, Head(p.rest).list))
  <1>1. Led(p, "put nodes") /\ Found(p, "put nodes")
    <2>1. Led(p, Head(p.rest).do) /\ Found(p, Head(p.rest).do)
      BY Begins DEF Begun
    <2> QED
      BY <2>1
  <1>2. PICK v : v = Head(p.rest).list
    OBVIOUS
  <1>3. PICK shape : shape = IF v = Null THEN "null" ELSE "some"
    OBVIOUS
  <1>4. v \in {Null, Empty} /\ Holds(p, shape) \in Table
    BY <1>1, <1>2, <1>3 DEF Found, FitsPutNodes, Led, AfterPutNodes
  <1>5. shape \in Shapes /\ ValueFits(N, F, mode, v, shape, lo, Len(N))
    <2>1. CASE v = Null
      <3>1. Owned(N, F, v, lo, Len(N))
        <4>1. ToSet(Null) = {}
          BY OneInSeq
        <4> QED
          BY <2>1, <4>1 DEF Owned
      <3> QED
        BY <1>3, <2>1, <3>1 DEF ValueFits, HasShape, Shapes
    <2>2. CASE v # Null
      <3>1. IsOne(Len(N), v) /\ Owned(N, F, v, lo, Len(N))
        BY <1>4, <2>2, EmptyIsOwned
      <3> QED
        BY <1>3, <2>2, <3>1 DEF ValueFits, HasShape, Shapes
    <2> QED
      BY <2>1, <2>2
  <1>6. Steps(N, F, mode, p, lo, hi, Tail(p.rest), Append(held, v))
    BY <1>4, <1>5, HoldsValue
  <1> QED
    BY <1>2, <1>6

\* Something is held behind other things.
Two(N, F, mode, p, held, lo, i) ==
    /\ i \in 1..Len(p.shapes) /\ Len(p.shapes) \in 1..Len(p.shapes) /\ 1 \in 0..Len(p.shapes)
    /\ HeldFits(N, F, mode, SubSeq(held, 1, Len(held) - 1), FirstShapes(p, 1), lo, Len(N))
    /\ Len(FirstShapes(p, 1)) = Len(p.shapes) - 1
    /\ SubSeq(held, 1, Len(held) - 1)[i] = held[i] /\ Last(held) = held[Len(p.shapes)]
    /\ ValueFits(N, F, mode, held[i], Settled(p.shapes)[i], lo, Len(N))
    /\ ValueFits(N, F, mode, Last(held), Settled(p.shapes)[Len(p.shapes)], lo, Len(N))

LEMMA HeldTwo ==
    ASSUME NEW N, NEW F, NEW mode, NEW p, NEW held, NEW lo, NEW hi, Begun(N, F, mode, p, held, lo, hi),
           NEW i, i \in 1..(Len(p.shapes) - 1)
    PROVE  Two(N, F, mode, p, held, lo, i)
  <1>1. PICK t : t = Settled(p.shapes)
    OBVIOUS
  <1>2. PICK n \in Nat : n = Len(p.shapes)
    BY DEF Begun
  <1>3. HeldFits(N, F, mode, held, t, lo, Len(N)) /\ Len(t) = n /\ Len(held) = n
    BY <1>1, <1>2 DEF Begun
  <1>4. i \in 1..n /\ n \in 1..n /\ 1 \in 0..n /\ i \in 1..(n - 1) /\ n - 1 \in 0..n
    BY <1>2
  <1>5. PICK h : h = SubSeq(held, 1, n - 1)
    OBVIOUS
  <1>6. PICK u : u = SubSeq(t, 1, n - 1)
    OBVIOUS
  <1>7. HeldFits(N, F, mode, h, u, lo, Len(N))
    <2>1. HeldFits(N, F, mode, SubSeq(held, 1, Len(held) - 1), SubSeq(t, 1, Len(t) - 1), lo, Len(N))
      BY <1>3, <1>4, HeldFirst
    <2> QED
      BY <1>3, <1>5, <1>6, <2>1
  <1>8. IsSeq(held) /\ IsSeq(t) /\ \A j \in 1..n : ValueFits(N, F, mode, held[j], t[j], lo, Len(N))
    BY <1>3, HeldIs
  <1>9. h[i] = held[i] /\ Len(u) = n - 1
    BY <1>3, <1>4, <1>5, <1>6, <1>8, Firsts
  <1>10. Last(held) = held[n]
    BY <1>3 DEF Last
  <1>11. u = FirstShapes(p, 1)
    BY <1>1, <1>2, <1>6 DEF FirstShapes
  <1> QED
    BY <1>1, <1>2, <1>3, <1>4, <1>5, <1>7, <1>8, <1>9, <1>10, <1>11 DEF Two

LEMMA StepCopy ==
    ASSUME CodeFits, NEW N, NEW F, NEW mode, NEW p, NEW held, NEW lo, NEW hi, Ready(N, F, mode, p, held, lo, hi),
           Head(p.rest).do = "copy"
    PROVE  Steps(N, F, mode, p, lo, hi, Tail(p.rest), Append(held, held[Head(p.rest).at]))
  <1>0. Begun(N, F, mode, p, held, lo, hi)
    BY Begins
  <1>1. Led(p, "copy") /\ Found(p, "copy")
    BY <1>0 DEF Begun
  <1>2. PICK i : i = Head(p.rest).at
    OBVIOUS
  <1>3. PICK t : t = Settled(p.shapes)
    OBVIOUS
  <1>4. i \in 1..Len(t) /\ HeldFits(N, F, mode, held, t, lo, Len(N)) /\ Len(t) \in Nat
    <2>1. Len(t) = Len(p.shapes) /\ HeldFits(N, F, mode, held, t, lo, Len(N)) /\ Len(p.shapes) \in Nat
      BY <1>0, <1>3 DEF Begun
    <2>2. i \in 1..Len(p.shapes)
      BY <1>1, <1>2 DEF Found, FitsForget
    <2> QED
      BY <2>1, <2>2
  <1>5. t[i] \in Shapes /\ ValueFits(N, F, mode, held[i], t[i], lo, Len(N))
    BY <1>4, HeldIs
  <1>6. Holds(p, t[i]) \in Table
    BY <1>1, <1>2, <1>3 DEF Led, AfterCopy
  <1>7. Steps(N, F, mode, p, lo, hi, Tail(p.rest), Append(held, held[i]))
    BY <1>5, <1>6, HoldsValue
  <1> QED
    BY <1>2, <1>7

LEMMA StepMove ==
    ASSUME CodeFits, NEW N, NEW F, NEW mode, NEW p, NEW held, NEW lo, NEW hi, Ready(N, F, mode, p, held, lo, hi),
           Head(p.rest).do = "move"
    PROVE  Steps(N, F, mode, p, lo, hi, Tail(p.rest),
                 [SubSeq(held, 1, Len(held) - 1) EXCEPT ![Head(p.rest).at] = Last(held)])
  <1>0. Begun(N, F, mode, p, held, lo, hi)
    BY Begins
  <1>1. Led(p, "move") /\ Found(p, "move")
    BY <1>0 DEF Begun
  <1>2. PICK i : i = Head(p.rest).at
    OBVIOUS
  <1>3. i \in 1..(Len(p.shapes) - 1)
    BY <1>1, <1>2 DEF Found, FitsMove
  <1>4. PICK h : h = SubSeq(held, 1, Len(held) - 1)
    OBVIOUS
  <1>5. PICK u : u = FirstShapes(p, 1)
    OBVIOUS
  <1>6. PICK shape : shape = Settled(p.shapes)[Len(p.shapes)]
    OBVIOUS
  <1>7. PICK v : v = Last(held)
    OBVIOUS
  <1>8. /\ HeldFits(N, F, mode, h, u, lo, Len(N)) /\ Len(u) = Len(p.shapes) - 1
        /\ ValueFits(N, F, mode, v, shape, lo, Len(N)) /\ Len(p.shapes) \in 1..Len(p.shapes)
    <2>1. Two(N, F, mode, p, held, lo, i)
      BY <1>0, <1>3, HeldTwo
    <2> QED
      BY <1>4, <1>5, <1>6, <1>7, <2>1 DEF Two
  <1>9. shape \in Shapes /\ i \in 1..Len(u)
    <2>1. /\ p.shapes[Len(p.shapes)] \in Shapes
          /\ shape = IF p.shapes[Len(p.shapes)] = "fresh" THEN "some" ELSE p.shapes[Len(p.shapes)]
      BY <1>0, <1>6, <1>8 DEF Begun
    <2> QED
      BY <1>3, <1>8, <2>1 DEF Shapes
  <1>10. PICK w : w = [u EXCEPT ![i] = shape]
    OBVIOUS
  <1>11. PICK x : x = [h EXCEPT ![i] = v]
    OBVIOUS
  <1>12. HeldFits(N, F, mode, x, w, lo, Len(N))
    BY <1>8, <1>9, <1>10, <1>11, HeldReplace
  <1>13. Goes(p, Tail(p.rest), w) \in Table
    BY <1>1, <1>2, <1>5, <1>6, <1>10 DEF Led, AfterMove, Past
  <1>14. Steps(N, F, mode, p, lo, hi, Tail(p.rest), x)
    BY <1>12, <1>13, GoesSteps
  <1> QED
    BY <1>2, <1>4, <1>7, <1>11, <1>14

\* Two lists of nodes, one behind the other.
LEMMA JoinedValue ==
    ASSUME NEW N, Len(N) \in Nat, NEW F, NEW mode, NEW lo, NEW hi, NEW a \in Seq(1..Len(N)), NEW b \in Seq(1..Len(N)),
           mode # "failed" => Owned(N, F, a, lo, hi) /\ Owned(N, F, b, lo, hi)
    PROVE  ValueFits(N, F, mode, a \o b, "nodes", lo, hi)
  <1>1. PICK c : c = a \o b
    OBVIOUS
  <1>2. /\ c \in Seq(1..Len(N)) /\ Len(c) = Len(a) + Len(b) /\ Len(a) \in Nat /\ Len(b) \in Nat
        /\ \A i \in 1..(Len(a) + Len(b)) : c[i] = IF i <= Len(a) THEN a[i] ELSE b[i - Len(a)]
    BY <1>1, ConcatProperties, LenProperties
  <1>3. ToSet(c) \subseteq ToSet(a) \cup ToSet(b)
    <2>1. DOMAIN c = 1..Len(c) /\ DOMAIN a = 1..Len(a) /\ DOMAIN b = 1..Len(b)
      BY <1>2, LenProperties
    <2>2. PICK m \in Nat : m = Len(a)
      BY <1>2
    <2>3. PICK n \in Nat : n = Len(b)
      BY <1>2
    <2>4. ASSUME NEW i \in 1..(m + n) PROVE c[i] \in ToSet(a) \cup ToSet(b)
      <3>1. CASE i <= m
        <4>1. i \in 1..m
          BY <3>1
        <4> QED
          BY <1>2, <2>1, <2>2, <2>3, <3>1, <4>1 DEF ToSet
      <3>2. CASE ~(i <= m)
        <4>1. i - m \in 1..n
          BY <3>2
        <4> QED
          BY <1>2, <2>1, <2>2, <2>3, <3>2, <4>1 DEF ToSet
      <3> QED
        BY <3>1, <3>2
    <2>5. ToSet(c) = {c[i] : i \in 1..(m + n)}
      BY <1>2, <2>1, <2>2, <2>3 DEF ToSet
    <2> QED
      BY <2>4, <2>5
  <1>4. mode # "failed" => Owned(N, F, c, lo, hi)
    BY <1>3 DEF Owned
  <1>5. ValueFits(N, F, mode, c, "nodes", lo, hi)
    BY <1>2, <1>4 DEF ValueFits, HasShape
  <1> QED
    BY <1>1, <1>5

LEMMA StepPush ==
    ASSUME CodeFits, NEW N, NEW F, NEW mode, NEW p, NEW held, NEW lo, NEW hi, Ready(N, F, mode, p, held, lo, hi),
           Head(p.rest).do \in {"push", "unshift"}
    PROVE  /\ Steps(N, F, mode, p, lo, hi, Tail(p.rest),
                    [SubSeq(held, 1, Len(held) - 1) EXCEPT ![Head(p.rest).at] = @ \o Last(held)])
           /\ Steps(N, F, mode, p, lo, hi, Tail(p.rest),
                    [SubSeq(held, 1, Len(held) - 1) EXCEPT ![Head(p.rest).at] = Last(held) \o @])
  <1>0. Begun(N, F, mode, p, held, lo, hi)
    BY Begins
  <1>1. Led(p, Head(p.rest).do) /\ Found(p, Head(p.rest).do) /\ Bounds(N, lo, hi)
    BY <1>0 DEF Begun
  <1>2. PICK i : i = Head(p.rest).at
    OBVIOUS
  <1>3. FitsPush(p) /\ i \in 1..(Len(p.shapes) - 1)
    BY <1>1, <1>2 DEF Found, FitsPush, FitsMove
  <1>4. PICK h : h = SubSeq(held, 1, Len(held) - 1)
    OBVIOUS
  <1>5. PICK u : u = FirstShapes(p, 1)
    OBVIOUS
  <1>6. PICK v : v = Last(held)
    OBVIOUS
  <1>7. PICK t : t = Settled(p.shapes)
    OBVIOUS
  <1>8. /\ HeldFits(N, F, mode, h, u, lo, Len(N)) /\ Len(u) = Len(p.shapes) - 1 /\ h[i] = held[i]
        /\ i \in 1..Len(p.shapes) /\ Len(p.shapes) \in 1..Len(p.shapes)
        /\ ValueFits(N, F, mode, held[i], t[i], lo, Len(N))
        /\ ValueFits(N, F, mode, v, t[Len(p.shapes)], lo, Len(N))
    <2>1. Two(N, F, mode, p, held, lo, i)
      BY <1>0, <1>3, HeldTwo
    <2> QED
      BY <1>4, <1>5, <1>6, <1>7, <2>1 DEF Two
  <1>9. t[i] \in ListShapes /\ t[Len(p.shapes)] \in ListShapes
    <2>1. \A j \in 1..Len(p.shapes) : t[j] = IF p.shapes[j] = "fresh" THEN "some" ELSE p.shapes[j]
      BY <1>0, <1>7 DEF Begun
    <2>2. p.shapes[i] \in ListShapes /\ p.shapes[Len(p.shapes)] \in ListShapes
      BY <1>2, <1>3 DEF FitsPush
    <2> QED
      BY <1>8, <2>1, <2>2 DEF ListShapes
  <1>10. Len(N) \in Nat /\ Bounds(N, lo, Len(N))
    BY <1>1 DEF Bounds
  <1>11. /\ h[i] \in Seq(1..Len(N)) /\ (mode # "failed" => Owned(N, F, h[i], lo, Len(N)))
         /\ v \in Seq(1..Len(N)) /\ (mode # "failed" => Owned(N, F, v, lo, Len(N)))
    BY <1>8, <1>9, <1>10, ListValue
  <1>12. /\ ValueFits(N, F, mode, h[i] \o v, "nodes", lo, Len(N))
         /\ ValueFits(N, F, mode, v \o h[i], "nodes", lo, Len(N)) /\ "nodes" \in Shapes
    BY <1>10, <1>11, JoinedValue DEF Shapes
  <1>13. PICK w : w = [u EXCEPT ![i] = "nodes"]
    OBVIOUS
  <1>14. Goes(p, Tail(p.rest), w) \in Table
    BY <1>1, <1>2, <1>5, <1>13 DEF Led, AfterPush, Past
  <1>15. i \in 1..Len(u)
    BY <1>3, <1>8
  <1>16. ASSUME NEW x, ValueFits(N, F, mode, x, "nodes", lo, Len(N))
         PROVE  Steps(N, F, mode, p, lo, hi, Tail(p.rest), [h EXCEPT ![i] = x])
    <2>1. PICK y : y = [h EXCEPT ![i] = x]
      OBVIOUS
    <2>2. HeldFits(N, F, mode, y, w, lo, Len(N))
      BY <1>8, <1>12, <1>13, <1>15, <1>16, <2>1, HeldReplace
    <2>3. Steps(N, F, mode, p, lo, hi, Tail(p.rest), y)
      BY <1>14, <2>2, GoesSteps
    <2> QED
      BY <2>1, <2>3
  <1>17. /\ Steps(N, F, mode, p, lo, hi, Tail(p.rest), [h EXCEPT ![i] = h[i] \o v])
         /\ Steps(N, F, mode, p, lo, hi, Tail(p.rest), [h EXCEPT ![i] = v \o h[i]])
    BY <1>12, <1>16
  <1>18. /\ [h EXCEPT ![i] = @ \o v] = [h EXCEPT ![i] = h[i] \o v]
         /\ [h EXCEPT ![i] = v \o @] = [h EXCEPT ![i] = v \o h[i]]
    OBVIOUS
  <1>19. /\ Steps(N, F, mode, p, lo, hi, Tail(p.rest), [h EXCEPT ![i] = @ \o v])
         /\ Steps(N, F, mode, p, lo, hi, Tail(p.rest), [h EXCEPT ![i] = v \o @])
    BY <1>17, <1>18
  <1> QED
    BY <1>2, <1>4, <1>6, <1>19

LEMMA StepForget ==
    ASSUME CodeFits, NEW N, NEW F, NEW mode, NEW p, NEW held, NEW lo, NEW hi, Ready(N, F, mode, p, held, lo, hi),
           Head(p.rest).do = "forget"
    PROVE  Steps(N, F, mode, p, lo, hi, Tail(p.rest), RemoveAt(held, Head(p.rest).at))
  <1>0. Begun(N, F, mode, p, held, lo, hi)
    BY Begins
  <1>1. Led(p, "forget") /\ Found(p, "forget")
    BY <1>0 DEF Begun
  <1>2. PICK i : i = Head(p.rest).at
    OBVIOUS
  <1>3. PICK t : t = Settled(p.shapes)
    OBVIOUS
  <1>4. i \in 1..Len(t) /\ HeldFits(N, F, mode, held, t, lo, Len(N))
    <2>1. Len(t) = Len(p.shapes) /\ HeldFits(N, F, mode, held, t, lo, Len(N))
      BY <1>0, <1>3 DEF Begun
    <2>2. i \in 1..Len(p.shapes)
      BY <1>1, <1>2 DEF Found, FitsForget
    <2> QED
      BY <2>1, <2>2
  <1>5. PICK u : u = RemoveAt(t, i)
    OBVIOUS
  <1>6. PICK h : h = RemoveAt(held, i)
    OBVIOUS
  <1>7. HeldFits(N, F, mode, h, u, lo, Len(N))
    BY <1>4, <1>5, <1>6, HeldRemove
  <1>8. Goes(p, Tail(p.rest), u) \in Table
    BY <1>1, <1>2, <1>3, <1>5 DEF Led, AfterForget, Past
  <1>9. Steps(N, F, mode, p, lo, hi, Tail(p.rest), h)
    BY <1>7, <1>8, GoesSteps
  <1> QED
    BY <1>2, <1>6, <1>9

\* What may be ahead: at the end of no tokens there is nothing, and a first
\* token is something.
AheadFits(mode, kind) == (mode = "none" => kind = "eof") /\ (mode = "unread" => kind # "eof")

LEMMA MayBe ==
    ASSUME NEW mode \in Modes, NEW kind, AheadFits(mode, kind), NEW kinds
    PROVE  /\ kind \in kinds => MayBeIn(mode, kinds)
           /\ kind \notin kinds => MayBeOutside(mode, kinds)
  BY DEF AheadFits, MayBeIn, MayBeOutside, Modes

LEMMA StepSwitch ==
    ASSUME CodeFits, NEW N, NEW F, NEW mode, NEW p, NEW held, NEW lo, NEW hi, Ready(N, F, mode, p, held, lo, hi),
           Head(p.rest).do = "switch", NEW kind, AheadFits(mode, kind)
    PROVE  Steps(N, F, mode, p, lo, hi,
                 (IF kind \in DOMAIN Head(p.rest).cases THEN Head(p.rest).cases[kind] ELSE Head(p.rest).otherwise)
                    \o Tail(p.rest), held)
  <1>0. Begun(N, F, mode, p, held, lo, hi)
    BY Begins
  <1>1. Led(p, "switch") /\ p.mode = mode /\ mode \in Modes
    BY <1>0 DEF Begun
  <1>2. AfterSwitch(p) \subseteq Table
    BY <1>1 DEF Led
  <1>3. PICK now : now = Head(p.rest)
    OBVIOUS
  <1>4. CASE kind \in DOMAIN now.cases
    <2>1. MayBeIn(p.mode, {kind})
      BY <1>1, MayBe
    <2>2. Goes(p, now.cases[kind] \o Tail(p.rest), p.shapes) \in Where(MayBeIn(p.mode, {kind}), Through(p, now.cases[kind]))
      BY <2>1 DEF Where, Through
    <2>3. Goes(p, now.cases[kind] \o Tail(p.rest), p.shapes) \in AfterSwitch(p)
      BY <1>3, <1>4, <2>2 DEF AfterSwitch, AfterCase
    <2>4. Steps(N, F, mode, p, lo, hi, now.cases[kind] \o Tail(p.rest), held)
      BY <1>2, <2>3, StaysSteps
    <2> QED
      BY <1>3, <1>4, <2>4
  <1>5. CASE kind \notin DOMAIN now.cases
    <2>1. MayBeOutside(p.mode, DOMAIN now.cases)
      BY <1>1, <1>5, MayBe
    <2>2. Goes(p, now.otherwise \o Tail(p.rest), p.shapes) \in Where(MayBeOutside(p.mode, DOMAIN now.cases), Through(p, now.otherwise))
      BY <2>1 DEF Where, Through
    <2>3. Goes(p, now.otherwise \o Tail(p.rest), p.shapes) \in AfterSwitch(p)
      BY <1>3, <2>2 DEF AfterSwitch, AfterOtherwise
    <2>4. Steps(N, F, mode, p, lo, hi, now.otherwise \o Tail(p.rest), held)
      BY <1>2, <2>3, StaysSteps
    <2> QED
      BY <1>3, <1>5, <2>4
  <1> QED
    BY <1>4, <1>5

LEMMA StepTest ==
    ASSUME CodeFits, NEW N, NEW F, NEW mode, NEW p, NEW held, NEW lo, NEW hi, Ready(N, F, mode, p, held, lo, hi),
           Head(p.rest).do \in {"second", "held"}
    PROVE  /\ Steps(N, F, mode, p, lo, hi, Head(p.rest).yes \o Tail(p.rest), held)
           /\ Steps(N, F, mode, p, lo, hi, Head(p.rest).no \o Tail(p.rest), held)
  <1>0. Begun(N, F, mode, p, held, lo, hi)
    BY Begins
  <1>1. Led(p, Head(p.rest).do)
    BY <1>0 DEF Begun
  <1>2. AfterTest(p) \subseteq Table
    BY <1>1 DEF Led
  <1>3. /\ Goes(p, Head(p.rest).yes \o Tail(p.rest), p.shapes) \in Table
        /\ Goes(p, Head(p.rest).no \o Tail(p.rest), p.shapes) \in Table
    BY <1>2 DEF AfterTest, Through
  <1> QED
    BY <1>3, StaysSteps

LEMMA StepNull ==
    ASSUME CodeFits, NEW N, NEW F, NEW mode, NEW p, NEW held, NEW lo, NEW hi, Ready(N, F, mode, p, held, lo, hi),
           Head(p.rest).do = "null"
    PROVE  Steps(N, F, mode, p, lo, hi,
                 (IF held[Head(p.rest).at] = Null THEN Head(p.rest).yes ELSE Head(p.rest).no) \o Tail(p.rest), held)
  <1>0. Begun(N, F, mode, p, held, lo, hi)
    BY Begins
  <1>1. Led(p, "null") /\ Found(p, "null") /\ HeldFits(N, F, mode, held, p.shapes, lo, hi) /\ Bounds(N, lo, hi)
    BY <1>0 DEF Begun
  <1>2. AfterNull(p) \subseteq Table /\ FitsNull(p)
    BY <1>1 DEF Led, Found
  <1>3. PICK now : now = Head(p.rest)
    OBVIOUS
  <1>4. now.at \in 1..Len(p.shapes)
    BY <1>2, <1>3 DEF FitsNull, FitsForget
  <1>5. PICK shape : shape = p.shapes[now.at]
    OBVIOUS
  <1>6. PICK v : v = held[now.at]
    OBVIOUS
  <1>7. ValueFits(N, F, mode, v, shape, lo, hi)
    BY <1>1, <1>4, <1>5, <1>6, HeldIs
  <1>8. CASE v = Null
    <2>1. ~IsOne(Len(N), v)
      BY <1>1, <1>8, OneInSeq DEF Bounds
    <2>2. shape \notin NodeShapes
      BY <1>7, <2>1 DEF ValueFits, HasShape, NodeShapes
    <2>3. Goes(p, now.yes \o Tail(p.rest), p.shapes) \in Table
      BY <1>2, <1>3, <1>5, <2>2 DEF AfterNull, Where, Through
    <2>4. Steps(N, F, mode, p, lo, hi, now.yes \o Tail(p.rest), held)
      BY <2>3, StaysSteps
    <2> QED
      BY <1>3, <1>6, <1>8, <2>4
  <1>9. CASE v # Null
    <2>1. shape # "null"
      BY <1>7, <1>9 DEF ValueFits, HasShape
    <2>2. Goes(p, now.no \o Tail(p.rest), p.shapes) \in Table
      BY <1>2, <1>3, <1>5, <2>1 DEF AfterNull, Where, Through
    <2>3. Steps(N, F, mode, p, lo, hi, now.no \o Tail(p.rest), held)
      BY <2>2, StaysSteps
    <2> QED
      BY <1>3, <1>6, <1>9, <2>3
  <1> QED
    BY <1>8, <1>9

LEMMA StepLoop ==
    ASSUME CodeFits, NEW N, NEW F, NEW mode, NEW p, NEW held, NEW lo, NEW hi, Ready(N, F, mode, p, held, lo, hi),
           Head(p.rest).do = "loop", NEW kind, AheadFits(mode, kind)
    PROVE  Steps(N, F, mode, p, lo, hi,
                 IF kind \in Head(p.rest).kinds THEN Head(p.rest).body \o p.rest ELSE Tail(p.rest), held)
  <1>0. Begun(N, F, mode, p, held, lo, hi)
    BY Begins
  <1>1. Led(p, "loop") /\ p.mode = mode /\ mode \in Modes
    BY <1>0 DEF Begun
  <1>2. AfterLoop(p) \subseteq Table
    BY <1>1 DEF Led
  <1>3. PICK now : now = Head(p.rest)
    OBVIOUS
  <1>4. CASE kind \in now.kinds
    <2>1. Goes(p, now.body \o p.rest, p.shapes) \in Table
      BY <1>1, <1>2, <1>3, <1>4, MayBe DEF AfterLoop, Where
    <2>2. Steps(N, F, mode, p, lo, hi, now.body \o p.rest, held)
      BY <2>1, StaysSteps
    <2> QED
      BY <1>3, <1>4, <2>2
  <1>5. CASE kind \notin now.kinds
    <2>1. Goes(p, Tail(p.rest), p.shapes) \in Table
      BY <1>1, <1>2, <1>3, <1>5, MayBe DEF AfterLoop, Where, Past
    <2>2. Steps(N, F, mode, p, lo, hi, Tail(p.rest), held)
      BY <2>1, StaysSteps
    <2> QED
      BY <1>3, <1>5, <2>2
  <1> QED
    BY <1>4, <1>5

LEMMA StepUntil ==
    ASSUME CodeFits, NEW N, NEW F, NEW mode, NEW p, NEW held, NEW lo, NEW hi, Ready(N, F, mode, p, held, lo, hi),
           Head(p.rest).do = "until", NEW kind, AheadFits(mode, kind)
    PROVE  Steps(N, F, mode, p, lo, hi,
                 IF kind \in Head(p.rest).kinds THEN Tail(p.rest) ELSE Head(p.rest).body \o p.rest, held)
  <1>0. Begun(N, F, mode, p, held, lo, hi)
    BY Begins
  <1>1. Led(p, "until") /\ p.mode = mode /\ mode \in Modes
    BY <1>0 DEF Begun
  <1>2. AfterUntil(p) \subseteq Table
    BY <1>1 DEF Led
  <1>3. PICK now : now = Head(p.rest)
    OBVIOUS
  <1>4. CASE kind \notin now.kinds
    <2>1. Goes(p, now.body \o p.rest, p.shapes) \in Table
      BY <1>1, <1>2, <1>3, <1>4, MayBe DEF AfterUntil, Where
    <2>2. Steps(N, F, mode, p, lo, hi, now.body \o p.rest, held)
      BY <2>1, StaysSteps
    <2> QED
      BY <1>3, <1>4, <2>2
  <1>5. CASE kind \in now.kinds
    <2>1. Goes(p, Tail(p.rest), p.shapes) \in Table
      BY <1>1, <1>2, <1>3, <1>5, MayBe DEF AfterUntil, Where, Past
    <2>2. Steps(N, F, mode, p, lo, hi, Tail(p.rest), held)
      BY <2>1, StaysSteps
    <2> QED
      BY <1>3, <1>5, <2>2
  <1> QED
    BY <1>4, <1>5

LEMMA StepItems ==
    ASSUME CodeFits, NEW N, NEW F, NEW mode, NEW p, NEW held, NEW lo, NEW hi, Ready(N, F, mode, p, held, lo, hi),
           Head(p.rest).do = "items", NEW kind, AheadFits(mode, kind)
    PROVE  Steps(N, F, mode, p, lo, hi,
                 IF kind \in Head(p.rest).stop THEN Tail(p.rest)
                 ELSE Head(p.rest).body \o <<Once({","}, <<Take, Head(p.rest)>>)>> \o Tail(p.rest), held)
  <1>0. Begun(N, F, mode, p, held, lo, hi)
    BY Begins
  <1>1. Led(p, "items") /\ p.mode = mode /\ mode \in Modes
    BY <1>0 DEF Begun
  <1>2. AfterItems(p) \subseteq Table
    BY <1>1 DEF Led
  <1>3. PICK now : now = Head(p.rest)
    OBVIOUS
  <1>4. CASE kind \notin now.stop
    <2>1. PICK rest : rest = now.body \o <<Once({","}, <<Take, now>>)>> \o Tail(p.rest)
      OBVIOUS
    <2>2. MayBeOutside(p.mode, now.stop)
      BY <1>1, <1>4, MayBe
    <2>3. Goes(p, rest, p.shapes) \in Where(MayBeOutside(p.mode, now.stop), Through(p, now.body \o <<Once({","}, <<Take, now>>)>>))
      BY <2>1, <2>2 DEF Where, Through
    <2>4. Goes(p, rest, p.shapes) \in AfterItems(p)
      BY <1>3, <2>3 DEF AfterItems
    <2>5. Steps(N, F, mode, p, lo, hi, rest, held)
      BY <1>2, <2>4, StaysSteps
    <2> QED
      BY <1>3, <1>4, <2>1, <2>5
  <1>5. CASE kind \in now.stop
    <2>1. Goes(p, Tail(p.rest), p.shapes) \in Table
      BY <1>1, <1>2, <1>3, <1>5, MayBe DEF AfterItems, Where, Past
    <2>2. Steps(N, F, mode, p, lo, hi, Tail(p.rest), held)
      BY <2>1, StaysSteps
    <2> QED
      BY <1>3, <1>5, <2>2
  <1> QED
    BY <1>4, <1>5

LEMMA StepUnwrap ==
    ASSUME CodeFits, NEW N, NEW F, NEW mode, NEW p, NEW held, NEW lo, NEW hi, Ready(N, F, mode, p, held, lo, hi),
           Head(p.rest).do = "unwrap"
    PROVE  Steps(N, F, mode, p, lo, hi, Tail(p.rest), held)
  <1>0. Begun(N, F, mode, p, held, lo, hi)
    BY Begins
  <1>1. Led(p, "unwrap") /\ HeldFits(N, F, mode, held, Settled(p.shapes), lo, Len(N))
    BY <1>0 DEF Begun
  <1>2. Goes(p, Tail(p.rest), Settled(p.shapes)) \in Table
    BY <1>1 DEF Led, AfterUnwrap, Past
  <1> QED
    BY <1>1, <1>2, GoesSteps

LEMMA StepComplain ==
    ASSUME CodeFits, NEW N, NEW F, NEW mode, NEW p, NEW held, NEW lo, NEW hi, Ready(N, F, mode, p, held, lo, hi),
           Head(p.rest).do = "complain"
    PROVE  /\ Steps(N, F, "failed", p, lo, hi, Tail(p.rest), held)
           /\ mode \in {"read", "failed"}
  <1>0. Begun(N, F, mode, p, held, lo, hi)
    BY Begins
  <1>1. Led(p, "complain") /\ Found(p, "complain") /\ p.mode = mode /\ HeldFits(N, F, mode, held, Settled(p.shapes), lo, Len(N))
    BY <1>0 DEF Begun
  <1>2. InMode("failed", Goes(p, Tail(p.rest), Settled(p.shapes))) \in Table
    BY <1>1 DEF Led, AfterComplain, Past
  <1>3. Steps(N, F, "failed", p, lo, hi, Tail(p.rest), held)
    BY <1>1, <1>2, GoesSteps
  <1> QED
    BY <1>1, <1>3 DEF Found, FitsComplain

\* A node that may be added to others.
Made(N, F, mode, node, lo) ==
    /\ WalkedFields(node.t) \cup Required(node.t) \subseteq DOMAIN node \ Plain
    /\ \A f \in DOMAIN node \ Plain :
          /\ node[f] \in Seq(1..Len(N))
          /\ mode # "failed" => Owned(N, F, node[f], lo, Len(N))
    /\ mode # "failed" => \A f \in Required(node.t) : node[f] # Null

Adds(N, M, F, mode, lo) ==
    /\ NodesFit(M) /\ Extends(M, N) /\ Len(M) = Len(N) + 1
    /\ ValueFits(M, F, mode, <<Len(N) + 1>>, "some", lo, Len(M))

LEMMA NodeMade ==
    ASSUME NEW N, NodesFit(N), NEW F, F \subseteq 2..Len(N), NEW mode, NEW lo \in Nat, lo <= Len(N),
           NEW node, Made(N, F, mode, node, lo)
    PROVE  Adds(N, Append(N, node), F, mode, lo)
  <1>0. PICK M : M = Append(N, node)
    OBVIOUS
  <1>1. PICK k \in Nat \ {0} : k = Len(N)
    BY DEF NodesFit
  <1>2. /\ IsSeq(M) /\ Len(M) = k + 1 /\ (\A i \in 1..k : M[i] = N[i]) /\ M[k + 1] = node
    BY <1>0, <1>1, Appended DEF NodesFit
  <1>3. Extends(M, N)
    BY <1>1, <1>2 DEF Extends
  <1>4. NodesFit(M)
    <2>1. M[1] = [t |-> "empty"]
      BY <1>1, <1>2 DEF NodesFit
    <2>2. ASSUME NEW n \in 1..(k + 1)
          PROVE  /\ \A f \in DOMAIN M[n] \ Plain : M[n][f] \in Seq(1..(n - 1))
                 /\ WalkedFields(M[n].t) \cup Required(M[n].t) \subseteq DOMAIN M[n] \ Plain
      <3>1. CASE n \in 1..k
        BY <1>1, <1>2, <3>1 DEF NodesFit
      <3>2. CASE n = k + 1
        <4>1. n - 1 = k
          BY <3>2
        <4> QED
          BY <1>1, <1>2, <3>2, <4>1 DEF Made
      <3>3. n \in 1..k \/ n = k + 1
        OBVIOUS
      <3> QED
        BY ONLY <3>1, <3>2, <3>3
    <2>3. Len(M) \in Nat \ {0}
      BY <1>2
    <2> QED
      BY <1>2, <2>1, <2>2, <2>3 DEF NodesFit
  <1>5. PICK v : v = <<k + 1>>
    OBVIOUS
  <1>6. ToSet(v) = {k + 1} /\ IsOne(k + 1, v)
    BY <1>5, Single DEF IsOne
  <1>7. mode # "failed" => Owned(M, F, v, lo, k + 1)
    <2> SUFFICES ASSUME mode # "failed" PROVE Owned(M, F, v, lo, k + 1)
      OBVIOUS
    <2>1. PICK B : B = Best(N, F, lo, k)
      OBVIOUS
    <2>2. Whole(N, F, B) /\ B \subseteq {1} \cup ((lo + 1)..k)
      BY <2>1, BestIsWhole
    <2>3. PICK C : C = B \cup {k + 1}
      OBVIOUS
    <2>4. C \subseteq {1} \cup ((lo + 1)..(k + 1)) /\ C \subseteq 1..(k + 1) /\ B \subseteq 1..k
      <3>1. B \subseteq 1..k
        BY <1>1, <2>2 DEF Whole
      <3>2. (lo + 1)..k \subseteq (lo + 1)..(k + 1) /\ k + 1 \in (lo + 1)..(k + 1) /\ 1..k \subseteq 1..(k + 1) /\ k + 1 \in 1..(k + 1)
        BY <1>1
      <3> QED
        BY <2>2, <2>3, <3>1, <3>2
    <2>5. C \cap F = {}
      <3>1. k + 1 \notin F
        BY <1>1
      <3> QED
        BY <2>2, <2>3, <3>1 DEF Whole
    <2>6. ASSUME NEW n \in C
          PROVE  /\ \A f \in DOMAIN M[n] \ Plain : ToSet(M[n][f]) \subseteq C
                 /\ \A f \in Required(M[n].t) : M[n][f] # Null
      <3>1. CASE n \in B
        <4>1. M[n] = N[n]
          BY <1>2, <2>4, <3>1
        <4> QED
          BY <2>2, <2>3, <3>1, <4>1 DEF Whole
      <3>2. CASE n = k + 1
        BY <1>1, <1>2, <2>1, <2>3, <3>2 DEF Made, Owned
      <3> QED
        BY <2>3, <3>1, <3>2
    <2>7. Whole(M, F, C)
      BY <1>2, <2>4, <2>5, <2>6 DEF Whole
    <2>8. C \subseteq Best(M, F, lo, k + 1)
      BY <2>4, <2>7, BestHolds
    <2> QED
      BY <1>6, <2>3, <2>8 DEF Owned
  <1>8. ValueFits(M, F, mode, v, "some", lo, k + 1)
    BY <1>2, <1>6, <1>7 DEF ValueFits, HasShape
  <1> QED
    <2>1. Adds(N, M, F, mode, lo)
      BY <1>1, <1>2, <1>3, <1>4, <1>5, <1>8 DEF Adds
    <2> QED
      BY <1>0, <2>1

\* The fields of a node are what is held last.
LEMMA FieldsMade ==
    ASSUME NEW N, NEW F, NEW mode, NEW p, NEW held, NEW lo, NEW hi, Begun(N, F, mode, p, held, lo, hi),
           FitsNode(p), NEW k, k = Len(Head(p.rest).fields)
    PROVE  Made(N, F, mode, NodeOf(Head(p.rest), SubSeq(held, Len(held) - k + 1, Len(held))), lo)
  <1>f. PICK fields : fields = Head(p.rest).fields
    OBVIOUS
  <1>l. PICK last : last = SubSeq(held, Len(held) - k + 1, Len(held))
    OBVIOUS
  <1>n. PICK node : node = NodeOf(Head(p.rest), last)
    OBVIOUS
  <1>d. node = [f \in ToSet(fields) \cup {"t"} |->
                     IF f = "t" THEN Head(p.rest).type ELSE last[CHOOSE i \in 1..Len(fields) : fields[i] = f]]
    BY <1>f, <1>n DEF NodeOf
  <1>1. k \in Nat /\ k = Len(fields)
    BY <1>f DEF FitsNode
  <1>2. PICK n \in Nat : n = Len(p.shapes)
    BY DEF Begun
  <1>3. /\ k <= n /\ "t" \notin ToSet(fields)
        /\ \A i, j \in 1..k : fields[i] = fields[j] => i = j
        /\ WalkedFields(Head(p.rest).type) \cup Required(Head(p.rest).type) \subseteq ToSet(fields) \ Plain
        /\ ToSet(fields) = {fields[i] : i \in 1..k}
    <2>1. fields \in Seq(STRING)
      BY <1>f DEF FitsNode
    <2>2. DOMAIN fields = 1..k
      BY <1>1, <2>1, LenProperties
    <2> QED
      BY <1>1, <1>2, <1>f, <2>2 DEF FitsNode, ToSet
  <1>4. /\ \A i \in 1..k : fields[i] \notin Plain => p.shapes[n - k + i] \in ListShapes
        /\ \A i \in 1..k : fields[i] \in Required(Head(p.rest).type) /\ mode # "failed" => p.shapes[n - k + i] \in NodeShapes
    BY <1>1, <1>2, <1>f DEF FitsNode, FieldShape, Begun
  <1>5. \A i \in 1..k : last[i] = held[n - k + i]
    <2>1. IsSeq(held) /\ Len(held) = n
      BY <1>2, HeldIs DEF Begun
    <2>2. k \in 0..n
      BY <1>3
    <2>3. \A i \in 1..k : SubSeq(held, Len(held) - k + 1, Len(held))[i] = held[Len(held) - k + i]
      BY <2>1, <2>2, Lasts
    <2> QED
      BY <1>1, <1>l, <2>1, <2>3
  <1>6. Bounds(N, lo, hi) /\ \A i \in 1..n : ValueFits(N, F, mode, held[i], p.shapes[i], lo, hi)
    BY <1>2, HeldIs DEF Begun
  <1>7. ASSUME NEW i \in 1..k, fields[i] \notin Plain
        PROVE  /\ last[i] \in Seq(1..Len(N))
               /\ mode # "failed" => Owned(N, F, last[i], lo, Len(N))
               /\ mode # "failed" /\ fields[i] \in Required(Head(p.rest).type) => last[i] # Null
    <2>1. n - k + i \in 1..n
      BY <1>3
    <2>2. PICK v : v = held[n - k + i]
      OBVIOUS
    <2>3. PICK shape : shape = p.shapes[n - k + i]
      OBVIOUS
    <2>4. shape \in ListShapes /\ ValueFits(N, F, mode, v, shape, lo, hi)
      BY <1>4, <1>6, <1>7, <2>1, <2>2, <2>3
    <2>5. /\ v \in Seq(1..Len(N)) /\ (mode # "failed" => Owned(N, F, v, lo, Len(N)))
          /\ shape \in NodeShapes => IsOne(Len(N), v)
      BY <1>6, <2>4, ListValue
    <2>6. IsOne(Len(N), v) => v # Null
      BY <1>6, OneInSeq DEF Bounds
    <2> QED
      BY <1>4, <1>5, <2>2, <2>3, <2>5, <2>6
  <1>8. DOMAIN node = ToSet(fields) \cup {"t"} /\ node.t = Head(p.rest).type /\ "t" \in Plain
    BY <1>d DEF Plain
  <1>9. \A i \in 1..k : node[fields[i]] = last[i]
    <2> SUFFICES ASSUME NEW i \in 1..k PROVE node[fields[i]] = last[i]
      OBVIOUS
    <2>1. fields[i] \in ToSet(fields) /\ fields[i] # "t"
      BY <1>3
    <2>2. node[fields[i]] = last[CHOOSE j \in 1..k : fields[j] = fields[i]]
      BY <1>1, <1>d, <2>1
    <2>3. (CHOOSE j \in 1..k : fields[j] = fields[i]) = i
      BY <1>3
    <2> QED
      BY <2>2, <2>3
  <1>10. ASSUME NEW f \in DOMAIN node \ Plain
         PROVE  /\ node[f] \in Seq(1..Len(N))
                /\ mode # "failed" => Owned(N, F, node[f], lo, Len(N))
                /\ mode # "failed" /\ f \in Required(node.t) => node[f] # Null
    <2>1. PICK i \in 1..k : f = fields[i]
      BY <1>3, <1>8
    <2> QED
      <3>1. f \notin Plain /\ fields[i] \notin Plain /\ node[f] = last[i]
        BY <1>9, <2>1
      <3>2. /\ last[i] \in Seq(1..Len(N))
            /\ mode # "failed" => Owned(N, F, last[i], lo, Len(N))
            /\ mode # "failed" /\ fields[i] \in Required(Head(p.rest).type) => last[i] # Null
        BY <1>7, <3>1
      <3> QED
        BY <1>8, <2>1, <3>1, <3>2
  <1>11. WalkedFields(node.t) \cup Required(node.t) \subseteq DOMAIN node \ Plain
    BY <1>3, <1>8
  <1> QED
    <2>1. Made(N, F, mode, node, lo)
      BY <1>10, <1>11 DEF Made
    <2> QED
      BY <1>l, <1>n, <2>1

LEMMA StepNode ==
    ASSUME CodeFits, NEW N, NEW F, NEW mode, NEW p, NEW held, NEW lo, NEW hi, Ready(N, F, mode, p, held, lo, hi),
           NodesFit(N), F \subseteq 2..Len(N), Head(p.rest).do = "node",
           NEW k, k = Len(Head(p.rest).fields), NEW node,
           node = NodeOf(Head(p.rest), SubSeq(held, Len(held) - k + 1, Len(held)))
    PROVE  /\ Adds(N, Append(N, node), F, mode, lo)
           /\ Steps(Append(N, node), F, mode, p, lo, hi, Tail(p.rest),
                    Append(SubSeq(held, 1, Len(held) - k), <<Len(N) + 1>>))
  <1>0. Begun(N, F, mode, p, held, lo, hi)
    BY Begins
  <1>1. /\ Led(p, "node") /\ Found(p, "node") /\ Bounds(N, lo, hi) /\ p.mode = mode /\ p.waits = FALSE
        /\ HeldFits(N, F, mode, held, Settled(p.shapes), lo, Len(N)) /\ Len(p.shapes) \in Nat
        /\ Len(Settled(p.shapes)) = Len(p.shapes) /\ Len(held) = Len(p.shapes)
        /\ \A i \in 1..Len(p.shapes) : Settled(p.shapes)[i] = IF p.shapes[i] = "fresh" THEN "some" ELSE p.shapes[i]
    BY <1>0 DEF Begun
  <1>2. FitsNode(p)
    BY <1>1 DEF Found
  <1>3. Made(N, F, mode, node, lo)
    BY ONLY <1>0, <1>2, k = Len(Head(p.rest).fields),
            node = NodeOf(Head(p.rest), SubSeq(held, Len(held) - k + 1, Len(held))), FieldsMade
  <1>4. lo \in Nat /\ hi \in Nat /\ lo <= Len(N) /\ hi <= Len(N) /\ Len(N) \in Nat
    BY <1>1 DEF Bounds
  <1>5. PICK v : v = <<Len(N) + 1>>
    OBVIOUS
  <1>m. Adds(N, Append(N, node), F, mode, lo)
    BY ONLY <1>3, <1>4, NodesFit(N), F \subseteq 2..Len(N), NodeMade
  <1>n. PICK M : M = Append(N, node)
    OBVIOUS
  <1>6. /\ NodesFit(M) /\ Extends(M, N) /\ Len(M) = Len(N) + 1
        /\ ValueFits(M, F, mode, v, "some", lo, Len(M))
    BY ONLY <1>m, <1>n, <1>5 DEF Adds
  <1>7. PICK t : t = Settled(p.shapes)
    OBVIOUS
  <1>9. k \in 0..Len(t) /\ Len(t) = Len(p.shapes) /\ Len(held) = Len(p.shapes)
    <2>1. Head(p.rest).fields \in Seq(STRING) /\ k <= Len(p.shapes)
      BY <1>2 DEF FitsNode
    <2>2. k \in Nat
      BY <2>1, LenProperties
    <2> QED
      BY <1>1, <1>7, <2>1, <2>2
  <1>10. PICK h : h = SubSeq(held, 1, Len(held) - k)
    OBVIOUS
  <1>11. PICK u : u = FirstShapes(p, k)
    OBVIOUS
  <1>12. HeldFits(N, F, mode, h, u, lo, Len(N)) /\ \A i \in 1..Len(u) : u[i] # "fresh"
    <2>1. HeldFits(N, F, mode, held, t, lo, Len(N))
      BY <1>1, <1>7
    <2>2. HeldFits(N, F, mode, SubSeq(held, 1, Len(held) - k), SubSeq(t, 1, Len(t) - k), lo, Len(N))
      BY <1>9, <2>1, HeldFirst
    <2>3. u = SubSeq(t, 1, Len(t) - k)
      BY <1>7, <1>9, <1>11 DEF FirstShapes
    <2>4. IsSeq(t)
      BY <2>1, HeldIs
    <2>5. Len(t) - k \in 0..Len(t)
      <3>1. Len(p.shapes) \in Nat
        BY <1>1
      <3> QED
        BY ONLY <1>9, <3>1
    <2>6. Len(u) = Len(t) - k /\ \A i \in 1..(Len(t) - k) : u[i] = t[i]
      BY ONLY <2>3, <2>4, <2>5, Firsts
    <2>7. \A i \in 1..Len(p.shapes) : t[i] # "fresh"
      BY <1>1, <1>7
    <2>8. \A i \in 1..(Len(t) - k) : i \in 1..Len(p.shapes)
      BY <1>1, <1>9
    <2> QED
      BY <1>10, <2>2, <2>3, <2>6, <2>7, <2>8
  <1>13. HeldFits(M, F, mode, h, u, lo, Len(N))
    <2>1. Bounds(N, lo, Len(N)) /\ Len(M) \in Nat
      BY ONLY <1>4, <1>6 DEF Bounds
    <2>2. F \cap ({1} \cup ((lo + 1)..Len(N))) \subseteq F
      OBVIOUS
    <2> QED
      BY ONLY <1>6, <1>12, <2>1, <2>2, HeldKeeps
  <1>14. HeldFits(M, F, mode, h, u, lo, Len(M))
    <2>1. Bounds(M, lo, Len(N))
      BY ONLY <1>4, <1>6 DEF Bounds
    <2> QED
      BY ONLY <1>12, <1>13, <2>1, HeldRaises
  <1>15. PICK x : x = Append(u, "some")
    OBVIOUS
  <1>16. PICK y : y = Append(h, v)
    OBVIOUS
  <1>17. HeldFits(M, F, mode, y, x, lo, Len(M))
    <2>1. "some" \in Shapes
      BY DEF Shapes
    <2> QED
      BY ONLY <1>6, <1>14, <1>15, <1>16, <2>1, HeldAppend
  <1>18. PICK q : q = Past(p, x)
    OBVIOUS
  <1>19. q \in Table
    BY <1>1, <1>11, <1>15, <1>18 DEF Led, AfterNode
  <1>20. q.waits = FALSE /\ q.gives = p.gives /\ q.mode = mode /\ q.rest = Tail(p.rest) /\ q.shapes = x
    BY <1>1, <1>18 DEF Past, Goes, Point
  <1>21. PICK high \in Nat : high = Len(M)
    BY ONLY <1>4, <1>6
  <1>22. hi <= high /\ high <= Len(M)
    BY ONLY <1>4, <1>6, <1>21
  <1>23. Steps(M, F, mode, p, lo, hi, Tail(p.rest), y)
    <2>1. HeldFits(M, F, mode, y, q.shapes, lo, high)
      BY <1>17, <1>20, <1>21
    <2> QED
      BY ONLY <1>19, <1>20, <1>22, <2>1, high \in Nat DEF Steps
  <1> QED
    BY ONLY <1>m, <1>n, <1>5, <1>10, <1>16, <1>23

-----------------------------------------------------------------------------
(***************************************************************************)
(* From part to part: the parts of a node are nodes before it.             *)
(***************************************************************************)
LeadsTo(parts, L) == L \in Nat /\ DOMAIN parts = 1..L /\ \A m \in 1..L : parts[m] \subseteq 1..(m - 1)
Closed(parts, L, C) == C \subseteq 1..L /\ \A m \in C : parts[m] \subseteq C

\* The sets that are closed have a smallest one with a node in it, which is
\* that node and those of its parts.
LEMMA ThereIsReached ==
    ASSUME NEW parts, NEW L, LeadsTo(parts, L)
    PROVE  \E g : g = [m \in DOMAIN parts |-> {m} \cup UNION {g[k] : k \in parts[m]}]
  <1>1. PICK g : g = [m \in 1..L |-> {x \in 1..L : \A C \in SUBSET (1..L) : Closed(parts, L, C) /\ m \in C => x \in C}]
    OBVIOUS
  <1>2. ASSUME NEW m \in 1..L
        PROVE  g[m] = {m} \cup UNION {g[k] : k \in parts[m]}
    <2>1. parts[m] \subseteq 1..L
      BY DEF LeadsTo
    <2>2. PICK R : R = {m} \cup UNION {g[k] : k \in parts[m]}
      OBVIOUS
    <2>3. R \subseteq g[m]
      <3>1. m \in g[m]
        BY <1>1
      <3>2. ASSUME NEW k \in parts[m], NEW x \in g[k] PROVE x \in g[m]
        BY <1>1, <2>1, <3>2 DEF Closed
      <3> QED
        BY <2>2, <3>1, <3>2
    <2>4. R \subseteq 1..L /\ m \in R
      BY <1>1, <2>1, <2>2
    <2>5. ASSUME NEW y \in R, NEW z \in parts[y] PROVE z \in R
      <3>1. CASE y = m
        <4>1. z \in g[z]
          BY <1>1, <2>1, <2>5, <3>1
        <4> QED
          BY <2>2, <2>5, <3>1, <4>1
      <3>2. CASE y # m
        <4>1. PICK k \in parts[m] : y \in g[k]
          BY <2>2, <3>2
        <4>2. z \in 1..L
          BY <2>4, <2>5 DEF LeadsTo
        <4>3. z \in g[k]
          BY <1>1, <2>1, <2>5, <4>1, <4>2 DEF Closed
        <4> QED
          BY <2>2, <4>3
      <3> QED
        BY <3>1, <3>2
    <2>6. Closed(parts, L, R)
      BY <2>4, <2>5 DEF Closed
    <2>7. g[m] \subseteq R
      BY <1>1, <2>4, <2>6
    <2> QED
      BY <2>2, <2>3, <2>7
  <1>3. g = [m \in DOMAIN parts |-> {m} \cup UNION {g[k] : k \in parts[m]}]
    <2>1. DOMAIN parts = 1..L /\ DOMAIN g = 1..L
      BY <1>1 DEF LeadsTo
    <2> QED
      BY <1>1, <1>2, <2>1
  <1> QED
    BY <1>3

LEMMA ReachedIn ==
    ASSUME NEW parts, NEW L, LeadsTo(parts, L), NEW C, Closed(parts, L, C), NEW n \in C
    PROVE  Reached(parts, n) \subseteq C
  <1> DEFINE g == CHOOSE f : f = [m \in DOMAIN parts |-> {m} \cup UNION {f[k] : k \in parts[m]}]
  <1>1. Reached(parts, n) = g[n]
    BY DEF Reached
  <1>2. g = [m \in DOMAIN parts |-> {m} \cup UNION {g[k] : k \in parts[m]}]
    BY ThereIsReached
  <1> HIDE DEF g
  <1>3. \A m \in C : g[m] \subseteq C
    <2>1. PICK bad : bad = {m \in C : ~(g[m] \subseteq C)}
      OBVIOUS
    <2> SUFFICES ASSUME bad # {} PROVE FALSE
      BY <2>1
    <2>2. L \in Nat /\ bad \subseteq 1..L
      BY <2>1 DEF LeadsTo, Closed
    <2>3. PICK x \in bad : \A y \in bad : x <= y
      BY <2>2, LeastPlace
    <2>4. x \in 1..L /\ x \in C
      BY <2>1, <2>2, <2>3
    <2>5. ASSUME NEW k \in parts[x] PROVE g[k] \subseteq C
      <3>1. k \in 1..(x - 1) /\ k \in C
        BY <2>4 DEF LeadsTo, Closed
      <3>2. ~(x <= k)
        BY <2>4, <3>1
      <3> QED
        BY <2>1, <2>3, <3>1, <3>2
    <2>6. g[x] = {x} \cup UNION {g[k] : k \in parts[x]}
      BY <1>2, <2>4 DEF LeadsTo
    <2> QED
      BY <2>1, <2>3, <2>4, <2>5, <2>6
  <1> QED
    BY <1>1, <1>3

\* A set of nodes with what they are made of.
LEMMA WalkedIn ==
    ASSUME NodesFit(nodes), NEW C, C \subseteq 1..Len(nodes),
           \A m \in C : \A f \in DOMAIN nodes[m] \ Plain : ToSet(nodes[m][f]) \subseteq C,
           NEW n \in C
    PROVE  Walked(n) \subseteq C /\ Reached(Children, n) \subseteq C
  <1>1. PICK L \in Nat : L = Len(nodes)
    BY DEF NodesFit
  <1>2. DOMAIN nodes = 1..L
    BY <1>1, Sequence DEF NodesFit
  <1>3. \A m \in 1..L : \A f \in DOMAIN nodes[m] \ Plain : ToSet(nodes[m][f]) \subseteq 1..(m - 1)
    <2> SUFFICES ASSUME NEW m \in 1..L, NEW f \in DOMAIN nodes[m] \ Plain PROVE ToSet(nodes[m][f]) \subseteq 1..(m - 1)
      OBVIOUS
    <2>1. nodes[m][f] \in Seq(1..(m - 1))
      BY <1>1 DEF NodesFit
    <2> QED
      BY <2>1, SequenceOfItsElements
  <1>4. \A m \in 1..L : WalkedFields(nodes[m].t) \subseteq DOMAIN nodes[m] \ Plain
    BY <1>1 DEF NodesFit
  <1>5. Walked(n) \subseteq C
    <2>1. LeadsTo(WalkedParts, L)
      BY <1>2, <1>3, <1>4 DEF LeadsTo, WalkedParts
    <2>2. Closed(WalkedParts, L, C)
      <3>1. \A m \in C : WalkedParts[m] \subseteq C
        BY <1>1, <1>2, <1>4 DEF WalkedParts
      <3> QED
        BY <1>1, <3>1 DEF Closed
    <2> QED
      BY <2>1, <2>2, ReachedIn DEF Walked
  <1>6. Reached(Children, n) \subseteq C
    <2>1. LeadsTo(Children, L)
      BY <1>2, <1>3 DEF LeadsTo, Children
    <2>2. Closed(Children, L, C)
      <3>1. \A m \in C : Children[m] \subseteq C
        BY <1>1, <1>2 DEF Children
      <3> QED
        BY <1>1, <3>1 DEF Closed
    <2> QED
      BY <2>1, <2>2, ReachedIn
  <1> QED
    BY <1>5, <1>6

\* What is owned, with what it is made of.
LEMMA OwnedIn ==
    ASSUME NodesFit(nodes), NEW F, NEW lo, NEW hi, NEW n \in Best(nodes, F, lo, hi)
    PROVE  Walked(n) \subseteq Best(nodes, F, lo, hi) /\ Reached(Children, n) \subseteq Best(nodes, F, lo, hi)
  <1>1. PICK C : C = Best(nodes, F, lo, hi)
    OBVIOUS
  <1>2. Whole(nodes, F, C)
    BY <1>1, BestIsWhole
  <1>3. /\ C \subseteq 1..Len(nodes) /\ n \in C
        /\ \A m \in C : \A f \in DOMAIN nodes[m] \ Plain : ToSet(nodes[m][f]) \subseteq C
    BY <1>1, <1>2 DEF Whole
  <1> QED
    BY <1>1, <1>3, WalkedIn

-----------------------------------------------------------------------------
(***************************************************************************)
(* What a call returns.                                                    *)
(***************************************************************************)
LEMMA ReturnsFits ==
    ASSUME NEW N, NEW F, NEW mode, NEW p, NEW v, NEW shape, NEW lo, NEW hi, Bounds(N, lo, hi), p.mode = mode,
           ValueFits(N, F, mode, v, shape, lo, hi), Returns(p, shape)
    PROVE  Answers(N, F, mode, v, p.gives, lo)
  <1>1. CASE p.gives = "plain"
    BY <1>1 DEF Answers
  <1>2. CASE shape \in NodeShapes
    <2>1. shape \in ListShapes
      BY <1>2 DEF NodeShapes, ListShapes
    <2>2. IsOne(Len(N), v) /\ (mode # "failed" => Owned(N, F, v, lo, Len(N)))
      BY <1>2, <2>1, ListValue
    <2> QED
      BY <2>2 DEF Answers
  <1>3. CASE mode = "failed" /\ shape \in {"maybe", "null"}
    BY <1>3 DEF Answers, ValueFits, HasShape
  <1> QED
    BY <1>1, <1>2, <1>3 DEF Returns

\* The last and the first of what is held.
LEMMA HeldEnds ==
    ASSUME NEW N, NEW F, NEW mode, NEW p, NEW held, NEW lo, NEW hi, Begun(N, F, mode, p, held, lo, hi), p.shapes # <<>>
    PROVE  /\ ValueFits(N, F, mode, Last(held), p.shapes[Len(p.shapes)], lo, hi)
           /\ ValueFits(N, F, mode, held[1], p.shapes[1], lo, hi)
  <1>1. PICK n \in Nat : n = Len(p.shapes)
    BY DEF Begun
  <1>2. n > 0 /\ Len(held) = n
    BY <1>1 DEF Begun
  <1>3. \A i \in 1..n : ValueFits(N, F, mode, held[i], p.shapes[i], lo, hi)
    BY <1>1, HeldIs DEF Begun
  <1>4. n \in 1..n /\ 1 \in 1..n
    BY <1>2
  <1> QED
    BY <1>1, <1>2, <1>3, <1>4 DEF Last

LEMMA AnswerQuit ==
    ASSUME CodeFits, NEW N, NEW F, NEW mode, NEW p, NEW held, NEW lo, NEW hi, Ready(N, F, mode, p, held, lo, hi),
           Head(p.rest).do = "quit"
    PROVE  Answers(N, F, mode, Last(held), p.gives, lo)
  <1>0. Begun(N, F, mode, p, held, lo, hi)
    BY Begins
  <1>1. Found(p, "quit") /\ Bounds(N, lo, hi) /\ p.mode = mode
    BY <1>0 DEF Begun
  <1>2. p.shapes # <<>> /\ Returns(p, p.shapes[Len(p.shapes)])
    BY <1>1 DEF Found, FitsQuit
  <1>3. ValueFits(N, F, mode, Last(held), p.shapes[Len(p.shapes)], lo, hi)
    BY <1>0, <1>2, HeldEnds
  <1> QED
    BY ONLY <1>1, <1>2, <1>3, ReturnsFits

\* Left is the answer where there is no result and all is well.
LEMMA AnswerAnswer ==
    ASSUME CodeFits, NEW N, NEW F, NEW mode, NEW p, NEW held, NEW lo, NEW hi, Ready(N, F, mode, p, held, lo, hi),
           Head(p.rest).do = "answer", NEW well \in BOOLEAN, mode # "failed" => well, NEW v,
           v = IF Last(held) = Null /\ well THEN held[1] ELSE Last(held)
    PROVE  Answers(N, F, mode, v, p.gives, lo)
  <1>0. Begun(N, F, mode, p, held, lo, hi)
    BY Begins
  <1>1. Found(p, "answer") /\ Bounds(N, lo, hi) /\ p.mode = mode
    BY <1>0 DEF Begun
  <1>2. /\ p.shapes # <<>> /\ Returns(p, p.shapes[1])
        /\ p.shapes[Len(p.shapes)] = "null" \/ Returns(p, p.shapes[Len(p.shapes)])
    BY <1>1 DEF Found, FitsAnswer
  <1>3. PICK a : a = Last(held)
    OBVIOUS
  <1>4. PICK b : b = held[1]
    OBVIOUS
  <1>5. /\ ValueFits(N, F, mode, a, p.shapes[Len(p.shapes)], lo, hi)
        /\ ValueFits(N, F, mode, b, p.shapes[1], lo, hi)
    BY <1>0, <1>2, <1>3, <1>4, HeldEnds
  <1>6. Answers(N, F, mode, b, p.gives, lo)
    BY ONLY <1>1, <1>2, <1>5, ReturnsFits
  <1>7. CASE Returns(p, p.shapes[Len(p.shapes)])
    <2>1. Answers(N, F, mode, a, p.gives, lo)
      BY ONLY <1>1, <1>5, <1>7, ReturnsFits
    <2> QED
      BY <1>3, <1>4, <1>6, <2>1
  <1>8. CASE p.shapes[Len(p.shapes)] = "null"
    <2>1. a = Null
      BY <1>5, <1>8 DEF ValueFits, HasShape
    <2>2. mode = "failed" => Answers(N, F, mode, a, p.gives, lo)
      BY <2>1 DEF Answers
    <2> QED
      BY <1>3, <1>4, <1>6, <2>1, <2>2
  <1> QED
    BY <1>2, <1>7, <1>8

LEMMA AnswerUnwrap ==
    ASSUME CodeFits, NEW N, NEW F, NEW mode, NEW p, NEW held, NEW lo, NEW hi, Ready(N, F, mode, p, held, lo, hi),
           Head(p.rest).do = "unwrap", Len(Last(held)) = 1
    PROVE  Answers(N, F, mode, Last(held), p.gives, lo)
  <1>0. Begun(N, F, mode, p, held, lo, hi)
    BY Begins
  <1>1. Found(p, "unwrap") /\ Bounds(N, lo, hi)
    BY <1>0 DEF Begun
  <1>2. p.shapes # <<>> /\ p.shapes[Len(p.shapes)] \in ListShapes
    BY <1>1 DEF Found, FitsUnwrap
  <1>3. PICK v : v = Last(held)
    OBVIOUS
  <1>4. PICK shape : shape = p.shapes[Len(p.shapes)]
    OBVIOUS
  <1>5. ValueFits(N, F, mode, v, shape, lo, hi)
    BY <1>0, <1>2, <1>3, <1>4, HeldEnds
  <1>6. v \in Seq(1..Len(N)) /\ (mode # "failed" => Owned(N, F, v, lo, Len(N)))
    BY <1>1, <1>2, <1>4, <1>5, ListValue
  <1>7. IsOne(Len(N), v)
    <2>1. v = <<v[1]>> /\ v[1] \in 1..Len(N)
      BY <1>3, <1>6
    <2> QED
      BY <2>1 DEF IsOne
  <1> QED
    BY <1>3, <1>6, <1>7 DEF Answers

LEMMA AnswerNull ==
    ASSUME NEW N, NEW F, NEW gives, NEW lo
    PROVE  Answers(N, F, "failed", Null, gives, lo)
  BY DEF Answers

-----------------------------------------------------------------------------
(***************************************************************************)
(* What is destroyed.                                                      *)
(***************************************************************************)
LEMMA FreesSome ==
    ASSUME NodesFit(nodes), NEW walked, walked \subseteq 1..Len(nodes)
    PROVE  Frees(walked) \subseteq walked \ {1}
  <1>1. nodes[1].t = "empty"
    BY DEF NodesFit
  <1> QED
    BY <1>1 DEF Frees

LEMMA AllWalkedIn ==
    ASSUME NodesFit(nodes), NEW held, NEW places, NEW C, C \subseteq 1..Len(nodes),
           \A m \in C : \A f \in DOMAIN nodes[m] \ Plain : ToSet(nodes[m][f]) \subseteq C,
           \A i \in places : ToSet(held[i]) \subseteq C
    PROVE  AllWalked(held, places) \subseteq C
  <1>1. \A n \in C : Walked(n) \subseteq C
    BY WalkedIn
  <1>2. \A n \in UNION {ToSet(held[i]) : i \in places} : n \in C
    OBVIOUS
  <1> QED
    BY <1>1, <1>2 DEF AllWalked

\* Lists of nodes.
LEMMA FreedIsThere ==
    ASSUME NodesFit(nodes), NEW F, F \subseteq 2..Len(nodes), NEW mode, NEW p, NEW held, NEW lo, NEW hi,
           Begun(nodes, F, mode, p, held, lo, hi), FitsFree(p), NEW places, places = Head(p.rest).frees
    PROVE  F \cup Frees(AllWalked(held, places)) \subseteq 2..Len(nodes)
  <1>1. PICK L \in Nat : L = Len(nodes)
    BY DEF NodesFit
  <1>2. \A m \in 1..L : \A f \in DOMAIN nodes[m] \ Plain : ToSet(nodes[m][f]) \subseteq 1..L
    <2> SUFFICES ASSUME NEW m \in 1..L, NEW f \in DOMAIN nodes[m] \ Plain PROVE ToSet(nodes[m][f]) \subseteq 1..L
      OBVIOUS
    <2>1. nodes[m][f] \in Seq(1..(m - 1))
      BY <1>1 DEF NodesFit
    <2>2. ToSet(nodes[m][f]) \subseteq 1..(m - 1)
      BY <2>1, SequenceOfItsElements
    <2> QED
      BY <2>2
  <1>3. \A i \in places : ToSet(held[i]) \subseteq 1..L
    <2> SUFFICES ASSUME NEW i \in places PROVE ToSet(held[i]) \subseteq 1..L
      OBVIOUS
    <2>1. i \in 1..Len(p.shapes) /\ p.shapes[i] \in ListShapes
      BY DEF FitsFree
    <2>2. PICK v : v = held[i]
      OBVIOUS
    <2>3. PICK shape : shape = p.shapes[i]
      OBVIOUS
    <2>4. ValueFits(nodes, F, mode, v, shape, lo, hi) /\ Bounds(nodes, lo, hi)
      BY <2>1, <2>2, <2>3, HeldIs DEF Begun
    <2>5. v \in Seq(1..Len(nodes))
      BY <2>1, <2>3, <2>4, ListValue
    <2> QED
      BY <1>1, <2>2, <2>5, SequenceOfItsElements
  <1>4. PICK walked : walked = AllWalked(held, places)
    OBVIOUS
  <1>5. walked \subseteq 1..Len(nodes)
    BY <1>1, <1>2, <1>3, <1>4, AllWalkedIn
  <1>6. Frees(walked) \subseteq walked \ {1}
    BY <1>5, FreesSome
  <1>7. walked \ {1} \subseteq 2..Len(nodes)
    BY <1>1, <1>5
  <1> QED
    BY <1>4, <1>6, <1>7

\* While all is well what is destroyed is what was just made.
LEMMA FreedIsFresh ==
    ASSUME NodesFit(nodes), NEW F, NEW mode, mode # "failed", NEW p, NEW held, NEW lo, NEW hi,
           Begun(nodes, F, mode, p, held, lo, hi), FitsDestroy(p), NEW places, places = Head(p.rest).frees
    PROVE  Frees(AllWalked(held, places)) \cap ({1} \cup (1..hi)) = {}
  <1>1. PICK C : C = Best(nodes, F, hi, Len(nodes))
    OBVIOUS
  <1>2. Whole(nodes, F, C) /\ C \subseteq {1} \cup ((hi + 1)..Len(nodes))
    BY <1>1, BestIsWhole
  <1>3. \A i \in places : ToSet(held[i]) \subseteq C
    <2> SUFFICES ASSUME NEW i \in places PROVE ToSet(held[i]) \subseteq C
      OBVIOUS
    <2>1. i \in 1..Len(p.shapes) /\ p.shapes[i] = "fresh"
      BY DEF FitsDestroy, FitsFree, Begun
    <2>2. PICK v : v = held[i]
      OBVIOUS
    <2>3. ValueFits(nodes, F, mode, v, "fresh", lo, hi)
      BY <2>1, <2>2, HeldIs DEF Begun
    <2>4. Owned(nodes, F, v, hi, Len(nodes))
      BY <2>3 DEF ValueFits
    <2> QED
      BY <1>1, <2>2, <2>4 DEF Owned
  <1>4. PICK walked : walked = AllWalked(held, places)
    OBVIOUS
  <1>5. walked \subseteq C
    <2>1. /\ C \subseteq 1..Len(nodes)
          /\ \A m \in C : \A f \in DOMAIN nodes[m] \ Plain : ToSet(nodes[m][f]) \subseteq C
      BY <1>2 DEF Whole
    <2> QED
      BY <1>3, <1>4, <2>1, AllWalkedIn
  <1>6. walked \subseteq 1..Len(nodes)
    BY <1>2, <1>5 DEF Whole
  <1>7. Frees(walked) \subseteq walked \ {1}
    BY <1>6, FreesSome
  <1>8. hi \in Nat /\ Len(nodes) \in Nat
    BY DEF Begun, Bounds
  <1>9. ((hi + 1)..Len(nodes)) \cap (1..hi) = {}
    BY <1>8
  <1> QED
    BY <1>2, <1>4, <1>5, <1>7, <1>9

LEMMA StepDestroy ==
    ASSUME CodeFits, NodesFit(nodes), NEW F, NEW mode, NEW p, NEW held, NEW lo, NEW hi,
           Ready(nodes, F, mode, p, held, lo, hi), Head(p.rest).do = "destroy",
           NEW G, G = F \cup Frees(AllWalked(held, Head(p.rest).frees))
    PROVE  /\ mode # "failed" => G \cap ({1} \cup (1..hi)) \subseteq F
           /\ Steps(nodes, G, mode, p, lo, hi, Tail(p.rest), held)
  <1>0. Begun(nodes, F, mode, p, held, lo, hi)
    BY Begins
  <1>1. /\ Led(p, "destroy") /\ Found(p, "destroy") /\ Bounds(nodes, lo, hi) /\ p.mode = mode /\ p.waits = FALSE
        /\ HeldFits(nodes, F, mode, held, Settled(p.shapes), lo, Len(nodes))
        /\ HeldFits(nodes, F, mode, held, p.shapes, lo, hi)
    BY <1>0 DEF Begun
  <1>2. FitsDestroy(p) /\ FitsFree(p)
    BY <1>1 DEF Found, FitsDestroy
  <1>3. lo \in Nat /\ hi \in Nat /\ Len(nodes) \in Nat /\ lo <= hi /\ hi <= Len(nodes)
    BY <1>1 DEF Bounds
  <1>4. Extends(nodes, nodes)
    BY <1>3 DEF Extends
  <1>5. CASE mode = "failed"
    <2>1. PICK u : u = Settled(p.shapes)
      OBVIOUS
    <2>2. HeldFits(nodes, F, mode, held, u, lo, Len(nodes))
      BY <1>1, <2>1
    <2>3. \A i \in 1..Len(u) : u[i] # "fresh"
      <3>1. Len(u) = Len(p.shapes) /\ \A i \in 1..Len(p.shapes) : u[i] = IF p.shapes[i] = "fresh" THEN "some" ELSE p.shapes[i]
        BY <1>0, <2>1 DEF Begun
      <3> QED
        BY <3>1
    <2>4. Bounds(nodes, lo, Len(nodes))
      BY <1>3 DEF Bounds
    <2>5. HeldFits(nodes, G, "failed", held, u, lo, Len(nodes))
      BY <1>3, <1>4, <1>5, <2>2, <2>3, <2>4, HeldKeeps
    <2>6. Goes(p, Tail(p.rest), u) \in Table
      BY <1>1, <1>5, <2>1 DEF Led, AfterDestroy, Past
    <2>7. PICK q : q = Goes(p, Tail(p.rest), u)
      OBVIOUS
    <2>8. q \in Table /\ q.waits = FALSE /\ q.gives = p.gives /\ q.mode = mode /\ q.rest = Tail(p.rest) /\ q.shapes = u
      BY <1>1, <2>6, <2>7 DEF Goes, Point
    <2>9. Steps(nodes, G, mode, p, lo, hi, Tail(p.rest), held)
      <3>1. PICK high \in Nat : high = Len(nodes)
        BY <1>3
      <3>2. hi <= high /\ high <= Len(nodes) /\ HeldFits(nodes, G, mode, held, q.shapes, lo, high)
        BY <1>3, <1>5, <2>5, <2>8, <3>1
      <3> QED
        BY ONLY <2>8, <3>1, <3>2 DEF Steps
    <2> QED
      BY <1>5, <2>9
  <1>6. CASE mode # "failed"
    <2>1. G \cap ({1} \cup (1..hi)) \subseteq F
      <3>1. Frees(AllWalked(held, Head(p.rest).frees)) \cap ({1} \cup (1..hi)) = {}
        BY <1>0, <1>2, <1>6, FreedIsFresh
      <3> QED
        BY <3>1
    <2>2. PICK u : u = [i \in DOMAIN p.shapes |-> IF i \in Head(p.rest).frees THEN "dead" ELSE p.shapes[i]]
      OBVIOUS
    <2>3. /\ IsSeq(held) /\ Len(held) = Len(p.shapes) /\ Len(p.shapes) \in Nat /\ DOMAIN p.shapes = 1..Len(p.shapes)
          /\ \A i \in 1..Len(p.shapes) : p.shapes[i] \in Shapes /\ ValueFits(nodes, F, mode, held[i], p.shapes[i], lo, hi)
      BY ONLY <1>1, HeldIs
    <2>4. PICK n \in Nat : n = Len(p.shapes)
      BY <2>3
    <2>5. u \in [1..n -> Shapes]
      BY <2>2, <2>3, <2>4 DEF Shapes
    <2>6. IsSeq(u) /\ Len(u) = n
      BY <2>5, Listed
    <2>7. Best(nodes, F, lo, hi) \subseteq Best(nodes, G, lo, hi)
      <3>1. G \cap ({1} \cup ((lo + 1)..hi)) \subseteq F
        <4>1. (lo + 1)..hi \subseteq 1..hi
          BY <1>3
        <4> QED
          BY <2>1, <4>1
      <3> QED
        BY <1>3, <1>4, <3>1, BestGrows
    <2>8. ASSUME NEW i \in 1..n PROVE u[i] \in Shapes /\ ValueFits(nodes, G, mode, held[i], u[i], lo, hi)
      <3>1. ValueFits(nodes, F, mode, held[i], p.shapes[i], lo, hi) /\ p.shapes[i] \in Shapes
        BY <2>3, <2>4
      <3>2. u[i] = IF i \in Head(p.rest).frees THEN "dead" ELSE p.shapes[i]
        BY <2>2, <2>3, <2>4
      <3>3. p.shapes[i] = "fresh" <=> i \in Head(p.rest).frees
        BY <1>1, <1>2, <1>6, <2>4 DEF FitsDestroy
      <3>4. CASE i \in Head(p.rest).frees
        <4>1. IsOne(Len(nodes), held[i])
          BY <3>1, <3>3, <3>4 DEF ValueFits, HasShape
        <4> QED
          BY <3>2, <3>4, <4>1 DEF ValueFits, HasShape, Shapes, ListShapes
      <3>5. CASE i \notin Head(p.rest).frees
        <4>1. u[i] = p.shapes[i] /\ u[i] # "fresh"
          BY <3>2, <3>3, <3>5
        <4> QED
          BY <2>7, <3>1, <4>1 DEF ValueFits, Owned
      <3> QED
        BY <3>4, <3>5
    <2>9. HeldFits(nodes, G, mode, held, u, lo, hi)
      BY <2>3, <2>4, <2>6, <2>8, HeldBy
    <2>10. Goes(p, Tail(p.rest), u) \in Table
      BY <1>1, <1>6, <2>2 DEF Led, AfterDestroy, Past
    <2>11. PICK q : q = Goes(p, Tail(p.rest), u)
      OBVIOUS
    <2>12. q \in Table /\ q.waits = FALSE /\ q.gives = p.gives /\ q.mode = mode /\ q.rest = Tail(p.rest) /\ q.shapes = u
      BY <1>1, <2>10, <2>11 DEF Goes, Point
    <2>13. Steps(nodes, G, mode, p, lo, hi, Tail(p.rest), held)
      <3>1. hi <= hi /\ hi <= Len(nodes) /\ HeldFits(nodes, G, mode, held, q.shapes, lo, hi)
        BY <1>3, <2>9, <2>12
      <3>2. hi \in Nat
        BY <1>3
      <3> QED
        BY ONLY <2>12, <3>1, <3>2 DEF Steps
    <2> QED
      BY <2>1, <2>13
  <1> QED
    BY <1>5, <1>6

LEMMA FreeFits ==
    ASSUME CodeFits, NodesFit(nodes), NEW F, F \subseteq 2..Len(nodes), NEW mode, NEW p, NEW held, NEW lo, NEW hi,
           Ready(nodes, F, mode, p, held, lo, hi), Head(p.rest).do \in {"destroy", "fail", "give up"}
    PROVE  /\ F \cup Frees(AllWalked(held, Head(p.rest).frees)) \subseteq 2..Len(nodes)
           /\ Head(p.rest).do = "fail" => mode = "failed"
           /\ Head(p.rest).do = "give up" => mode \in {"read", "failed"}
  <1>0. Begun(nodes, F, mode, p, held, lo, hi)
    BY Begins
  <1>1. Found(p, Head(p.rest).do) /\ p.mode = mode
    BY <1>0 DEF Begun
  <1>2. FitsFree(p)
    BY <1>1 DEF Found, FitsDestroy, FitsFail, FitsGiveUp
  <1>3. F \cup Frees(AllWalked(held, Head(p.rest).frees)) \subseteq 2..Len(nodes)
    BY <1>0, <1>2, FreedIsThere
  <1> QED
    BY <1>1, <1>3 DEF Found, FitsFail, FitsGiveUp

-----------------------------------------------------------------------------
(***************************************************************************)
(* Calls.                                                                  *)
(***************************************************************************)
\* The last of what is held, and the others.
LEMMA HeldApart ==
    ASSUME NEW N, NEW F, NEW mode, NEW p, NEW held, NEW lo, NEW hi, Begun(N, F, mode, p, held, lo, hi),
           NEW k, k \in 0..Len(p.shapes)
    PROVE  /\ HeldFits(N, F, mode, SubSeq(held, Len(held) - k + 1, Len(held)), LastShapes(p, k), lo, Len(N))
           /\ HeldFits(N, F, mode, SubSeq(held, 1, Len(held) - k), FirstShapes(p, k), lo, Len(N))
  <1>1. PICK t : t = Settled(p.shapes)
    OBVIOUS
  <1>2. HeldFits(N, F, mode, held, t, lo, Len(N)) /\ Len(t) = Len(p.shapes)
    BY <1>1 DEF Begun
  <1>3. k \in 0..Len(t)
    BY <1>2
  <1>4. /\ HeldFits(N, F, mode, SubSeq(held, Len(held) - k + 1, Len(held)), SubSeq(t, Len(t) - k + 1, Len(t)), lo, Len(N))
        /\ HeldFits(N, F, mode, SubSeq(held, 1, Len(held) - k), SubSeq(t, 1, Len(t) - k), lo, Len(N))
    BY ONLY <1>2, <1>3, HeldFirst, HeldLast
  <1>5. LastShapes(p, k) = SubSeq(t, Len(t) - k + 1, Len(t)) /\ FirstShapes(p, k) = SubSeq(t, 1, Len(t) - k)
    BY <1>1, <1>2 DEF LastShapes, FirstShapes
  <1> QED
    BY <1>4, <1>5

LEMMA StepReturn ==
    ASSUME CodeFits, NEW N, NEW F, NEW mode, NEW p, NEW held, NEW lo, NEW hi, Ready(N, F, mode, p, held, lo, hi),
           Head(p.rest).do = "return", NEW k, k = Head(p.rest).args
    PROVE  Steps(N, F, mode, p, lo, hi, Function[Head(p.rest).fn], SubSeq(held, Len(held) - k + 1, Len(held)))
  <1>0. Begun(N, F, mode, p, held, lo, hi)
    BY Begins
  <1>1. Led(p, "return") /\ Found(p, "return") /\ Bounds(N, lo, hi) /\ p.mode = mode
    BY <1>0 DEF Begun
  <1>2. k \in 0..Len(p.shapes) /\ GivesBack(Head(p.rest).fn) = p.gives
    BY <1>1 DEF Found, FitsReturn, FitsCall
  <1>3. PICK h : h = SubSeq(held, Len(held) - k + 1, Len(held))
    OBVIOUS
  <1>4. PICK q : q = Called(p)
    OBVIOUS
  <1>5. /\ q \in Table /\ q.waits = FALSE /\ q.gives = p.gives /\ q.mode = mode /\ q.rest = Function[Head(p.rest).fn]
        /\ q.shapes = LastShapes(p, k)
    BY <1>1, <1>2, <1>4 DEF Led, AfterReturn, Called, Point
  <1>6. HeldFits(N, F, mode, h, q.shapes, lo, Len(N))
    BY <1>0, <1>2, <1>3, <1>5, HeldApart
  <1>7. Steps(N, F, mode, p, lo, hi, Function[Head(p.rest).fn], h)
    <2>1. PICK high \in Nat : high = Len(N)
      BY <1>1 DEF Bounds
    <2>2. hi <= high /\ high <= Len(N) /\ HeldFits(N, F, mode, h, q.shapes, lo, high)
      BY <1>1, <1>6, <2>1 DEF Bounds
    <2> QED
      BY ONLY <1>5, <2>1, <2>2 DEF Steps
  <1> QED
    BY <1>3, <1>7

\* A call that waits for one: the places of both.
Calls(N, F, mode, p, c, w, low, values, held, lo) ==
    /\ c \in Table /\ c.waits = FALSE /\ c.mode = mode
    /\ w \in Table /\ w.waits = TRUE /\ w.mode = mode /\ w.gives = p.gives /\ w.rest = p.rest
    /\ c.gives = GivesBack(Head(w.rest).fn) /\ c.rest = Function[Head(p.rest).fn]
    /\ low \in Nat /\ lo <= low /\ low <= Len(N) /\ (Head(w.rest).args = 0 => low = Len(N))
    /\ HeldFits(N, F, mode, values, c.shapes, low, Len(N))
    /\ HeldFits(N, F, mode, held, w.shapes, lo, Len(N))

LEMMA CallsFit ==
    ASSUME CodeFits, NEW N, NEW F, NEW mode, NEW p, NEW held, NEW lo, NEW hi, Ready(N, F, mode, p, held, lo, hi),
           Head(p.rest).do = "call", NEW k, k = Head(p.rest).args
    PROVE  \E low : Calls(N, F, mode, p, Called(p), Waiting(p), low, SubSeq(held, Len(held) - k + 1, Len(held)),
                          SubSeq(held, 1, Len(held) - k), lo)
  <1>0. Begun(N, F, mode, p, held, lo, hi)
    BY Begins
  <1>1. Led(p, "call") /\ Found(p, "call") /\ Bounds(N, lo, hi) /\ p.mode = mode
    BY <1>0 DEF Begun
  <1>2. k \in 0..Len(p.shapes)
    BY <1>1 DEF Found, FitsCall
  <1>3. PICK values : values = SubSeq(held, Len(held) - k + 1, Len(held))
    OBVIOUS
  <1>4. PICK others : others = SubSeq(held, 1, Len(held) - k)
    OBVIOUS
  <1>5. PICK c : c = Called(p)
    OBVIOUS
  <1>6. PICK w : w = Waiting(p)
    OBVIOUS
  <1>7. /\ c \in Table /\ c.waits = FALSE /\ c.mode = mode
        /\ w \in Table /\ w.waits = TRUE /\ w.mode = mode /\ w.gives = p.gives /\ w.rest = p.rest
        /\ c.gives = GivesBack(Head(w.rest).fn) /\ c.rest = Function[Head(p.rest).fn]
        /\ c.shapes = LastShapes(p, k) /\ w.shapes = FirstShapes(p, k) /\ Head(w.rest).args = k
    BY <1>1, <1>5, <1>6 DEF Led, AfterCall, Called, Waiting, Point
  <1>8. /\ HeldFits(N, F, mode, values, c.shapes, lo, Len(N))
        /\ HeldFits(N, F, mode, others, w.shapes, lo, Len(N))
    BY <1>0, <1>2, <1>3, <1>4, <1>7, HeldApart
  <1>9. PICK low \in Nat : low = IF k = 0 THEN Len(N) ELSE lo
    BY <1>1 DEF Bounds
  <1>10. lo <= low /\ low <= Len(N) /\ (k = 0 => low = Len(N))
    BY <1>1, <1>9 DEF Bounds
  <1>11. HeldFits(N, F, mode, values, c.shapes, low, Len(N))
    <2>1. CASE k # 0
      BY <1>8, <1>9, <2>1
    <2>2. CASE k = 0
      <3>1. IsSeq(held) /\ Len(held) = Len(p.shapes) /\ Len(p.shapes) \in Nat
        BY <1>0, HeldIs DEF Begun
      <3>2. Len(values) = 0
        BY <1>2, <1>3, <2>2, <3>1, Lasts
      <3>3. IsSeq(values) /\ IsSeq(c.shapes) /\ Len(values) = Len(c.shapes)
        BY <1>8, HeldIs
      <3>4. 1..Len(c.shapes) = {}
        BY <3>2, <3>3
      <3> QED
        BY ONLY <3>3, <3>4, HeldBy
    <2> QED
      BY <2>1, <2>2
  <1>12. Calls(N, F, mode, p, c, w, low, values, others, lo)
    BY <1>7, <1>8, <1>9, <1>10, <1>11 DEF Calls
  <1> QED
    BY <1>3, <1>4, <1>5, <1>6, <1>12

LEMMA StepCall ==
    ASSUME CodeFits, NEW s, NEW N, NEW F, NEW mode, NEW places, StackFits(s, N, F, mode, places),
           Head(Head(s).rest).do = "call", NEW k, k = Head(Head(s).rest).args,
           NEW t, t = <<[rest |-> Function[Head(Head(s).rest).fn],
                         held |-> SubSeq(Head(s).held, Len(Head(s).held) - k + 1, Len(Head(s).held))],
                        [Head(s) EXCEPT !.held = SubSeq(Head(s).held, 1, Len(Head(s).held) - k)]>> \o Tail(s)
    PROVE  \E new : StackFits(t, N, F, mode, new)
  <1>1. PICK p : p = places[Len(s)].point
    OBVIOUS
  <1>2. PICK held : held = Head(s).held
    OBVIOUS
  <1>3. PICK lo : lo = places[Len(s)].lo
    OBVIOUS
  <1>4. PICK hi : hi = places[Len(s)].hi
    OBVIOUS
  <1>5. Ready(N, F, mode, p, held, lo, hi) /\ Head(s).rest = p.rest
    BY <1>1, <1>2, <1>3, <1>4, ReadyTop
  <1>6. Head(s) = [rest |-> p.rest, held |-> held]
    <2>1. FrameFits(N, F, mode, At(s, Len(s)), places[Len(s)]) /\ IsSeq(s) /\ Len(s) \in Nat \ {0}
      BY DEF StackFits
    <2>2. At(s, Len(s)) = Head(s)
      BY <2>1, Sequence, InFrontOfTail
    <2> QED
      BY <1>1, <1>2, <2>1, <2>2 DEF FrameFits
  <1>7. PICK values : values = SubSeq(held, Len(held) - k + 1, Len(held))
    OBVIOUS
  <1>8. PICK others : others = SubSeq(held, 1, Len(held) - k)
    OBVIOUS
  <1>9. PICK c : c = Called(p)
    OBVIOUS
  <1>10. PICK w : w = Waiting(p)
    OBVIOUS
  <1>11. PICK low : Calls(N, F, mode, p, c, w, low, values, others, lo)
    BY <1>5, <1>7, <1>8, <1>9, <1>10, CallsFit
  <1>12. [Head(s) EXCEPT !.held = others] = [rest |-> p.rest, held |-> others]
    BY <1>6
  <1>13. PICK u : u = <<[rest |-> c.rest, held |-> values], [rest |-> w.rest, held |-> others]>> \o Tail(s)
    OBVIOUS
  <1>14. t = u
    BY <1>2, <1>5, <1>7, <1>8, <1>11, <1>12, <1>13 DEF Calls
  <1>15. \E new : StackFits(u, N, F, mode, new)
    BY <1>1, <1>3, <1>11, <1>13, Pushed DEF Calls
  <1> QED
    BY <1>14, <1>15

-----------------------------------------------------------------------------
(***************************************************************************)
(* The invariant.                                                          *)
(***************************************************************************)
LexFits ==
    /\ scanning \in {"on", "done", "error", "comment"}
    /\ Len(text) \in Nat /\ position \in 0..Len(text)
    /\ IsSeq(tokens) /\ \A i \in 1..Len(tokens) : Kind(tokens[i]) # "eof"

NumbersFit ==
    /\ next \in 0..Len(tokens) /\ error \in 0..(Len(tokens) + 1)
    /\ quiet \in BOOLEAN /\ errno \in BOOLEAN

HeapFits == NodesFit(nodes) /\ freed \subseteq 2..Len(nodes)

\* There are places for the calls in progress; and nothing goes wrong before
\* something was read.
HasPlaces(s, N, F, mode) == \E places : StackFits(s, N, F, mode, places)
CallsFitted == (Broken => next # 0) /\ HasPlaces(stack, nodes, freed, Mode)

\* The result is one node, with what it is made of, if nothing went wrong.
ResultFits ==
    /\ root = Null \/ IsOne(Len(nodes), root)
    /\ ~Broken => IsOne(Len(nodes), root) /\ Owned(nodes, freed, root, 0, Len(nodes))

ParseFits ==
    /\ parsing \in {"no", "on", "done", "crashed"}
    /\ parsing = "no" => next = 0 /\ error = 0 /\ quiet = FALSE
    /\ parsing # "no" => scanning # "on"
    /\ parsing # "done" => root = Null
    /\ parsing = "on" => CallsFitted
    /\ parsing = "done" => ResultFits

Inv == LexFits /\ NumbersFit /\ HeapFits /\ ParseFits

-----------------------------------------------------------------------------
LEMMA ModeIs ==
    Mode \in Modes /\ (Mode = "failed" <=> Broken)
  BY DEF Mode, Modes

LEMMA ModeAhead ==
    ASSUME LexFits, NumbersFit
    PROVE  AheadFits(Mode, Ahead)
  <1>1. CASE Mode = "none"
    <2>1. tokens = <<>>
      BY <1>1 DEF Mode
    <2>2. Len(tokens) = 0
      BY <2>1
    <2>3. Ahead = "eof"
      BY <2>2 DEF Ahead, KindAt, NumbersFit
    <2> QED
      BY <1>1, <2>3 DEF AheadFits
  <1>2. CASE Mode = "unread"
    <2>1. tokens # <<>> /\ next = 0
      BY <1>2 DEF Mode
    <2>2. Len(tokens) \in Nat /\ Len(tokens) # 0
      BY <2>1, Sequence DEF LexFits
    <2>3. next + 1 = 1 /\ 1 <= Len(tokens) /\ 1 \in 1..Len(tokens)
      BY <2>1, <2>2
    <2>4. Ahead = Kind(tokens[1])
      BY <2>3 DEF Ahead, KindAt
    <2>5. Ahead # "eof"
      BY <2>3, <2>4 DEF LexFits
    <2> QED
      BY <1>2, <2>5 DEF AheadFits
  <1> QED
    BY <1>1, <1>2 DEF AheadFits

\* To read a token.
LEMMA ModeReads ==
    ASSUME LexFits, NumbersFit, Broken => next # 0, ReadTok, UNCHANGED <<tokens, error, quiet>>
    PROVE  /\ Mode' = Reading(Mode) /\ next' \in 0..Len(tokens)
           /\ Broken' => next' # 0
  <1>1. PICK n \in Nat : n = Len(tokens)
    BY Sequence DEF LexFits
  <1>2. next \in 0..n /\ next' = IF next < n THEN next + 1 ELSE next
    BY <1>1 DEF NumbersFit, ReadTok
  <1>3. next' \in 0..n /\ (next # 0 => next' # 0) /\ (n > 0 => next' # 0) /\ (n = 0 => next' = 0)
    BY <1>2
  <1>4. tokens = <<>> <=> n = 0
    BY <1>1, Sequence DEF LexFits
  <1>5. Broken' <=> Broken
    BY DEF Broken
  <1>6. Mode' = IF Broken THEN "failed" ELSE IF tokens = <<>> THEN "none" ELSE IF next' = 0 THEN "unread" ELSE "read"
    BY <1>5 DEF Mode
  <1>7. Mode = IF Broken THEN "failed" ELSE IF tokens = <<>> THEN "none" ELSE IF next = 0 THEN "unread" ELSE "read"
    BY DEF Mode
  <1>8. Mode' = Reading(Mode)
    <2>1. n \in Nat /\ (n # 0 => n > 0)
      OBVIOUS
    <2> QED
      BY <1>3, <1>4, <1>6, <1>7, <2>1 DEF Reading
  <1> QED
    BY <1>1, <1>3, <1>5, <1>8

\* The last call goes on.
LEMMA GoesOn ==
    ASSUME Inv, parsing = "on", UNCHANGED <<text, lexer, root, parsing>>, NumbersFit', HeapFits',
           Broken' => next' # 0, HasPlaces(stack', nodes', freed', Mode')
    PROVE  Inv'
  <1>1. LexFits'
    BY DEF Inv, LexFits, lexer
  <1>2. ParseFits'
    BY DEF Inv, ParseFits, CallsFitted, lexer
  <1> QED
    BY <1>1, <1>2 DEF Inv

\* The last call returns.
LEMMA Gives ==
    ASSUME CodeFits, Inv, parsing = "on", UNCHANGED <<text, lexer, nodes>>, NumbersFit', HeapFits', Broken' => next' # 0,
           NEW places, StackFits(stack, nodes, freed, Mode, places),
           Changes(nodes, freed, Mode, nodes, freed', Mode', places[Len(stack)].hi),
           NEW v, Answers(nodes, freed', Mode', v, places[Len(stack)].point.gives, places[Len(stack)].lo),
           Give(v)
    PROVE  Inv'
  <1>1. LexFits'
    BY DEF Inv, LexFits, lexer
  <1>2. Mode' \in Modes /\ (Mode' = "failed" <=> Broken')
    BY DEF Mode, Modes
  <1>3. CASE Len(stack) = 1
    <2>1. root' = v /\ parsing' = "done"
      BY <1>3 DEF Give
    <2>2. places[1].point.gives = "node"
      BY DEF StackFits
    <2>3. PICK lo : lo = places[1].lo
      OBVIOUS
    <2>4. Answers(nodes, freed', Mode', v, "node", lo)
      BY <1>3, <2>2, <2>3
    <2>5. v = Null \/ IsOne(Len(nodes), v)
      BY <2>4 DEF Answers
    <2>6. ~Broken' => IsOne(Len(nodes), v) /\ Owned(nodes, freed', v, lo, Len(nodes))
      BY <1>2, <2>4 DEF Answers
    <2>7. lo \in Nat /\ Len(nodes) \in Nat
      BY <1>3, <2>3 DEF StackFits, FrameFits, Bounds
    <2>8. Best(nodes, freed', lo, Len(nodes)) \subseteq Best(nodes, freed', 0, Len(nodes))
      <3>1. Extends(nodes, nodes)
        BY <2>7 DEF Extends
      <3> QED
        BY <2>7, <3>1, BestGrows
    <2>9. ResultFits'
      BY <2>1, <2>5, <2>6, <2>8 DEF ResultFits, Owned
    <2> QED
      BY <1>1, <2>1, <2>9 DEF Inv, ParseFits, lexer
  <1>4. CASE Len(stack) # 1
    <2>1. Len(stack) > 1
      <3>1. PICK n \in Nat \ {0} : n = Len(stack)
        BY DEF StackFits
      <3>2. n > 1
        BY <1>4, <3>1
      <3> QED
        BY <3>1, <3>2
    <2>2. /\ stack' = <<IF Head(stack[2].rest).check # <<>> /\ v = Null
                        THEN [stack[2] EXCEPT !.rest = Head(stack[2].rest).check \o Tail(@)]
                        ELSE [rest |-> Tail(stack[2].rest), held |-> Append(stack[2].held, v)]>> \o Tail(Tail(stack))
          /\ UNCHANGED <<root, parsing>>
      BY <1>4 DEF Give
    <2>3. \E new : StackFits(stack', nodes, freed', Mode', new)
      BY ONLY CodeFits, <1>2, <2>1, <2>2, StackFits(stack, nodes, freed, Mode, places),
              Changes(nodes, freed, Mode, nodes, freed', Mode', places[Len(stack)].hi),
              Answers(nodes, freed', Mode', v, places[Len(stack)].point.gives, places[Len(stack)].lo), Popped
    <2>4. HasPlaces(stack', nodes', freed', Mode')
      BY <2>3 DEF HasPlaces
    <2> QED
      BY <2>2, <2>4, GoesOn
  <1> QED
    BY <1>3, <1>4

\* Where the last call is.
Here(places, p, lo, hi) ==
    /\ StackFits(stack, nodes, freed, Mode, places)
    /\ p = places[Len(stack)].point /\ lo = places[Len(stack)].lo /\ hi = places[Len(stack)].hi
    /\ Ready(nodes, freed, Mode, p, Held, lo, hi) /\ Top.rest = p.rest

LEMMA IsHere ==
    ASSUME Inv, parsing = "on"
    PROVE  \E places, p, lo, hi : Here(places, p, lo, hi)
  <1>1. PICK places : StackFits(stack, nodes, freed, Mode, places)
    BY DEF Inv, ParseFits, CallsFitted, HasPlaces
  <1>2. /\ Ready(nodes, freed, Mode, places[Len(stack)].point, Head(stack).held, places[Len(stack)].lo, places[Len(stack)].hi)
        /\ Head(stack).rest = places[Len(stack)].point.rest
    BY <1>1, ReadyTop
  <1>3. Here(places, places[Len(stack)].point, places[Len(stack)].lo, places[Len(stack)].hi)
    BY <1>1, <1>2 DEF Here, Held, Top
  <1> QED
    BY <1>3

LEMMA Moves ==
    ASSUME CodeFits, Inv, parsing = "on", UNCHANGED <<text, lexer, root, parsing, nodes, freed>>,
           NumbersFit', Broken' => next' # 0,
           NEW places, NEW p, NEW lo, NEW hi, Here(places, p, lo, hi), Raised(Mode, Mode'),
           NEW rest, NEW held, Steps(nodes, freed, Mode', p, lo, hi, rest, held), Continue(rest, held)
    PROVE  Inv'
  <1>1. StackFits(stack, nodes, freed, Mode, places)
    BY DEF Here
  <1>2. /\ p = places[Len(stack)].point /\ lo = places[Len(stack)].lo /\ hi = places[Len(stack)].hi
        /\ Bounds(nodes, lo, hi)
    BY DEF Here, Ready
  <1>3. Mode' \in Modes
    BY DEF Mode, Modes
  <1>4. Extends(nodes, nodes) /\ Len(nodes) \in Nat
    BY <1>2 DEF Extends, Bounds
  <1>5. Changes(nodes, freed, Mode, nodes, freed, Mode', hi)
    BY <1>4 DEF Changes
  <1>6. stack' = <<[rest |-> rest, held |-> held]>> \o Tail(stack)
    BY DEF Continue
  <1>7. \E new : StackFits(stack', nodes, freed, Mode', new)
    BY ONLY CodeFits, <1>1, <1>2, <1>3, <1>5, <1>6, Steps(nodes, freed, Mode', p, lo, hi, rest, held), StackSteps
  <1>8. HasPlaces(stack', nodes', freed', Mode')
    BY <1>7 DEF HasPlaces
  <1>9. HeapFits'
    BY DEF Inv, HeapFits
  <1> QED
    BY <1>8, <1>9, GoesOn

\* Where a token is read.
LEMMA Reads ==
    ASSUME CodeFits, Inv, parsing = "on", UNCHANGED <<text, lexer, root, parsing, nodes, freed, error, quiet>>,
           errno' \in BOOLEAN, ReadTok,
           NEW places, NEW p, NEW lo, NEW hi, Here(places, p, lo, hi),
           NEW rest, NEW held, Steps(nodes, freed, Reading(Mode), p, lo, hi, rest, held), Continue(rest, held)
    PROVE  Inv'
  <1>1. LexFits /\ NumbersFit /\ (Broken => next # 0)
    BY DEF Inv, ParseFits, CallsFitted
  <1>2. tokens' = tokens
    BY DEF lexer
  <1>3. Mode' = Reading(Mode) /\ next' \in 0..Len(tokens) /\ (Broken' => next' # 0)
    BY <1>1, <1>2, ModeReads
  <1>4. NumbersFit'
    BY <1>1, <1>2, <1>3 DEF NumbersFit
  <1>5. Raised(Mode, Mode')
    BY <1>3 DEF Raised, Reading
  <1> QED
    BY <1>3, <1>4, <1>5, Moves

LEMMA ReadTokenKeeps ==
    ASSUME CodeFits, Inv, ReadToken, UNCHANGED <<text, lexer>>
    PROVE  Inv'
  <1>1. parsing = "on"
    BY DEF ReadToken, Does
  <1>2. PICK places, p, lo, hi : Here(places, p, lo, hi)
    BY <1>1, IsHere
  <1>3. Ready(nodes, freed, Mode, p, Held, lo, hi) /\ Head(p.rest) = Now /\ Tail(p.rest) = Later
    BY <1>2 DEF Here, Now, Later
  <1>4. Head(p.rest).do = "take" /\ Continue(Tail(p.rest), Held)
    BY <1>3 DEF ReadToken, Does, GoOn
  <1>5. Steps(nodes, freed, Reading(Mode), p, lo, hi, Tail(p.rest), Held)
    BY <1>3, <1>4, StepTake
  <1>6. errno' \in BOOLEAN /\ ReadTok /\ UNCHANGED <<text, lexer, root, parsing, nodes, freed, error, quiet>>
    BY DEF ReadToken, Inv, NumbersFit
  <1> QED
    BY <1>1, <1>2, <1>4, <1>5, <1>6, Reads

LEMMA ReadValueKeeps ==
    ASSUME CodeFits, Inv, ReadValue, UNCHANGED <<text, lexer>>
    PROVE  Inv'
  <1>1. parsing = "on"
    BY DEF ReadValue, Does
  <1>2. PICK places, p, lo, hi : Here(places, p, lo, hi)
    BY <1>1, IsHere
  <1>3. Ready(nodes, freed, Mode, p, Held, lo, hi) /\ Head(p.rest) = Now /\ Tail(p.rest) = Later
    BY <1>2 DEF Here, Now, Later
  <1>4. errno' \in BOOLEAN /\ ReadTok /\ UNCHANGED <<text, lexer, root, parsing, nodes, freed, error, quiet>>
    BY DEF ReadValue, Inv, NumbersFit
  <1>5. \E held : Continue(Tail(p.rest), held) /\ Steps(nodes, freed, Reading(Mode), p, lo, hi, Tail(p.rest), held)
    <2>1. CASE Now.do = "take name"
      <3>1. Continue(Tail(p.rest), Append(Held, Val))
        BY <1>3, <2>1 DEF ReadValue, Hold
      <3>2. Steps(nodes, freed, Reading(Mode), p, lo, hi, Tail(p.rest), Append(Held, Val))
        BY <1>3, <2>1, StepValue
      <3> QED
        BY <3>1, <3>2
    <2>2. CASE Now.do = "take op"
      <3>1. Continue(Tail(p.rest), Append(Held, Operation[Ahead]))
        BY <1>3, <2>2 DEF ReadValue, Hold
      <3>2. Steps(nodes, freed, Reading(Mode), p, lo, hi, Tail(p.rest), Append(Held, Operation[Ahead]))
        BY <1>3, <2>2, StepValue
      <3> QED
        BY <3>1, <3>2
    <2>3. CASE Now.do = "take component"
      <3>1. PICK v : Continue(Tail(p.rest), Append(SubSeq(Held, 1, Len(Held) - 1), v))
        BY <1>3, <2>3 DEF ReadValue, Without
      <3>2. Steps(nodes, freed, Reading(Mode), p, lo, hi, Tail(p.rest), Append(SubSeq(Held, 1, Len(Held) - 1), v))
        BY <1>3, <2>3, StepComponent
      <3> QED
        BY <3>1, <3>2
    <2> QED
      BY <2>1, <2>2, <2>3 DEF ReadValue, Does
  <1> QED
    BY <1>1, <1>2, <1>4, <1>5, Reads

LEMMA ReadIntegerKeeps ==
    ASSUME CodeFits, Inv, ReadInteger, UNCHANGED <<text, lexer>>
    PROVE  Inv'
  <1>1. parsing = "on"
    BY DEF ReadInteger, Does
  <1>2. PICK places, p, lo, hi : Here(places, p, lo, hi)
    BY <1>1, IsHere
  <1>3. Ready(nodes, freed, Mode, p, Held, lo, hi) /\ Head(p.rest) = Now /\ Tail(p.rest) = Later
    BY <1>2 DEF Here, Now, Later
  <1>4. ReadTok /\ UNCHANGED <<text, lexer, root, parsing, nodes, freed, error, quiet>>
    BY DEF ReadInteger
  <1>5. errno' \in BOOLEAN
    BY DEF ReadInteger
  <1>6. Head(p.rest).do = "take integer"
    BY <1>3 DEF ReadInteger, Does
  <1>7. CASE errno'
    <2>1. Continue(Error({}), Held)
      BY <1>7 DEF ReadInteger, GoOn
    <2>2. Steps(nodes, freed, Reading(Mode), p, lo, hi, Error({}), Held)
      BY <1>3, <1>6, StepInteger
    <2> QED
      BY <1>1, <1>2, <1>4, <1>5, <2>1, <2>2, Reads
  <1>8. CASE ~errno'
    <2>1. PICK v : v = IntegerOf(Val)
      OBVIOUS
    <2>2. Continue(Tail(p.rest), Append(Held, v))
      BY <1>3, <1>8, <2>1 DEF ReadInteger, Hold
    <2>3. Steps(nodes, freed, Reading(Mode), p, lo, hi, Tail(p.rest), Append(Held, v))
      BY <1>3, <1>6, StepInteger
    <2> QED
      BY <1>1, <1>2, <1>4, <1>5, <2>2, <2>3, Reads
  <1> QED
    BY <1>7, <1>8

LEMMA MinimumIn ==
    ASSUME NEW n \in Nat, NEW S, S \subseteq 0..n, S # {}
    PROVE  Minimum(S) \in S
  <1>1. PICK up : up = {x + 1 : x \in S}
    OBVIOUS
  <1>2. up \subseteq 1..(n + 1) /\ up # {} /\ n + 1 \in Nat
    <2>1. ASSUME NEW x \in 0..n PROVE x + 1 \in 1..(n + 1)
      OBVIOUS
    <2>2. up # {}
      BY <1>1
    <2> QED
      BY <1>1, <2>1, <2>2
  <1>3. PICK y \in up : \A z \in up : y <= z
    BY <1>2, LeastPlace
  <1>4. PICK x \in S : y = x + 1
    BY <1>1, <1>3
  <1>5. \A z \in S : x <= z
    <2> SUFFICES ASSUME NEW z \in S PROVE x <= z
      OBVIOUS
    <2>1. x + 1 <= z + 1
      BY <1>1, <1>3, <1>4
    <2>2. x \in Nat /\ z \in Nat
      OBVIOUS
    <2> QED
      BY <2>1, <2>2
  <1> QED
    BY <1>4, <1>5 DEF Minimum

\* The tokens of a macro call are there.
LEMMA MacroReads ==
    ASSUME LexFits, NumbersFit, NEW parens, parens = IF Ahead = "(" THEN Closing(next + 1) ELSE {next}, parens # {},
           NEW end, end = Minimum(parens),
           NEW last, last = IF KindAt(end + 1) = "{" THEN LastOfBraces(end + 1) ELSE end
    PROVE  last \in next..Len(tokens)
  <1>1. PICK L \in Nat : L = Len(tokens)
    BY Sequence DEF LexFits
  <1>k. PICK k : k = next
    OBVIOUS
  <1>2. k \in Nat /\ k <= L
    <2>1. k \in 0..L
      BY <1>1, <1>k DEF NumbersFit
    <2> QED
      BY ONLY <1>1, <2>1
  <1>3. parens \subseteq k..L
    <2>1. Closing(next + 1) \subseteq (k + 1)..L
      BY <1>1, <1>k DEF Closing
    <2>2. (k + 1)..L \subseteq k..L /\ k \in k..L
      BY ONLY <1>1, <1>2
    <2> QED
      BY <1>k, <2>1, <2>2
  <1>4. end \in k..L
    <2>1. k..L \subseteq 0..L
      BY ONLY <1>1, <1>2
    <2> QED
      BY <1>1, <1>3, <2>1, MinimumIn
  <1>5. CASE KindAt(end + 1) = "{"
    <2>1. end + 1 <= L
      BY <1>1, <1>5 DEF KindAt
    <2>2. PICK ends : LastOfBraces(end + 1) = Minimum(ends \cup {L}) /\ ends \subseteq (end + 1)..L
      BY <1>1 DEF LastOfBraces
    <2>3. (end + 1)..L \subseteq k..L /\ L \in k..L /\ k..L \subseteq 0..L
      BY ONLY <1>1, <1>2, <1>4
    <2>4. PICK all : all = ends \cup {L}
      OBVIOUS
    <2>5. all \subseteq k..L /\ all \subseteq 0..L /\ all # {}
      BY <2>2, <2>3, <2>4
    <2>6. LastOfBraces(end + 1) \in all
      BY <1>1, <2>2, <2>4, <2>5, MinimumIn
    <2> QED
      BY <1>1, <1>5, <1>k, <2>5, <2>6
  <1> QED
    BY <1>1, <1>4, <1>5, <1>k

LEMMA ReadMacroKeeps ==
    ASSUME CodeFits, Inv, ReadMacro, UNCHANGED <<text, lexer>>
    PROVE  Inv'
  <1>1. parsing = "on"
    BY DEF ReadMacro, Does
  <1>2. PICK places, p, lo, hi : Here(places, p, lo, hi)
    BY <1>1, IsHere
  <1>3. Ready(nodes, freed, Mode, p, Held, lo, hi) /\ Head(p.rest) = Now /\ Tail(p.rest) = Later
    BY <1>2 DEF Here, Now, Later
  <1>4. Head(p.rest).do = "take macro"
    BY <1>3 DEF ReadMacro, Does
  <1>5. UNCHANGED <<text, lexer, errno, error, quiet, nodes, freed, root>>
    BY DEF ReadMacro
  <1>6. PICK parens : parens = IF Ahead = "(" THEN Closing(next + 1) ELSE {next}
    OBVIOUS
  <1>7. CASE parens = {}
    <2>1. parsing' = "crashed" /\ UNCHANGED <<next, stack>>
      BY <1>6, <1>7 DEF ReadMacro
    <2> QED
      BY <1>1, <1>5, <2>1 DEF Inv, LexFits, NumbersFit, HeapFits, ParseFits, lexer
  <1>8. CASE parens # {}
    <2>1. PICK end : end = Minimum(parens)
      OBVIOUS
    <2>2. PICK last : last = IF KindAt(end + 1) = "{" THEN LastOfBraces(end + 1) ELSE end
      OBVIOUS
    <2>3. next' = last /\ (\E v : Hold(v)) /\ UNCHANGED parsing
      BY <1>6, <1>8, <2>1, <2>2 DEF ReadMacro
    <2>4. LexFits /\ NumbersFit /\ (Broken => next # 0)
      BY <1>1 DEF Inv, ParseFits, CallsFitted
    <2>5. last \in next..Len(tokens)
      BY <1>6, <1>8, <2>1, <2>2, <2>4, MacroReads
    <2>6. Mode \in {"read", "failed"}
      <3>1. Begun(nodes, freed, Mode, p, Held, lo, hi)
        BY <1>3, Begins
      <3> QED
        BY <1>4, <3>1 DEF Begun, Found
    <2>7. next # 0 /\ next \in Nat /\ Len(tokens) \in Nat
      <3>1. Len(tokens) \in Nat
        BY <2>4, Sequence DEF LexFits
      <3> QED
        BY <2>4, <2>6, <3>1 DEF Mode, NumbersFit
    <2>8. last # 0 /\ last \in 0..Len(tokens)
      BY <2>5, <2>7
    <2>9. Mode' = Mode /\ (Broken' => next' # 0)
      BY <1>5, <2>3, <2>7, <2>8 DEF Mode, Broken, lexer
    <2>10. NumbersFit'
      BY <1>5, <2>3, <2>4, <2>8 DEF NumbersFit, lexer
    <2>11. PICK v : Continue(Tail(p.rest), Append(Held, v))
      BY <1>3, <2>3 DEF Hold
    <2>12. Steps(nodes, freed, Reading(Mode), p, lo, hi, Tail(p.rest), Append(Held, v))
      BY <1>3, <1>4, StepValue
    <2>13. Reading(Mode) = Mode'
      BY <2>6, <2>9 DEF Reading
    <2>14. Raised(Mode, Mode')
      BY <2>9 DEF Raised
    <2>15. UNCHANGED <<text, lexer, root, parsing, nodes, freed>>
      BY <1>5, <2>3
    <2> QED
      BY <1>1, <1>2, <2>9, <2>10, <2>11, <2>12, <2>13, <2>14, <2>15, Moves
  <1> QED
    BY <1>7, <1>8

\* Where nothing is read.
LEMMA Stays ==
    ASSUME CodeFits, Inv, parsing = "on", UNCHANGED <<text, lexer, next, errno, error, quiet, nodes, freed, root, parsing>>,
           NEW places, NEW p, NEW lo, NEW hi, Here(places, p, lo, hi),
           NEW rest, NEW held, Steps(nodes, freed, Mode, p, lo, hi, rest, held), Continue(rest, held)
    PROVE  Inv'
  <1>1. Mode' = Mode /\ Broken' = Broken
    BY DEF Mode, Broken, lexer
  <1>2. NumbersFit' /\ (Broken' => next' # 0)
    BY <1>1 DEF Inv, NumbersFit, ParseFits, CallsFitted, lexer
  <1>3. Raised(Mode, Mode')
    BY <1>1 DEF Raised
  <1>4. Steps(nodes, freed, Mode', p, lo, hi, rest, held)
    BY <1>1
  <1> QED
    BY <1>2, <1>3, <1>4, Moves

LEMMA ArrangeKeeps ==
    ASSUME CodeFits, Inv, Arrange, UNCHANGED <<text, lexer>>
    PROVE  Inv'
  <1>1. parsing = "on"
    BY DEF Arrange, Does
  <1>2. PICK places, p, lo, hi : Here(places, p, lo, hi)
    BY <1>1, IsHere
  <1>3. Ready(nodes, freed, Mode, p, Held, lo, hi) /\ Head(p.rest) = Now /\ Tail(p.rest) = Later
    BY <1>2 DEF Here, Now, Later
  <1>4. UNCHANGED <<text, lexer, next, errno, error, quiet, nodes, freed, root, parsing>>
    BY DEF Arrange
  <1>5. \E held : Continue(Tail(p.rest), held) /\ Steps(nodes, freed, Mode, p, lo, hi, Tail(p.rest), held)
    <2>1. CASE Now.do = "put"
      <3>1. Continue(Tail(p.rest), Append(Held, Now.name))
        BY <1>3, <2>1 DEF Arrange, Hold
      <3>2. Steps(nodes, freed, Mode, p, lo, hi, Tail(p.rest), Append(Held, Now.name))
        BY <1>3, <2>1, StepValue
      <3> QED
        BY <3>1, <3>2
    <2>2. CASE Now.do = "put flag"
      <3>1. Continue(Tail(p.rest), Append(Held, Now.flag))
        BY <1>3, <2>2 DEF Arrange, Hold
      <3>2. Steps(nodes, freed, Mode, p, lo, hi, Tail(p.rest), Append(Held, Now.flag))
        BY <1>3, <2>2, StepValue
      <3> QED
        BY <3>1, <3>2
    <2>3. CASE Now.do = "put nodes"
      <3>1. Continue(Tail(p.rest), Append(Held, Head(p.rest).list))
        BY <1>3, <2>3 DEF Arrange, Hold
      <3>2. NodesFit(nodes) /\ freed \subseteq 2..Len(nodes)
        BY DEF Inv, HeapFits
      <3>3. Steps(nodes, freed, Mode, p, lo, hi, Tail(p.rest), Append(Held, Head(p.rest).list))
        BY <1>3, <2>3, <3>2, StepNodes
      <3> QED
        BY <3>1, <3>3
    <2>4. CASE Now.do = "copy"
      <3>1. Continue(Tail(p.rest), Append(Held, Held[Head(p.rest).at]))
        BY <1>3, <2>4 DEF Arrange, Hold
      <3>2. Steps(nodes, freed, Mode, p, lo, hi, Tail(p.rest), Append(Held, Held[Head(p.rest).at]))
        BY <1>3, <2>4, StepCopy
      <3> QED
        BY <3>1, <3>2
    <2>5. CASE Now.do = "move"
      <3>1. Continue(Tail(p.rest), [SubSeq(Held, 1, Len(Held) - 1) EXCEPT ![Head(p.rest).at] = Last(Held)])
        BY <1>3, <2>5 DEF Arrange, Without
      <3>2. Steps(nodes, freed, Mode, p, lo, hi, Tail(p.rest), [SubSeq(Held, 1, Len(Held) - 1) EXCEPT ![Head(p.rest).at] = Last(Held)])
        BY <1>3, <2>5, StepMove
      <3> QED
        BY <3>1, <3>2
    <2>6. CASE Now.do = "push"
      <3>1. Continue(Tail(p.rest), [SubSeq(Held, 1, Len(Held) - 1) EXCEPT ![Head(p.rest).at] = @ \o Last(Held)])
        BY <1>3, <2>6 DEF Arrange, Without
      <3>2. Steps(nodes, freed, Mode, p, lo, hi, Tail(p.rest), [SubSeq(Held, 1, Len(Held) - 1) EXCEPT ![Head(p.rest).at] = @ \o Last(Held)])
        BY <1>3, <2>6, StepPush
      <3> QED
        BY <3>1, <3>2
    <2>7. CASE Now.do = "unshift"
      <3>1. Continue(Tail(p.rest), [SubSeq(Held, 1, Len(Held) - 1) EXCEPT ![Head(p.rest).at] = Last(Held) \o @])
        BY <1>3, <2>7 DEF Arrange, Without
      <3>2. Steps(nodes, freed, Mode, p, lo, hi, Tail(p.rest), [SubSeq(Held, 1, Len(Held) - 1) EXCEPT ![Head(p.rest).at] = Last(Held) \o @])
        BY <1>3, <2>7, StepPush
      <3> QED
        BY <3>1, <3>2
    <2>8. CASE Now.do = "forget"
      <3>1. Continue(Tail(p.rest), RemoveAt(Held, Head(p.rest).at))
        BY <1>3, <2>8 DEF Arrange
      <3>2. Steps(nodes, freed, Mode, p, lo, hi, Tail(p.rest), RemoveAt(Held, Head(p.rest).at))
        BY <1>3, <2>8, StepForget
      <3> QED
        BY <3>1, <3>2
    <2> QED
      BY <2>1, <2>2, <2>3, <2>4, <2>5, <2>6, <2>7, <2>8 DEF Arrange, Does
  <1> QED
    BY <1>1, <1>2, <1>4, <1>5, Stays

LEMMA ChooseKeeps ==
    ASSUME CodeFits, Inv, Choose, UNCHANGED <<text, lexer>>
    PROVE  Inv'
  <1>1. parsing = "on"
    BY DEF Choose, Does
  <1>2. PICK places, p, lo, hi : Here(places, p, lo, hi)
    BY <1>1, IsHere
  <1>3. /\ Ready(nodes, freed, Mode, p, Held, lo, hi) /\ Head(p.rest) = Now /\ Tail(p.rest) = Later
        /\ p.rest = Top.rest
    BY <1>2 DEF Here, Now, Later
  <1>4. UNCHANGED <<text, lexer, next, errno, error, quiet, nodes, freed, root, parsing>>
    BY DEF Choose
  <1>5. AheadFits(Mode, Ahead)
    BY ModeAhead DEF Inv
  <1>6. PICK kind : kind = Ahead
    OBVIOUS
  <1>7. PICK now : now = Now
    OBVIOUS
  <1>8. PICK held : held = Held
    OBVIOUS
  <1>9. Ready(nodes, freed, Mode, p, held, lo, hi) /\ Head(p.rest) = now /\ AheadFits(Mode, kind)
    BY <1>3, <1>5, <1>6, <1>7, <1>8
  <1>10. \E rest : Continue(rest, Held) /\ Steps(nodes, freed, Mode, p, lo, hi, rest, held)
    <2>1. CASE Now.do = "switch"
      <3>1. GoOn((IF kind \in DOMAIN now.cases THEN now.cases[kind] ELSE now.otherwise) \o Tail(p.rest))
        BY <1>3, <1>6, <1>7, <2>1 DEF Choose
      <3>2. Steps(nodes, freed, Mode, p, lo, hi,
                  (IF kind \in DOMAIN Head(p.rest).cases THEN Head(p.rest).cases[kind] ELSE Head(p.rest).otherwise) \o Tail(p.rest), held)
        BY <1>3, <1>9, <2>1, StepSwitch
      <3> QED
        BY <1>9, <3>1, <3>2 DEF GoOn
    <2>2. CASE Now.do = "second"
      <3>1. GoOn(now.yes \o Tail(p.rest)) \/ GoOn(now.no \o Tail(p.rest))
        BY <1>3, <1>7, <2>2 DEF Choose
      <3>2. /\ Steps(nodes, freed, Mode, p, lo, hi, now.yes \o Tail(p.rest), held)
            /\ Steps(nodes, freed, Mode, p, lo, hi, now.no \o Tail(p.rest), held)
        BY <1>3, <1>9, <2>2, StepTest
      <3> QED
        BY <3>1, <3>2 DEF GoOn
    <2>3. CASE Now.do = "held"
      <3>1. GoOn(now.yes \o Tail(p.rest)) \/ GoOn(now.no \o Tail(p.rest))
        BY <1>3, <1>7, <2>3 DEF Choose
      <3>2. /\ Steps(nodes, freed, Mode, p, lo, hi, now.yes \o Tail(p.rest), held)
            /\ Steps(nodes, freed, Mode, p, lo, hi, now.no \o Tail(p.rest), held)
        BY <1>3, <1>9, <2>3, StepTest
      <3> QED
        BY <3>1, <3>2 DEF GoOn
    <2>4. CASE Now.do = "null"
      <3>1. GoOn((IF held[now.at] = Null THEN now.yes ELSE now.no) \o Tail(p.rest))
        BY <1>3, <1>7, <1>8, <2>4 DEF Choose
      <3>2. Steps(nodes, freed, Mode, p, lo, hi,
                  (IF held[Head(p.rest).at] = Null THEN Head(p.rest).yes ELSE Head(p.rest).no) \o Tail(p.rest), held)
        BY <1>3, <1>9, <2>4, StepNull
      <3> QED
        BY <1>9, <3>1, <3>2 DEF GoOn
    <2>5. CASE Now.do = "loop"
      <3>1. GoOn(IF kind \in now.kinds THEN now.body \o p.rest ELSE Tail(p.rest))
        BY <1>3, <1>6, <1>7, <2>5 DEF Choose
      <3>2. Steps(nodes, freed, Mode, p, lo, hi,
                  IF kind \in Head(p.rest).kinds THEN Head(p.rest).body \o p.rest ELSE Tail(p.rest), held)
        BY <1>3, <1>9, <2>5, StepLoop
      <3> QED
        BY <1>9, <3>1, <3>2 DEF GoOn
    <2>6. CASE Now.do = "until"
      <3>1. GoOn(IF kind \in now.kinds THEN Tail(p.rest) ELSE now.body \o p.rest)
        BY <1>3, <1>6, <1>7, <2>6 DEF Choose
      <3>2. Steps(nodes, freed, Mode, p, lo, hi,
                  IF kind \in Head(p.rest).kinds THEN Tail(p.rest) ELSE Head(p.rest).body \o p.rest, held)
        BY <1>3, <1>9, <2>6, StepUntil
      <3> QED
        BY <1>9, <3>1, <3>2 DEF GoOn
    <2>7. CASE Now.do = "items"
      <3>1. GoOn(IF kind \in now.stop THEN Tail(p.rest)
                 ELSE now.body \o <<Once({","}, <<Take, now>>)>> \o Tail(p.rest))
        BY <1>3, <1>6, <1>7, <2>7 DEF Choose
      <3>2. Steps(nodes, freed, Mode, p, lo, hi,
                  IF kind \in Head(p.rest).stop THEN Tail(p.rest)
                  ELSE Head(p.rest).body \o <<Once({","}, <<Take, Head(p.rest)>>)>> \o Tail(p.rest), held)
        BY <1>3, <1>9, <2>7, StepItems
      <3> QED
        BY <1>9, <3>1, <3>2 DEF GoOn
    <2> QED
      BY <2>1, <2>2, <2>3, <2>4, <2>5, <2>6, <2>7 DEF Choose, Does
  <1> QED
    BY <1>1, <1>2, <1>4, <1>8, <1>10, Stays

LEMMA CallFunctionKeeps ==
    ASSUME CodeFits, Inv, CallFunction, UNCHANGED <<text, lexer>>
    PROVE  Inv'
  <1>1. parsing = "on"
    BY DEF CallFunction, Does
  <1>2. PICK places, p, lo, hi : Here(places, p, lo, hi)
    BY <1>1, IsHere
  <1>3. /\ Ready(nodes, freed, Mode, p, Held, lo, hi) /\ Head(p.rest) = Now
        /\ StackFits(stack, nodes, freed, Mode, places)
    BY <1>2 DEF Here, Now
  <1>4. UNCHANGED <<text, lexer, next, errno, error, quiet, nodes, freed, root, parsing>>
    BY DEF CallFunction
  <1>5. PICK k : k = Now.args
    OBVIOUS
  <1>6. CASE Now.do = "return"
    <2>1. Continue(Function[Head(p.rest).fn], SubSeq(Held, Len(Held) - k + 1, Len(Held)))
      BY <1>3, <1>5, <1>6 DEF CallFunction, Continue, LastHeld
    <2>2. Steps(nodes, freed, Mode, p, lo, hi, Function[Head(p.rest).fn], SubSeq(Held, Len(Held) - k + 1, Len(Held)))
      BY <1>3, <1>5, <1>6, StepReturn
    <2> QED
      BY <1>1, <1>2, <1>4, <2>1, <2>2, Stays
  <1>7. CASE Now.do = "call"
    <2>1. PICK s : s = stack
      OBVIOUS
    <2>2. PICK t : t = <<[rest |-> Function[Head(Head(s).rest).fn],
                         held |-> SubSeq(Head(s).held, Len(Head(s).held) - k + 1, Len(Head(s).held))],
                        [Head(s) EXCEPT !.held = SubSeq(Head(s).held, 1, Len(Head(s).held) - k)]>> \o Tail(s)
      OBVIOUS
    <2>3. stack' = t
      BY <1>5, <1>7, <2>1, <2>2 DEF CallFunction, LastHeld, Without, Held, Now, Top
    <2>4. \E new : StackFits(t, nodes, freed, Mode, new)
      <3>1. Head(Head(s).rest).do = "call" /\ k = Head(Head(s).rest).args
        BY <1>5, <1>7, <2>1 DEF Now, Top
      <3> QED
        BY <1>3, <2>1, <2>2, <3>1, StepCall
    <2>5. Mode' = Mode /\ Broken' = Broken
      BY <1>4 DEF Mode, Broken, lexer
    <2>6. NumbersFit' /\ HeapFits' /\ (Broken' => next' # 0)
      BY <1>1, <1>4, <2>5 DEF Inv, NumbersFit, HeapFits, ParseFits, CallsFitted, lexer
    <2>7. HasPlaces(stack', nodes', freed', Mode')
      BY <1>4, <2>3, <2>4, <2>5 DEF HasPlaces
    <2> QED
      BY <1>1, <1>4, <2>6, <2>7, GoesOn
  <1> QED
    BY <1>6, <1>7 DEF CallFunction, Does

LEMMA ReportErrorKeeps ==
    ASSUME CodeFits, Inv, ReportError, UNCHANGED <<text, lexer>>
    PROVE  Inv'
  <1>1. parsing = "on"
    BY DEF ReportError, Does
  <1>2. PICK places, p, lo, hi : Here(places, p, lo, hi)
    BY <1>1, IsHere
  <1>3. Ready(nodes, freed, Mode, p, Held, lo, hi) /\ Head(p.rest) = Now /\ Tail(p.rest) = Later
    BY <1>2 DEF Here, Now, Later
  <1>4. Head(p.rest).do = "complain" /\ Continue(Tail(p.rest), Held)
    BY <1>3 DEF ReportError, Does, GoOn
  <1>5. Steps(nodes, freed, "failed", p, lo, hi, Tail(p.rest), Held) /\ Mode \in {"read", "failed"}
    BY <1>3, <1>4, StepComplain
  <1>6. /\ UNCHANGED <<text, lexer, next, errno, quiet, nodes, freed, root, parsing>>
        /\ error' = IF error = 0 THEN next ELSE error
    BY DEF ReportError
  <1>7. NumbersFit /\ (Broken => next # 0) /\ LexFits
    BY <1>1 DEF Inv, ParseFits, CallsFitted
  <1>8. PICK n \in Nat : n = Len(tokens)
    BY <1>7, Sequence DEF LexFits
  <1>9. next # 0
    BY <1>5, <1>7 DEF Mode
  <1>10. error' \in 0..(n + 1) /\ error' # 0
    <2>1. next \in 0..n /\ error \in 0..(n + 1)
      BY <1>7, <1>8 DEF NumbersFit
    <2>2. next \in 0..(n + 1)
      BY <2>1
    <2> QED
      BY <1>6, <1>9, <2>1, <2>2
  <1>11. NumbersFit'
    BY <1>6, <1>7, <1>8, <1>10 DEF NumbersFit, lexer
  <1>12. Mode' = "failed" /\ (Broken' => next' # 0)
    BY <1>6, <1>9, <1>10 DEF Mode, Broken
  <1>13. Raised(Mode, Mode')
    BY <1>5, <1>12 DEF Raised
  <1>14. Steps(nodes, freed, Mode', p, lo, hi, Tail(p.rest), Held)
    BY <1>5, <1>12
  <1> QED
    BY <1>1, <1>2, <1>4, <1>6, <1>11, <1>12, <1>13, <1>14, Moves

LEMMA DereferenceNullKeeps ==
    ASSUME Inv, DereferenceNull, UNCHANGED <<text, lexer>>
    PROVE  Inv'
  BY DEF DereferenceNull, Does, Inv, LexFits, NumbersFit, HeapFits, ParseFits, lexer

LEMMA BuildKeeps ==
    ASSUME CodeFits, Inv, Build, UNCHANGED <<text, lexer>>
    PROVE  Inv'
  <1>1. parsing = "on"
    BY DEF Build, Does
  <1>2. PICK places, p, lo, hi : Here(places, p, lo, hi)
    BY <1>1, IsHere
  <1>3. /\ Ready(nodes, freed, Mode, p, Held, lo, hi) /\ Head(p.rest) = Now /\ Tail(p.rest) = Later
        /\ StackFits(stack, nodes, freed, Mode, places)
        /\ p = places[Len(stack)].point /\ lo = places[Len(stack)].lo /\ hi = places[Len(stack)].hi
    BY <1>2 DEF Here, Now, Later
  <1>4. UNCHANGED <<text, lexer, next, errno, error, quiet, freed, root, parsing>>
    BY DEF Build
  <1>5. NodesFit(nodes) /\ freed \subseteq 2..Len(nodes)
    BY DEF Inv, HeapFits
  <1>6. PICK N : N = nodes
    OBVIOUS
  <1>7. PICK held : held = Held
    OBVIOUS
  <1>8. PICK k : k = Len(Head(p.rest).fields)
    OBVIOUS
  <1>9. PICK node : node = NodeOf(Head(p.rest), SubSeq(held, Len(held) - k + 1, Len(held)))
    OBVIOUS
  <1>10. /\ nodes' = Append(N, node)
         /\ Continue(Tail(p.rest), Append(SubSeq(held, 1, Len(held) - k), <<Len(N) + 1>>))
    BY <1>3, <1>6, <1>7, <1>8, <1>9 DEF Build, LastHeld, Without
  <1>11. Head(p.rest).do = "node"
    BY <1>3 DEF Build, Does
  <1>12. Ready(N, freed, Mode, p, held, lo, hi) /\ NodesFit(N) /\ freed \subseteq 2..Len(N)
    BY <1>3, <1>5, <1>6, <1>7
  <1>13. /\ Adds(N, Append(N, node), freed, Mode, lo)
         /\ Steps(Append(N, node), freed, Mode, p, lo, hi, Tail(p.rest),
                  Append(SubSeq(held, 1, Len(held) - k), <<Len(N) + 1>>))
    BY ONLY CodeFits, <1>8, <1>9, <1>11, <1>12, StepNode
  <1>14. PICK M : M = Append(N, node)
    OBVIOUS
  <1>15. /\ NodesFit(M) /\ Extends(M, N) /\ Len(M) = Len(N) + 1 /\ Len(M) \in Nat /\ Len(N) \in Nat
         /\ M = nodes' /\ freed' = freed
    BY <1>4, <1>5, <1>6, <1>10, <1>13, <1>14 DEF Adds, NodesFit
  <1>16. Mode' = Mode /\ Broken' = Broken
    BY <1>4 DEF Mode, Broken, lexer
  <1>17. Mode \in Modes
    BY DEF Mode, Modes
  <1>18. Changes(N, freed, Mode, M, freed, Mode, hi)
    BY <1>15 DEF Changes, Raised
  <1>19. PICK x : x = Append(SubSeq(held, 1, Len(held) - k), <<Len(N) + 1>>)
    OBVIOUS
  <1>20. Steps(M, freed, Mode, p, lo, hi, Tail(p.rest), x)
    BY <1>13, <1>14, <1>19
  <1>21. PICK s : s = stack
    OBVIOUS
  <1>22. PICK t : t = <<[rest |-> Tail(p.rest), held |-> x]>> \o Tail(s)
    OBVIOUS
  <1>23. StackFits(s, N, freed, Mode, places) /\ p = places[Len(s)].point /\ lo = places[Len(s)].lo /\ hi = places[Len(s)].hi
    BY <1>3, <1>6, <1>21
  <1>24. \E new : StackFits(t, M, freed, Mode, new)
    BY ONLY CodeFits, <1>17, <1>18, <1>20, <1>22, <1>23, StackSteps
  <1>25. stack' = t
    BY <1>10, <1>19, <1>21, <1>22 DEF Continue
  <1>26. HasPlaces(stack', nodes', freed', Mode')
    BY <1>15, <1>16, <1>24, <1>25 DEF HasPlaces
  <1>27. HeapFits'
    <2>1. \A i \in 2..Len(N) : i \in 2..Len(M)
      BY ONLY <1>15
    <2>2. freed \subseteq 2..Len(M)
      BY <1>12, <2>1
    <2> QED
      BY <1>15, <2>2 DEF HeapFits
  <1>28. NumbersFit' /\ (Broken' => next' # 0)
    BY <1>1, <1>4, <1>16 DEF Inv, NumbersFit, ParseFits, CallsFitted, lexer
  <1> QED
    BY <1>1, <1>4, <1>26, <1>27, <1>28, GoesOn

\* A call returns, and nothing else happens.
LEMMA Ends ==
    ASSUME CodeFits, Inv, parsing = "on", UNCHANGED <<text, lexer, next, errno, error, quiet, nodes, freed>>,
           NEW places, NEW p, NEW lo, NEW hi, Here(places, p, lo, hi),
           NEW v, Answers(nodes, freed, Mode, v, p.gives, lo), Give(v)
    PROVE  Inv'
  <1>1. Mode' = Mode /\ Broken' = Broken /\ freed' = freed
    BY DEF Mode, Broken, lexer
  <1>2. NumbersFit' /\ HeapFits' /\ (Broken' => next' # 0)
    BY <1>1 DEF Inv, NumbersFit, HeapFits, ParseFits, CallsFitted, lexer
  <1>3. /\ StackFits(stack, nodes, freed, Mode, places)
        /\ p = places[Len(stack)].point /\ lo = places[Len(stack)].lo /\ hi = places[Len(stack)].hi
    BY DEF Here
  <1>4. Len(nodes) \in Nat
    BY DEF Inv, HeapFits, NodesFit
  <1>5. Changes(nodes, freed, Mode, nodes, freed', Mode', places[Len(stack)].hi)
    BY <1>1, <1>4 DEF Changes, Raised, Extends
  <1>6. Answers(nodes, freed', Mode', v, places[Len(stack)].point.gives, places[Len(stack)].lo)
    BY <1>1, <1>3
  <1> QED
    BY <1>2, <1>3, <1>5, <1>6, Gives

LEMMA FinishKeeps ==
    ASSUME CodeFits, Inv, Finish, UNCHANGED <<text, lexer>>
    PROVE  Inv'
  <1>1. parsing = "on"
    BY DEF Finish, Does
  <1>2. PICK places, p, lo, hi : Here(places, p, lo, hi)
    BY <1>1, IsHere
  <1>3. Ready(nodes, freed, Mode, p, Held, lo, hi) /\ Head(p.rest) = Now
    BY <1>2 DEF Here, Now
  <1>4. UNCHANGED <<text, lexer, next, errno, error, quiet, nodes, freed>>
    BY DEF Finish
  <1>5. CASE Now.do = "quit"
    <2>1. Give(Last(Held))
      BY <1>5 DEF Finish
    <2>2. Answers(nodes, freed, Mode, Last(Held), p.gives, lo)
      BY <1>3, <1>5, AnswerQuit
    <2> QED
      BY <1>1, <1>2, <1>4, <2>1, <2>2, Ends
  <1>6. CASE Now.do = "answer"
    <2>1. PICK well \in BOOLEAN : well <=> error = 0
      BY Zenon
    <2>2. PICK v : v = IF Last(Held) = Null /\ well THEN Held[1] ELSE Last(Held)
      OBVIOUS
    <2>3. Give(v)
      BY <1>6, <2>1, <2>2 DEF Finish
    <2>4. Mode # "failed" => well
      BY <2>1 DEF Mode, Broken
    <2>5. PICK held : held = Held
      OBVIOUS
    <2>6. Answers(nodes, freed, Mode, v, p.gives, lo)
      BY <1>3, <1>6, <2>2, <2>4, AnswerAnswer
    <2> QED
      BY <1>1, <1>2, <1>4, <2>3, <2>6, Ends
  <1> QED
    BY <1>5, <1>6 DEF Finish, Does

LEMMA UnwrapBlockKeeps ==
    ASSUME CodeFits, Inv, UnwrapBlock, UNCHANGED <<text, lexer>>
    PROVE  Inv'
  <1>1. parsing = "on"
    BY DEF UnwrapBlock, Does
  <1>2. PICK places, p, lo, hi : Here(places, p, lo, hi)
    BY <1>1, IsHere
  <1>3. Ready(nodes, freed, Mode, p, Held, lo, hi) /\ Head(p.rest) = Now /\ Tail(p.rest) = Later
    BY <1>2 DEF Here, Now, Later
  <1>4. UNCHANGED <<text, lexer, next, errno, error, quiet, nodes, freed>>
    BY DEF UnwrapBlock
  <1>5. Head(p.rest).do = "unwrap"
    BY <1>3 DEF UnwrapBlock, Does
  <1>6. CASE Len(Last(Held)) = 1
    <2>1. Give(Last(Held))
      BY <1>6 DEF UnwrapBlock
    <2>2. Answers(nodes, freed, Mode, Last(Held), p.gives, lo)
      BY <1>3, <1>5, <1>6, AnswerUnwrap
    <2> QED
      BY <1>1, <1>2, <1>4, <2>1, <2>2, Ends
  <1>7. CASE Len(Last(Held)) # 1
    <2>1. Continue(Tail(p.rest), Held) /\ UNCHANGED <<root, parsing>>
      BY <1>3, <1>7 DEF UnwrapBlock, GoOn
    <2>2. Steps(nodes, freed, Mode, p, lo, hi, Tail(p.rest), Held)
      BY <1>3, <1>5, StepUnwrap
    <2> QED
      BY <1>1, <1>2, <1>4, <2>1, <2>2, Stays
  <1> QED
    BY <1>6, <1>7

LEMMA FreeKeeps ==
    ASSUME CodeFits, Inv, Free, UNCHANGED <<text, lexer>>
    PROVE  Inv'
  <1>1. parsing = "on"
    BY DEF Free, Does
  <1>2. PICK places, p, lo, hi : Here(places, p, lo, hi)
    BY <1>1, IsHere
  <1>3. /\ Ready(nodes, freed, Mode, p, Held, lo, hi) /\ Head(p.rest) = Now /\ Tail(p.rest) = Later
        /\ StackFits(stack, nodes, freed, Mode, places)
        /\ p = places[Len(stack)].point /\ lo = places[Len(stack)].lo /\ hi = places[Len(stack)].hi
    BY <1>2 DEF Here, Now, Later
  <1>4. UNCHANGED <<text, lexer, next, errno, error, nodes>>
    BY DEF Free
  <1>5. Head(p.rest).do \in {"destroy", "fail", "give up"}
    BY <1>3 DEF Free, Does
  <1>6. NodesFit(nodes) /\ freed \subseteq 2..Len(nodes) /\ Len(nodes) \in Nat
    BY DEF Inv, HeapFits, NodesFit
  <1>7. PICK G : G = freed \cup Frees(AllWalked(Held, Head(p.rest).frees))
    OBVIOUS
  <1>8. freed' = G
    BY <1>3, <1>7 DEF Free
  <1>9. /\ G \subseteq 2..Len(nodes)
        /\ Now.do = "fail" => Mode = "failed"
        /\ Now.do = "give up" => Mode \in {"read", "failed"}
    BY <1>3, <1>5, <1>6, <1>7, FreeFits
  <1>10. HeapFits'
    BY <1>4, <1>6, <1>8, <1>9 DEF HeapFits
  <1>11. quiet' \in BOOLEAN /\ (Now.do # "give up" => quiet' = quiet) /\ (Now.do = "give up" => quiet' = TRUE)
    <2>1. quiet \in BOOLEAN /\ quiet' = (quiet \/ Now.do = "give up")
      BY DEF Free, Inv, NumbersFit
    <2> QED
      BY <2>1
  <1>12. NumbersFit'
    BY <1>4, <1>11 DEF Inv, NumbersFit, lexer
  <1>13. /\ Mode' = IF Now.do = "give up" THEN "failed" ELSE Mode
         /\ Raised(Mode, Mode') /\ Mode' \in Modes
    <2>1. CASE Now.do = "give up"
      <3>1. Mode' = "failed"
        BY <1>11, <2>1 DEF Mode, Broken
      <3> QED
        BY <1>9, <2>1, <3>1 DEF Raised, Modes
    <2>2. CASE Now.do # "give up"
      <3>1. Broken' <=> Broken
        <4>1. Now.do # "give up" => (Broken' <=> Broken)
          BY <1>4, <1>11 DEF Broken
        <4> QED
          BY <2>2, <4>1
      <3>3. next' = next /\ tokens' = tokens
        BY <1>4 DEF lexer
      <3>4. Mode' = Mode
        BY <3>1, <3>3 DEF Mode
      <3>2. Mode \in Modes
        BY DEF Mode, Modes
      <3> QED
        BY <2>2, <3>4, <3>2 DEF Raised
    <2> QED
      BY <2>1, <2>2
  <1>14. Broken' => next' # 0
    <2>1. Broken => next # 0
      BY <1>1 DEF Inv, ParseFits, CallsFitted
    <2>2. Now.do = "give up" => next # 0
      BY <1>9, <2>1 DEF Mode
    <2>3. Now.do # "give up" => (Broken' <=> Broken)
      BY <1>4, <1>11 DEF Broken
    <2> QED
      BY <1>4, <2>1, <2>2, <2>3
  <1>15. Extends(nodes, nodes)
    BY <1>6 DEF Extends
  <1>16. CASE parsing' = "crashed" /\ UNCHANGED <<stack, root>>
    <2>1. LexFits'
      BY <1>4 DEF Inv, LexFits, lexer
    <2>2. ParseFits'
      BY <1>1, <1>16 DEF Inv, ParseFits, lexer
    <2> QED
      BY <1>10, <1>12, <2>1, <2>2 DEF Inv
  <1>17. CASE Now.do = "destroy" /\ GoOn(Later) /\ UNCHANGED <<root, parsing>>
    <2>1. Mode' = Mode
      BY <1>13, <1>17
    <2>2. /\ Mode # "failed" => G \cap ({1} \cup (1..hi)) \subseteq freed
          /\ Steps(nodes, G, Mode, p, lo, hi, Tail(p.rest), Held)
      <3>1. Head(p.rest).do = "destroy"
        BY <1>3, <1>17
      <3>2. Ready(nodes, freed, Mode, p, Held, lo, hi)
        BY <1>3
      <3> QED
        BY ONLY CodeFits, <1>6, <1>7, <3>1, <3>2, StepDestroy
    <2>3. Changes(nodes, freed, Mode, nodes, G, Mode, hi)
      BY <1>6, <1>15, <2>2 DEF Changes, Raised
    <2>4. stack' = <<[rest |-> Tail(p.rest), held |-> Held]>> \o Tail(stack)
      BY <1>3, <1>17 DEF GoOn, Continue
    <2>5. Mode \in Modes
      BY DEF Mode, Modes
    <2>6. \E new : StackFits(stack', nodes, G, Mode, new)
      BY ONLY CodeFits, <1>3, <2>2, <2>3, <2>4, <2>5, StackSteps
    <2>7. HasPlaces(stack', nodes', freed', Mode')
      BY <1>4, <1>8, <2>1, <2>6 DEF HasPlaces
    <2> QED
      BY <1>1, <1>4, <1>10, <1>12, <1>14, <1>17, <2>7, GoesOn
  <1>18. CASE Now.do # "destroy" /\ Give(Null)
    <2>1. Mode' = "failed"
      BY <1>5, <1>3, <1>9, <1>13, <1>18
    <2>2. Answers(nodes, freed', Mode', Null, places[Len(stack)].point.gives, places[Len(stack)].lo)
      BY <2>1, AnswerNull
    <2>3. Changes(nodes, freed, Mode, nodes, freed', Mode', places[Len(stack)].hi)
      BY <1>6, <1>13, <1>15, <2>1 DEF Changes
    <2>4. UNCHANGED <<text, lexer, nodes>>
      BY <1>4
    <2> QED
      BY <1>1, <1>3, <1>10, <1>12, <1>14, <1>18, <2>2, <2>3, <2>4, Gives
  <1> QED
    BY <1>16, <1>17, <1>18 DEF Free

LEMMA ParseKeeps ==
    ASSUME CodeFits, Inv, Parse
    PROVE  Inv'
  <1>1. NextStep /\ UNCHANGED <<text, lexer>>
    BY DEF Parse
  <1> QED
    BY <1>1, ReadTokenKeeps, ReadValueKeeps, ReadIntegerKeeps, ReadMacroKeeps, ArrangeKeeps, ChooseKeeps,
       CallFunctionKeeps, BuildKeeps, FinishKeeps, UnwrapBlockKeeps, FreeKeeps, ReportErrorKeeps,
       DereferenceNullKeeps DEF NextStep

-----------------------------------------------------------------------------
(***************************************************************************)
(* The lexer, and where the parser begins.                                 *)
(***************************************************************************)
LEMMA StartParserKeeps ==
    ASSUME CodeFits, Inv, StartParser
    PROVE  Inv'
  <1>1. /\ scanning = "done" /\ parsing = "no" /\ parsing' = "on"
        /\ stack' = <<[rest |-> ParseAll, held |-> <<>>]>>
        /\ UNCHANGED <<text, lexer, next, errno, error, quiet, nodes, freed, root>>
    BY DEF StartParser
  <1>2. next = 0 /\ error = 0 /\ quiet = FALSE /\ root = Null
    BY <1>1 DEF Inv, ParseFits
  <1>3. ~Broken /\ ~Broken'
    BY <1>1, <1>2 DEF Broken
  <1>4. Mode' = Mode /\ Mode \in {"none", "unread"}
    BY <1>1, <1>2, <1>3 DEF Mode, lexer
  <1>5. PICK mode \in {"none", "unread"} : mode = Mode
    BY <1>4
  <1>6. PICK e : e = Entry(mode)
    OBVIOUS
  <1>7. /\ e \in Table /\ e.mode = mode /\ e.waits = FALSE /\ e.rest = ParseAll /\ e.shapes = <<>> /\ e.gives = "node"
    BY <1>5, <1>6 DEF CodeFits, Entry, Point
  <1>8. PICK L \in Nat : L = Len(nodes)
    BY DEF Inv, HeapFits, NodesFit
  <1>9. PICK places : places = <<Place(e, 0, L)>>
    OBVIOUS
  <1>10. places[1].point = e /\ places[1].lo = 0 /\ places[1].hi = L
    BY <1>9 DEF Place
  <1>11. PICK frame : frame = [rest |-> ParseAll, held |-> <<>>]
    OBVIOUS
  <1>12. PICK s : s = <<frame>>
    OBVIOUS
  <1>13. IsSeq(s) /\ Len(s) = 1 /\ s[1] = frame
    BY <1>12, Single
  <1>14. At(s, 1) = frame
    <2>1. Len(s) - 1 + 1 = 1
      BY <1>13
    <2> QED
      BY <1>13, <2>1 DEF At
  <1>15. Bounds(nodes, 0, L)
    BY <1>8 DEF Bounds
  <1>16. HeldFits(nodes, freed, mode, <<>>, <<>>, 0, L)
    <2>1. IsSeq(<<>>) /\ <<>> \in Seq(Shapes) /\ Len(<<>>) = 0 /\ 1..0 = {}
      BY DEF IsSeq
    <2> QED
      BY <2>1 DEF HeldFits
  <1>17. FrameFits(nodes, freed, mode, frame, places[1])
    <2>1. frame = [rest |-> e.rest, held |-> frame.held] /\ frame.held = <<>>
      BY <1>7, <1>11
    <2> QED
      BY <1>7, <1>10, <1>15, <1>16, <2>1 DEF FrameFits
  <1>18. Below(s, nodes, freed, mode, places, 0)
    <2>1. \A i, j \in 1..(0 + 1) : i = 1 /\ j = 1
      OBVIOUS
    <2>2. \A i, j \in 1..(0 + 1) : i <= j => places[i].hi <= places[j].hi
      BY <1>10, <2>1
    <2>3. 1..0 = {}
      OBVIOUS
    <2> QED
      BY <2>2, <2>3 DEF Below
  <1>19. StackFits(s, nodes, freed, mode, places)
    <2>1. Len(s) - 1 = 0 /\ Len(s) \in Nat \ {0} /\ mode \in Modes
      BY <1>5, <1>13 DEF Modes
    <2> QED
      BY <1>7, <1>10, <1>13, <1>14, <1>17, <1>18, <2>1 DEF StackFits
  <1>20. HasPlaces(stack', nodes', freed', Mode')
    BY <1>1, <1>4, <1>5, <1>11, <1>12, <1>19 DEF HasPlaces
  <1>21. LexFits' /\ NumbersFit' /\ HeapFits'
    BY <1>1 DEF Inv, LexFits, NumbersFit, HeapFits, lexer
  <1>22. ParseFits'
    BY <1>1, <1>2, <1>3, <1>20 DEF ParseFits, CallsFitted, lexer
  <1> QED
    BY <1>21, <1>22 DEF Inv

LEMMA RejectTextKeeps ==
    ASSUME Inv, RejectText
    PROVE  Inv'
  <1>1. /\ scanning = "error" /\ parsing = "no" /\ parsing' = "done" /\ error' = Len(tokens) + 1
        /\ UNCHANGED <<text, lexer, next, errno, quiet, stack, nodes, freed, root>>
    BY DEF RejectText
  <1>2. Len(tokens) \in Nat
    BY Sequence DEF Inv, LexFits
  <1>3. LexFits' /\ HeapFits'
    BY <1>1 DEF Inv, LexFits, HeapFits, lexer
  <1>4. NumbersFit'
    <2>1. Len(tokens) + 1 \in 0..(Len(tokens) + 1)
      BY <1>2
    <2> QED
      BY <1>1, <2>1 DEF Inv, NumbersFit, lexer
  <1>5. ParseFits'
    <2>1. error' # 0
      BY <1>1, <1>2
    <2>2. Broken' /\ root' = Null
      BY <1>1, <2>1 DEF Broken, Inv, ParseFits
    <2>3. ResultFits'
      BY <2>2 DEF ResultFits
    <2> QED
      BY <1>1, <2>3 DEF ParseFits, lexer
  <1> QED
    BY <1>3, <1>4, <1>5 DEF Inv

\* What the lexer may do: go on, end, and add a token.
LEMMA Scans ==
    ASSUME Inv, scanning = "on", UNCHANGED <<text, parser>>, position' \in 0..Len(text),
           scanning' \in {"on", "done", "error", "comment"},
           tokens' = tokens \/ \E token : tokens' = Append(tokens, token) /\ Kind(token) # "eof"
    PROVE  Inv'
  <1>1. IsSeq(tokens) /\ \A i \in 1..Len(tokens) : Kind(tokens[i]) # "eof"
    BY DEF Inv, LexFits
  <1>2. IsSeq(tokens') /\ \A i \in 1..Len(tokens') : Kind(tokens'[i]) # "eof"
    <2>1. CASE tokens' = tokens
      BY <1>1, <2>1
    <2>2. ASSUME NEW token, tokens' = Append(tokens, token), Kind(token) # "eof"
          PROVE  IsSeq(tokens') /\ \A i \in 1..Len(tokens') : Kind(tokens'[i]) # "eof"
      <3>1. PICK n \in Nat : n = Len(tokens)
        BY <1>1, Sequence
      <3>2. PICK t : t = tokens
        OBVIOUS
      <3>3. PICK u : u = Append(t, token)
        OBVIOUS
      <3>4. IsSeq(u) /\ Len(u) = n + 1 /\ (\A i \in 1..n : u[i] = t[i]) /\ u[n + 1] = token
        BY <1>1, <3>1, <3>2, <3>3, Appended
      <3>5. \A i \in 1..(n + 1) : i \in 1..n \/ i = n + 1
        OBVIOUS
      <3>6. \A i \in 1..(n + 1) : Kind(u[i]) # "eof"
        BY <1>1, <2>2, <3>1, <3>2, <3>4, <3>5
      <3> QED
        BY <2>2, <3>2, <3>3, <3>4, <3>6
    <2> QED
      BY <2>1, <2>2
  <1>3. LexFits'
    BY <1>2 DEF Inv, LexFits
  <1>4. parsing = "no" /\ next = 0 /\ error = 0 /\ quiet = FALSE /\ root = Null
    BY DEF Inv, ParseFits
  <1>5. Len(tokens') \in Nat
    BY <1>2, Sequence
  <1>6. 0 \in 0..Len(tokens') /\ 0 \in 0..(Len(tokens') + 1)
    BY <1>5
  <1>7. NumbersFit'
    BY <1>4, <1>6 DEF Inv, NumbersFit, parser
  <1>8. HeapFits'
    BY DEF Inv, HeapFits, parser
  <1>9. ParseFits'
    BY <1>4 DEF ParseFits, parser
  <1> QED
    BY <1>3, <1>7, <1>8, <1>9 DEF Inv

\* Places in the text.
LEMMA AfterIn ==
    ASSUME Len(text) \in Nat, NEW at \in 0..Len(text), NEW chars
    PROVE  After(at, chars) \in at..Len(text) /\ Before(at, chars) \in at..Len(text)
  <1>1. PICK L \in Nat : L = Len(text)
    OBVIOUS
  <1>2. PICK S : S = {i \in at..L : CharAt(i) \notin chars} \cup {L}
    OBVIOUS
  <1>3. PICK T : T = {i \in at..L : CharAt(i) \in chars} \cup {L}
    OBVIOUS
  <1>4. at..L \subseteq 0..L /\ L \in at..L
    BY <1>1
  <1>5. S \subseteq at..L /\ T \subseteq at..L /\ S \subseteq 0..L /\ T \subseteq 0..L /\ S # {} /\ T # {}
    BY <1>2, <1>3, <1>4
  <1>6. Minimum(S) \in S /\ Minimum(T) \in T
    BY <1>1, <1>5, MinimumIn
  <1> QED
    BY <1>1, <1>2, <1>3, <1>5, <1>6 DEF After, Before

LEMMA QuoteIn ==
    ASSUME Len(text) \in Nat, NEW at \in 0..Len(text)
    PROVE  Quote(at) \in at..Len(text)
  <1>1. PICK L \in Nat : L = Len(text)
    OBVIOUS
  <1>2. PICK S : S = {i \in at..L : CharAt(i) = "\"" /\ i - 1 \notin Escaping(at)} \cup {L}
    OBVIOUS
  <1>3. at..L \subseteq 0..L /\ L \in at..L
    BY <1>1
  <1>4. S \subseteq at..L /\ S \subseteq 0..L /\ S # {}
    BY <1>2, <1>3
  <1>5. Minimum(S) \in S
    BY <1>1, <1>4, MinimumIn
  <1> QED
    BY <1>1, <1>2, <1>4, <1>5 DEF Quote

\* No token is taken for the end of the tokens.
LEMMA WordsAndSymbols ==
    /\ "eof" \notin Keywords
    /\ \A i \in DOMAIN Symbols : Symbols[i] # "eof" /\ Symbols[i] # "keyword"
  <1>1. "eof" \notin Keywords
    BY DEF Keywords
  <1>2. \A i \in DOMAIN Symbols : Symbols[i] # "eof" /\ Symbols[i] # "keyword"
    BY SymbolsAssumption
  <1> QED
    BY <1>1, <1>2

LEMMA Adds1 ==
    ASSUME Inv, scanning = "on", UNCHANGED parser, NEW type, NEW val, NEW at, NEW end, NewToken(type, val, at, end),
           end \in 0..Len(text), type # "eof", type = "keyword" => val # "eof"
    PROVE  Inv'
  <1>1. PICK token : token = [type |-> type, val |-> val, row |-> RowAt(at), col |-> ColAt(at)]
    OBVIOUS
  <1>2. Kind(token) # "eof"
    BY <1>1 DEF Kind
  <1>3. tokens' = Append(tokens, token) /\ position' = end /\ UNCHANGED <<text, scanning>>
    BY <1>1 DEF NewToken, ReadTo
  <1>4. UNCHANGED <<text, parser>>
    BY <1>3
  <1> QED
    BY <1>2, <1>3, <1>4, Scans

LEMMA LexKeeps ==
    ASSUME Inv, Lex
    PROVE  Inv'
  <1>1. PICK at : /\ at = After(position, Blanks)
                  /\ \/ EndOfText(at) \/ ScanComment(at) \/ ScanIdentifier(at) \/ ScanNumber(at)
                     \/ ScanString(at) \/ ScanSymbol(at)
    BY DEF Lex, NextToken
  <1>2. scanning = "on" /\ UNCHANGED parser
    BY DEF Lex, NextToken
  <1>3. PICK L \in Nat : L = Len(text)
    BY DEF Inv, LexFits
  <1>4. at \in 0..L
    <2>1. position \in 0..L
      BY <1>3 DEF Inv, LexFits
    <2>2. PICK q \in 0..L : q = position
      BY <2>1
    <2>3. at \in q..L
      BY <1>1, <1>3, <2>2, AfterIn
    <2> QED
      BY ONLY <1>3, <2>2, <2>3
  <1>5. \A i : CharAt(i) # "" => i < L
    BY <1>3 DEF CharAt
  <1>6. CASE EndOfText(at)
    <2>1. position' = at /\ scanning' = "done" /\ UNCHANGED <<text, tokens>>
      BY <1>6 DEF EndOfText, ReadTo
    <2>2. UNCHANGED <<text, parser>>
      BY <1>2, <2>1
    <2> QED
      BY <1>2, <1>3, <1>4, <2>1, <2>2, Scans
  <1>7. CASE ScanComment(at)
    <2>1. PICK end : end = Before(at, {"\n"})
      OBVIOUS
    <2>2. end \in 0..L
      <3>1. end \in at..L
        BY <1>3, <1>4, <2>1, AfterIn
      <3> QED
        BY ONLY <1>3, <1>4, <3>1
    <2>3. /\ UNCHANGED <<text, tokens>>
          /\ \/ end < L /\ position' = end + 1 /\ scanning' = scanning
             \/ position' = end /\ scanning' = "comment"
      BY <1>3, <1>7, <2>1 DEF ScanComment, ReadTo
    <2>4. position' \in 0..L
      BY ONLY <1>3, <2>2, <2>3
    <2>5. UNCHANGED <<text, parser>>
      BY <1>2, <2>3
    <2> QED
      BY <1>2, <1>3, <2>3, <2>4, <2>5, Scans
  <1>8. CASE ScanIdentifier(at)
    <2>1. PICK end : end = After(at, Letters \cup Digits)
      OBVIOUS
    <2>2. PICK word : word = SubSeq(text, at + 1, end)
      OBVIOUS
    <2>3. PICK type : type = IF word \in Keywords THEN "keyword" ELSE "ident"
      OBVIOUS
    <2>4. NewToken(type, word, at, end)
      BY <1>8, <2>1, <2>2, <2>3 DEF ScanIdentifier
    <2>5. end \in 0..L
      <3>1. end \in at..L
        BY <1>3, <1>4, <2>1, AfterIn
      <3> QED
        BY ONLY <1>3, <1>4, <3>1
    <2>6. type # "eof" /\ (type = "keyword" => word # "eof")
      BY <2>3, WordsAndSymbols
    <2> QED
      BY <1>2, <1>3, <2>4, <2>5, <2>6, Adds1
  <1>9. CASE ScanNumber(at)
    <2>1. PICK dot : dot = After(at, Digits)
      OBVIOUS
    <2>2. dot \in 0..L
      <3>1. dot \in at..L
        BY <1>3, <1>4, <2>1, AfterIn
      <3> QED
        BY ONLY <1>3, <1>4, <3>1
    <2>3. CASE CharAt(dot) = "."
      <3>1. PICK end : end = After(dot + 1, Digits)
        OBVIOUS
      <3>2. dot < L
        BY <1>5, <2>3
      <3>3. dot + 1 \in 0..L
        BY ONLY <1>3, <2>2, <3>2
      <3>4. end \in 0..L
        <4>1. end \in (dot + 1)..L
          BY <1>3, <3>1, <3>3, AfterIn
        <4> QED
          BY ONLY <1>3, <3>3, <4>1
      <3>5. PICK word : word = SubSeq(text, at + 1, end)
        OBVIOUS
      <3>6. NewToken("float", word, at, end)
        BY <1>9, <2>1, <2>3, <3>1, <3>5 DEF ScanNumber
      <3> QED
        BY <1>2, <1>3, <3>4, <3>6, Adds1
    <2>4. CASE CharAt(dot) # "."
      <3>1. PICK word : word = SubSeq(text, at + 1, dot)
        OBVIOUS
      <3>2. NewToken("int", word, at, dot)
        BY <1>9, <2>1, <2>4, <3>1 DEF ScanNumber
      <3> QED
        BY <1>2, <1>3, <2>2, <3>2, Adds1
    <2> QED
      BY <2>3, <2>4
  <1>10. CASE ScanString(at)
    <2>1. PICK end : end = Quote(at + 1)
      OBVIOUS
    <2>2. at < L
      BY <1>5, <1>10 DEF ScanString
    <2>3. at + 1 \in 0..L
      BY ONLY <1>3, <1>4, <2>2
    <2>4. end \in 0..L
      <3>1. end \in (at + 1)..L
        BY <1>3, <2>1, <2>3, QuoteIn
      <3> QED
        BY ONLY <1>3, <2>3, <3>1
    <2>5. CASE end = L
      <3>1. scanning' = "error" /\ position' = end /\ UNCHANGED <<text, tokens>>
        BY <1>3, <1>10, <2>1, <2>5 DEF ScanString, LexerError, ReadTo
      <3>2. UNCHANGED <<text, parser>>
        BY <1>2, <3>1
      <3> QED
        BY <1>2, <1>3, <2>4, <3>1, <3>2, Scans
    <2>6. CASE end # L
      <3>1. PICK word : word = Literal(at + 1, end)
        OBVIOUS
      <3>2. NewToken("string", word, at, end + 1)
        BY <1>3, <1>10, <2>1, <2>6, <3>1 DEF ScanString
      <3>3. end + 1 \in 0..L
        BY ONLY <1>3, <2>4, <2>6
      <3> QED
        BY <1>2, <1>3, <3>2, <3>3, Adds1
    <2> QED
      BY <2>5, <2>6
  <1>11. CASE ScanSymbol(at)
    <2>1. PICK found : found = SymbolsAt(at)
      OBVIOUS
    <2>2. CASE found = {}
      <3>1. scanning' = "error" /\ position' = at /\ UNCHANGED <<text, tokens>>
        BY <1>11, <2>1, <2>2 DEF ScanSymbol, LexerError, ReadTo
      <3>2. UNCHANGED <<text, parser>>
        BY <1>2, <3>1
      <3> QED
        BY <1>2, <1>3, <1>4, <3>1, <3>2, Scans
    <2>3. CASE found # {}
      <3>1. PICK first : first = CHOOSE i \in found : \A j \in found : i <= j
        OBVIOUS
      <3>2. PICK s : s = Symbols[first]
        OBVIOUS
      <3>3. NewToken(s, s, at, at + Len(s))
        BY <1>11, <2>1, <2>3, <3>1, <3>2 DEF ScanSymbol
      <3>4. PICK n \in Nat : found \subseteq 0..n
        <4>1. DOMAIN Symbols \subseteq 0..100
          BY DEF Symbols
        <4> QED
          BY <2>1, <4>1 DEF SymbolsAt
      <3>5. first \in found
        <4>1. first = Minimum(found)
          BY <3>1 DEF Minimum
        <4> QED
          BY <2>3, <3>4, <4>1, MinimumIn
      <3>6. first \in DOMAIN Symbols /\ MatchStr(at, s)
        BY <2>1, <3>2, <3>5 DEF SymbolsAt
      <3>7. s # "eof" /\ s # "keyword" /\ Len(s) \in Nat
        BY <3>2, <3>6, WordsAndSymbols, SymbolsAssumption
      <3>8. at + Len(s) <= L
        BY <1>3, <3>6 DEF MatchStr
      <3>9. at + Len(s) \in 0..L
        BY ONLY <1>3, <1>4, <3>7, <3>8
      <3> QED
        BY <1>2, <1>3, <3>3, <3>7, <3>9, Adds1
    <2> QED
      BY <2>2, <2>3
  <1> QED
    BY <1>1, <1>6, <1>7, <1>8, <1>9, <1>10, <1>11

-----------------------------------------------------------------------------
(***************************************************************************)
(* The invariant holds.                                                    *)
(***************************************************************************)
LEMMA InitFits ==
    ASSUME Init
    PROVE  Inv
  <1>1. /\ Len(text) \in Nat /\ position = 0 /\ tokens = <<>> /\ scanning = "on"
        /\ next = 0 /\ error = 0 /\ quiet = FALSE /\ errno \in BOOLEAN
        /\ nodes = <<[t |-> "empty"]>> /\ freed = {} /\ root = Null /\ parsing = "no"
    BY SourcesAssumption DEF Init, InitLexer, InitParser
  <1>2. LexFits
    <2>1. IsSeq(<<>>) /\ Len(<<>>) = 0 /\ 1..0 = {}
      BY DEF IsSeq
    <2>2. 0 \in 0..Len(text)
      BY <1>1
    <2> QED
      BY <1>1, <2>1, <2>2 DEF LexFits
  <1>3. NumbersFit
    <2>1. Len(tokens) = 0
      BY <1>1
    <2>2. next \in 0..Len(tokens) /\ error \in 0..(Len(tokens) + 1)
      BY <1>1, <2>1
    <2>3. quiet \in BOOLEAN /\ errno \in BOOLEAN
      BY <1>1, Zenon
    <2> QED
      BY <2>2, <2>3 DEF NumbersFit
  <1>4. HeapFits
    <2>1. PICK node : node = [t |-> "empty"]
      OBVIOUS
    <2>2. PICK N : N = <<node>>
      OBVIOUS
    <2>3. IsSeq(N) /\ Len(N) = 1 /\ N[1] = node
      BY <2>2, Single
    <2>4. DOMAIN node \ Plain = {} /\ WalkedFields(node.t) = {} /\ Required(node.t) = {}
      <3>1. DOMAIN node = {"t"} /\ node.t = "empty"
        BY <2>1
      <3>2. "t" \in Plain
        BY DEF Plain
      <3>3. WalkedFields("empty") = {}
        BY DEF WalkedFields
      <3>4. Required("empty") = {}
        BY DEF Required
      <3> QED
        BY <3>1, <3>2, <3>3, <3>4
    <2>5. \A n \in 1..1 : n = 1
      OBVIOUS
    <2>6. NodesFit(N)
      BY <2>1, <2>3, <2>4, <2>5 DEF NodesFit
    <2>7. nodes = N
      BY <1>1, <2>1, <2>2
    <2> QED
      BY <1>1, <2>6, <2>7 DEF HeapFits
  <1>5. ParseFits
    BY <1>1 DEF ParseFits
  <1> QED
    BY <1>2, <1>3, <1>4, <1>5 DEF Inv

LEMMA NextFits ==
    ASSUME CodeFits, Inv, [Next]_frontEnd
    PROVE  Inv'
  <1>1. CASE Lex
    BY <1>1, LexKeeps
  <1>2. CASE StartParser
    BY <1>2, StartParserKeeps
  <1>3. CASE RejectText
    BY <1>3, RejectTextKeeps
  <1>4. CASE Parse
    BY <1>4, ParseKeeps
  <1>5. CASE UNCHANGED frontEnd
    <2>1. UNCHANGED <<text, lexer, parser>>
      BY <1>5 DEF frontEnd
    <2>2. LexFits' /\ NumbersFit' /\ HeapFits'
      BY <2>1 DEF Inv, LexFits, NumbersFit, HeapFits, lexer, parser
    <2>3. Mode' = Mode /\ (Broken' <=> Broken)
      BY <2>1 DEF Mode, Broken, lexer, parser
    <2>4. ParseFits'
      BY <2>1, <2>3 DEF Inv, ParseFits, CallsFitted, ResultFits, lexer, parser
    <2> QED
      BY <2>2, <2>4 DEF Inv
  <1> QED
    BY <1>1, <1>2, <1>3, <1>4, <1>5 DEF Next

\* Whatever the sources are, what the lexer and the parser hold fits
\* together, from step to step.
THEOREM FrontEndFits ==
    ASSUME CodeFits
    PROVE  Spec => []Inv
  <1>1. Init => Inv
    BY InitFits
  <1>2. Inv /\ [Next]_frontEnd => Inv'
    BY NextFits
  <1> QED
    BY <1>1, <1>2, PTL DEF Spec

LEMMA FitsIsTyped ==
    ASSUME CodeFits, Inv
    PROVE  TypeOK
  <1>1. PICK L \in Nat : L = Len(nodes)
    BY DEF Inv, HeapFits, NodesFit
  <1>2. DOMAIN nodes = 1..L
    BY <1>1, Sequence DEF Inv, HeapFits, NodesFit
  <1>3. \A n \in DOMAIN nodes : \A f \in DOMAIN nodes[n] \ Plain : ToSet(nodes[n][f]) \subseteq 1..(n - 1)
    <2> SUFFICES ASSUME NEW n \in 1..L, NEW f \in DOMAIN nodes[n] \ Plain PROVE ToSet(nodes[n][f]) \subseteq 1..(n - 1)
      BY <1>2
    <2>1. nodes[n][f] \in Seq(1..(n - 1))
      BY <1>1 DEF Inv, HeapFits, NodesFit
    <2> QED
      BY <2>1, SequenceOfItsElements
  <1>4. root \in {Null} \cup {<<n>> : n \in 1..Len(nodes)}
    BY DEF Inv, ParseFits, ResultFits, IsOne
  <1> QED
    BY <1>3, <1>4 DEF TypeOK, Inv, LexFits, NumbersFit, HeapFits, ParseFits

LEMMA FitsIsWhole ==
    ASSUME Inv
    PROVE  AcceptedIsWhole
  <1> SUFFICES ASSUME Accepted, error = 0, ~quiet
               PROVE  /\ Result \cap freed = {}
                      /\ \A n \in Result : \A f \in Required(nodes[n].t) : nodes[n][f] # Null
    BY DEF AcceptedIsWhole
  <1>1. PICK B : B = Best(nodes, freed, 0, Len(nodes))
    OBVIOUS
  <1>2. ToSet(root) \subseteq B
    BY <1>1 DEF Accepted, Broken, Inv, ParseFits, ResultFits, Owned
  <1>3. ASSUME NEW n \in ToSet(root) PROVE Reached(Children, n) \subseteq B
    <2>1. n \in Best(nodes, freed, 0, Len(nodes)) /\ NodesFit(nodes)
      BY <1>1, <1>2, <1>3 DEF Inv, HeapFits
    <2> QED
      BY <1>1, <2>1, OwnedIn
  <1>4. Result \subseteq B
    BY <1>3 DEF Result
  <1>5. Whole(nodes, freed, B)
    BY <1>1, BestIsWhole
  <1> QED
    BY <1>4, <1>5 DEF Whole

LEMMA FitsHasReason ==
    ASSUME Inv
    PROVE  RejectedWithReason
  <1> SUFFICES ASSUME parsing = "done", root = Null, ~quiet
               PROVE  error \in 1..(Len(tokens) + 1)
    BY DEF RejectedWithReason
  <1>1. ~IsOne(Len(nodes), root)
    BY DEF IsOne, Null
  <1>2. error # 0
    BY <1>1 DEF Inv, ParseFits, ResultFits, Broken
  <1>3. error \in 0..(Len(tokens) + 1) /\ Len(tokens) \in Nat
    BY Sequence DEF Inv, NumbersFit, LexFits
  <1> QED
    BY ONLY <1>2, <1>3

\* The lexer and the parser stay within the text, the tokens and the nodes,
\* and a node is built from nodes there already were: what the compiler walks
\* has no cycles.
THEOREM FrontEndTypeCorrect ==
    ASSUME CodeFits
    PROVE  Spec => []TypeOK
  <1>1. Inv => TypeOK
    BY FitsIsTyped
  <1> QED
    BY <1>1, FrontEndFits, PTL

\* Whatever is written, sound or not: a tree that the parser accepts without
\* complaint holds no node that was destroyed on the way, and in none of its
\* nodes does the compiler find NULL where it needs a node.
THEOREM AcceptedTreesAreWhole ==
    ASSUME CodeFits
    PROVE  Spec => []AcceptedIsWhole
  <1>1. Inv => AcceptedIsWhole
    BY FitsIsWhole
  <1> QED
    BY <1>1, FrontEndFits, PTL

\* Whatever is written: GaParser_ParseString gives no NULL but after it has
\* reported an error at a token, or at the three places where the parser
\* gives up and does not say so.
THEOREM RejectionsAreReported ==
    ASSUME CodeFits
    PROVE  Spec => []RejectedWithReason
  <1>1. Inv => RejectedWithReason
    BY FitsHasReason
  <1> QED
    BY <1>1, FrontEndFits, PTL

=============================================================================
