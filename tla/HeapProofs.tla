----------------------------- MODULE HeapProofs -----------------------------
(***************************************************************************)
(* Proofs about Heap, for any number of objects, cells and weak references *)
(* and every depth of destruction: the life of an object follows its       *)
(* reference count, weak references follow their objects, counts are exact *)
(* until the collector or `super' has put one out, only cycles leak, and   *)
(* reference counting implements the abstract Memory.                      *)
(***************************************************************************)
EXTENDS Heap, SequenceTheorems, FiniteSetTheorems, TLAPS

(***************************************************************************)
(* The inductive invariant.                                                *)
(***************************************************************************)
\* An object whose destruction is in progress is not alive any more.
DyingAreDead == \A i \in 1..Len(dying) : status[dying[i]] # "live"

\* The collector drops references to objects that it has noted before.
CandidatesNoted == \A i \in 1..Len(gc_candidates) : gc_candidates[i] \in miscounted

\* A store that waits is one into a field other than the link.
StoreWaits == storing # NoStore => storing.cell \in Objs \X Names

\* What the program has in hand has not been destroyed.
Sound == \A o \in Objs : InHand(o) => status[o] = "live"

\* What a cell holds, or will when a store that waits has ended.
Contents == [c \in Cells |-> Current(c)]

\* How many of the cells f refer to o.
Count(f, o) == Cardinality({c \in Cells : f[c] = o})

\* The counts are those of the cells f, but for the objects of M.
Counted(counts, f, M) == \A o \in Objs \ M : counts[o] = Count(f, o)

ExactNow == Counted(ref_count, Contents, miscounted)

\* Once an object in hand is gone, the program does not go on.
ExactCounts ==
    Sound =>
        /\ Counted(ref_count, Contents, miscounted)
        /\ storing # NoStore => InHand(storing.cell[1])

LifeInv ==
    /\ TypeOK
    /\ DyingAreDead
    /\ CandidatesNoted
    /\ StoreWaits
    /\ LiveWhileCounted
    /\ WeakReferencesFollow

IInv == LifeInv /\ ExactCounts

-----------------------------------------------------------------------------
(***************************************************************************)
(* Cells and the types of the constants.                                   *)
(***************************************************************************)
LEMMA CellsFinite == IsFiniteSet(Cells)
  <1>1. IsFiniteSet(Fields)
    BY HeapAssumption, FS_AddElement DEF Fields
  <1>2. IsFiniteSet(Objs \X Fields)
    BY <1>1, HeapAssumption, FS_Product
  <1> QED
    BY <1>2, HeapAssumption, FS_Union DEF Cells

\* A field is a cell of an object, and no cell is NULL or belongs to both.
LEMMA FieldCells ==
    /\ \A o \in Objs, n \in Fields :
          <<o, n>> \in Cells /\ <<o, n>> \notin Roots /\ <<o, n>> # NULL
    /\ \A r \in Roots : r \in Cells
    /\ Names \subseteq Fields /\ "link" \in Fields /\ "link" \notin Names
    /\ Objs \subseteq Ref /\ NULL \in Ref /\ NULL \notin Objs
  BY HeapAssumption DEF Cells, Fields, Ref

(***************************************************************************)
(* When one cell changes, what it referred to is referred to once less and *)
(* what it refers to now once more.                                        *)
(***************************************************************************)
LEMMA CountChanges ==
    ASSUME NEW f \in [Cells -> Ref], NEW g \in [Cells -> Ref], NEW c \in Cells,
           \A d \in Cells : d # c => g[d] = f[d], NEW o \in Objs
    PROVE  /\ Count(f, o) \in Nat
           /\ Count(g, o) =
                Count(f, o) + (IF g[c] = o THEN 1 ELSE 0) - (IF f[c] = o THEN 1 ELSE 0)
  <1> DEFINE F == {x \in Cells : f[x] = o}
             G == {x \in Cells : g[x] = o}
  <1>1. /\ IsFiniteSet(F) /\ IsFiniteSet(G)
        /\ Cardinality(F) \in Nat /\ Cardinality(G) \in Nat
    <2>1. F \in SUBSET Cells /\ G \in SUBSET Cells
      OBVIOUS
    <2> HIDE DEF F, G
    <2>2. IsFiniteSet(F) /\ IsFiniteSet(G)
      BY <2>1, CellsFinite, FS_Subset
    <2> QED
      BY <2>2, FS_CardinalityType
  <1>2. /\ Count(f, o) = Cardinality(F) /\ Count(g, o) = Cardinality(G)
    BY DEF Count
  <1>3. CASE g[c] = o /\ f[c] = o
    <2>1. F = G
      BY <1>3
    <2> HIDE DEF F, G
    <2>2. Cardinality(G) = Cardinality(F)
      BY <2>1
    <2> QED
      BY <1>1, <1>2, <1>3, <2>2
  <1>4. CASE g[c] = o /\ f[c] # o
    <2>1. G = F \cup {c} /\ c \notin F
      BY <1>4
    <2> HIDE DEF F, G
    <2>2. Cardinality(G) = Cardinality(F) + 1
      BY <1>1, <2>1, FS_AddElement
    <2> QED
      BY <1>1, <1>2, <1>4, <2>2
  <1>5. CASE g[c] # o /\ f[c] = o
    <2>1. G = F \ {c} /\ c \in F
      BY <1>5
    <2> HIDE DEF F, G
    <2>2. Cardinality(G) = Cardinality(F) - 1
      BY <1>1, <2>1, FS_RemoveElement
    <2> QED
      BY <1>1, <1>2, <1>5, <2>2
  <1>6. CASE g[c] # o /\ f[c] # o
    <2>1. F = G
      BY <1>6
    <2> HIDE DEF F, G
    <2>2. Cardinality(G) = Cardinality(F)
      BY <2>1
    <2> QED
      BY <1>1, <1>2, <1>6, <2>2
  <1> QED
    BY <1>3, <1>4, <1>5, <1>6

\* When one cell changes and the counts with it, counts stay those of the cells.
LEMMA CountedChange ==
    ASSUME NEW f \in [Cells -> Ref], NEW g \in [Cells -> Ref], NEW c \in Cells,
           \A d \in Cells : d # c => g[d] = f[d],
           NEW counts, NEW after, NEW M, Counted(counts, f, M),
           \A o \in Objs \ M : after[o] = counts[o] + (IF g[c] = o THEN 1 ELSE 0)
                                          - (IF f[c] = o THEN 1 ELSE 0)
    PROVE  Counted(after, g, M)
  <1> SUFFICES ASSUME NEW o \in Objs \ M PROVE after[o] = Count(g, o)
    BY DEF Counted
  <1>1. /\ Count(f, o) \in Nat
        /\ Count(g, o) =
             Count(f, o) + (IF g[c] = o THEN 1 ELSE 0) - (IF f[c] = o THEN 1 ELSE 0)
    BY CountChanges
  <1>2. counts[o] = Count(f, o)
    BY DEF Counted
  <1> QED
    BY <1>1, <1>2

-----------------------------------------------------------------------------
(***************************************************************************)
(* Decrementing a count, which may destroy the object.                     *)
(***************************************************************************)
\* An object that is destroyed is gone for every weak reference.
LEMMA DestroyLife ==
    ASSUME TypeOK, DyingAreDead, WeakReferencesFollow,
           NEW o \in Objs, status[o] = "live", Destroy(o), kind' = kind
    PROVE  /\ status' \in [Objs -> {"free", "live", "dying"}]
           /\ \A x \in Objs : status'[x] = IF x = o THEN "dying" ELSE status[x]
           /\ dying' \in Seq(Objs)
           /\ \A i, j \in 1..Len(dying') : dying'[i] = dying'[j] => i = j
           /\ DyingAreDead'
           /\ target' \in [Objs -> Ref] /\ weak_refs' \in [Objs -> SUBSET Objs]
           /\ WeakReferencesFollow'
  <1>1. /\ status \in [Objs -> {"free", "live", "dying"}]
        /\ status' = [status EXCEPT ![o] = "dying"]
        /\ dying \in Seq(Objs) /\ dying' = <<o>> \o dying
        /\ \A i, j \in 1..Len(dying) : dying[i] = dying[j] => i = j
    BY DEF TypeOK, Destroy
  <1>2. /\ dying' \in Seq(Objs) /\ Len(dying') = Len(dying) + 1
        /\ dying'[1] = o /\ Len(dying) \in Nat
        /\ \A i \in 2..Len(dying') :
              dying'[i] = dying[i - 1] /\ i - 1 \in 1..Len(dying)
    <2>1. <<o>> \in Seq(Objs) /\ Len(<<o>>) = 1 /\ <<o>>[1] = o
      OBVIOUS
    <2>2. Len(dying) \in Nat
      BY <1>1, LenProperties
    <2> HIDE DEF TypeOK
    <2>3. /\ dying' \in Seq(Objs) /\ Len(dying') = 1 + Len(dying)
          /\ \A i \in 1..(1 + Len(dying)) :
                dying'[i] = IF i <= 1 THEN <<o>>[i] ELSE dying[i - 1]
      BY <1>1, <2>1, ConcatProperties
    <2> QED
      BY <2>1, <2>2, <2>3
  <1>3. \A x \in Objs : status'[x] = IF x = o THEN "dying" ELSE status[x]
    BY <1>1
  <1>4. \A i \in 1..Len(dying) : dying[i] \in Objs /\ status[dying[i]] # "live"
    BY <1>1, ElementOfSeq DEF DyingAreDead
  <1>5. \A i, j \in 1..Len(dying') : dying'[i] = dying'[j] => i = j
    <2> SUFFICES ASSUME NEW i \in 1..Len(dying'), NEW j \in 1..Len(dying'),
                        dying'[i] = dying'[j]
                 PROVE  i = j
      OBVIOUS
    <2>1. CASE i = 1 \/ j = 1
      BY <1>2, <1>4, <2>1
    <2>2. CASE i # 1 /\ j # 1
      <3>1. i \in 2..Len(dying') /\ j \in 2..Len(dying')
        BY <1>2, <2>2
      <3>2. i - 1 = j - 1
        BY <1>1, <1>2, <3>1
      <3> QED
        BY <1>2, <3>2
    <2> QED
      BY <2>1, <2>2
  <1>6. DyingAreDead'
    <2> SUFFICES ASSUME NEW i \in 1..Len(dying')
                 PROVE  status'[dying'[i]] # "live"
      BY DEF DyingAreDead
    <2>1. i = 1 \/ i \in 2..Len(dying')
      BY <1>2
    <2> QED
      BY <1>2, <1>3, <1>4, <2>1
  <1>7. /\ \A w \in Objs : target'[w] = IF w \in weak_refs[o] THEN NULL ELSE target[w]
        /\ \A x \in Objs : weak_refs'[x] =
              IF x = o THEN {}
              ELSE IF kind[o] = "weak" /\ target[o] = x THEN weak_refs[x] \ {o}
              ELSE weak_refs[x]
        /\ target' \in [Objs -> Ref] /\ weak_refs' \in [Objs -> SUBSET Objs]
    BY FieldCells DEF TypeOK, Destroy, Registrations
  <1>8. WeakReferencesFollow'
    <2>1. ASSUME NEW w \in Objs, status'[w] = "live", kind[w] = "weak", target'[w] # NULL
          PROVE  /\ target'[w] \in Objs /\ status'[target'[w]] = "live"
                 /\ w \in weak_refs'[target'[w]]
      <3>1. w # o /\ status[w] = "live" /\ target'[w] = target[w] /\ w \notin weak_refs[o]
        BY <1>3, <1>7, <2>1
      <3>2. /\ target[w] \in Objs /\ status[target[w]] = "live"
            /\ w \in weak_refs[target[w]]
        BY <2>1, <3>1 DEF WeakReferencesFollow, Live
      <3> QED
        BY <1>3, <1>7, <3>1, <3>2
    <2>2. ASSUME NEW x \in Objs, status'[x] = "live", NEW w \in weak_refs'[x]
          PROVE  w \in Objs /\ status'[w] = "live" /\ kind[w] = "weak" /\ target'[w] = x
      <3>1. x # o /\ status[x] = "live" /\ w \in weak_refs[x]
        BY <1>3, <1>7, <2>2
      <3>2. w \in Objs /\ status[w] = "live" /\ kind[w] = "weak" /\ target[w] = x
        BY <3>1 DEF WeakReferencesFollow, Live
      <3>3. w # o
        BY <1>7, <2>2, <3>1, <3>2
      <3>4. w \notin weak_refs[o]
        BY <3>1, <3>2 DEF WeakReferencesFollow, Live
      <3> QED
        BY <1>3, <1>7, <3>2, <3>3, <3>4
    <2> QED
      BY <2>1, <2>2 DEF WeakReferencesFollow, Live
  <1> QED
    BY <1>1, <1>2, <1>3, <1>5, <1>6, <1>7, <1>8

\* The count of o is one less; o is destroyed if that was the last reference.
LEMMA DecRefLife ==
    ASSUME TypeOK, DyingAreDead, WeakReferencesFollow, kind' = kind,
           NEW counts \in [Objs -> Int], NEW o \in Objs,
           \A x \in Objs : status[x] = "live" <=> counts[x] > 0,
           DecRef(counts, o)
    PROVE  /\ ref_count' \in [Objs -> Int]
           /\ \A x \in Objs : ref_count'[x] = IF x = o THEN counts[x] - 1 ELSE counts[x]
           /\ status' \in [Objs -> {"free", "live", "dying"}]
           /\ \A x \in Objs : status'[x] = "live" => status[x] = "live"
           /\ dying' \in Seq(Objs)
           /\ \A i, j \in 1..Len(dying') : dying'[i] = dying'[j] => i = j
           /\ DyingAreDead'
           /\ target' \in [Objs -> Ref] /\ weak_refs' \in [Objs -> SUBSET Objs]
           /\ LiveWhileCounted'
           /\ WeakReferencesFollow'
  <1>1. /\ ref_count' \in [Objs -> Int]
        /\ \A x \in Objs : ref_count'[x] = IF x = o THEN counts[x] - 1 ELSE counts[x]
    BY DEF DecRef
  <1>2. CASE counts[o] = 1
    <2>1. Destroy(o) /\ status[o] = "live"
      BY <1>2 DEF DecRef, LastReference
    <2>2. /\ status' \in [Objs -> {"free", "live", "dying"}]
          /\ \A x \in Objs : status'[x] = IF x = o THEN "dying" ELSE status[x]
          /\ dying' \in Seq(Objs)
          /\ \A i, j \in 1..Len(dying') : dying'[i] = dying'[j] => i = j
          /\ DyingAreDead'
          /\ target' \in [Objs -> Ref] /\ weak_refs' \in [Objs -> SUBSET Objs]
          /\ WeakReferencesFollow'
      BY <2>1, DestroyLife
    <2>3. LiveWhileCounted'
      <3> SUFFICES ASSUME NEW x \in Objs
                   PROVE  status'[x] = "live" <=> ref_count'[x] > 0
        BY DEF LiveWhileCounted, Live
      <3>1. CASE x = o
        BY <1>1, <1>2, <2>2, <3>1
      <3>2. CASE x # o
        BY <1>1, <2>2, <3>2
      <3> QED
        BY <3>1, <3>2
    <2> QED
      BY <1>1, <2>2, <2>3
  <1>3. CASE counts[o] # 1
    <2>1. UNCHANGED <<status, dying, target, weak_refs>>
      BY <1>3 DEF DecRef, LastReference
    <2>2. LiveWhileCounted'
      <3> SUFFICES ASSUME NEW x \in Objs
                   PROVE  status'[x] = "live" <=> ref_count'[x] > 0
        BY DEF LiveWhileCounted, Live
      <3> QED
        BY <1>1, <1>3, <2>1
    <2>3. WeakReferencesFollow' /\ DyingAreDead'
      BY <2>1 DEF WeakReferencesFollow, Live, DyingAreDead
    <2> QED
      BY <1>1, <2>1, <2>2, <2>3 DEF TypeOK
  <1> QED
    BY <1>2, <1>3

-----------------------------------------------------------------------------
(***************************************************************************)
(* The program runs.                                                       *)
(***************************************************************************)
\* Without a store that waits, cells hold what they hold.
LEMMA ContentsAreCells ==
    /\ storing = NoStore /\ cell \in [Cells -> Ref] => Contents = cell
    /\ storing' = NoStore /\ cell' \in [Cells -> Ref] => Contents' = cell'
  BY DEF Contents, Current

\* When the program runs, all it can come upon is alive and counts are exact.
LEMMA RunningFacts ==
    ASSUME IInv, Running
    PROVE  /\ dying = <<>> /\ storing = NoStore /\ gc_candidates = <<>>
           /\ cell \in [Cells -> Ref] /\ ref_count \in [Objs -> Int]
           /\ Contents = cell
           /\ \A c \in Cells : cell[c] # NULL => cell[c] \in Objs /\ status[cell[c]] = "live"
           /\ \A o \in Objs, n \in Fields : status[o] # "live" => cell[<<o, n>>] = NULL
           /\ \A o : InHand(o) => o \in Objs /\ status[o] = "live"
           /\ \A o, by : Held(o) \/ Captured(o, by) => o \in Objs /\ status[o] = "live"
           /\ \A o \in Objs : status[o] = "live" <=> ref_count[o] > 0
           /\ Counted(ref_count, cell, miscounted)
  <1>1. /\ dying = <<>> /\ storing = NoStore /\ gc_candidates = <<>>
        /\ cell \in [Cells -> Ref] /\ ref_count \in [Objs -> Int]
    BY DEF Running, IInv, LifeInv, TypeOK
  <1>2. Contents = cell
    BY <1>1, ContentsAreCells
  <1>3. \A c \in Cells : cell[c] # NULL => cell[c] \in Objs /\ status[cell[c]] = "live"
    BY <1>1 DEF Running, Intact, Ref
  <1>4. \A o \in Objs, n \in Fields : status[o] # "live" => cell[<<o, n>>] = NULL
    BY FieldCells DEF Running, Intact, Owned
  <1>5. \A o, by : Held(o) \/ Captured(o, by) => o \in Objs /\ status[o] = "live"
    BY <1>3, FieldCells DEF Held, Captured, Refers
  <1>6. \A o : InHand(o) => o \in Objs /\ status[o] = "live"
    BY <1>5 DEF InHand
  <1>7. \A o \in Objs : status[o] = "live" <=> ref_count[o] > 0
    BY DEF IInv, LifeInv, LiveWhileCounted, Live
  <1>8. Counted(ref_count, cell, miscounted)
    BY <1>2, <1>6 DEF IInv, ExactCounts, Sound
  <1> QED
    BY <1>1, <1>2, <1>3, <1>4, <1>5, <1>6, <1>7, <1>8

\* A step that makes, destroys and weakly refers to nothing.
LEMMA QuietLife ==
    ASSUME LifeInv, UNCHANGED <<status, kind, weakVars, dying>>,
           cell' \in [Cells -> Ref], ref_count' \in [Objs -> Int],
           \A x \in Objs : status[x] = "live" <=> ref_count'[x] > 0,
           storing' \in {NoStore} \cup [cell : Cells, val : Ref], StoreWaits',
           gc_candidates' \in Seq(Objs), miscounted' \subseteq Objs, CandidatesNoted'
    PROVE  LifeInv'
  <1>1. TypeOK' /\ DyingAreDead'
    BY DEF LifeInv, TypeOK, DyingAreDead, weakVars
  <1>2. LiveWhileCounted' /\ WeakReferencesFollow'
    BY DEF LifeInv, LiveWhileCounted, WeakReferencesFollow, Live, weakVars
  <1> QED
    BY <1>1, <1>2 DEF LifeInv

\* A reference is taken to an object that is alive.
LEMMA TakeInv ==
    ASSUME IInv, Running, NEW o \in Objs, status[o] = "live", NEW r \in Roots, Take(o, r)
    PROVE  IInv' /\ ExactNow'
  <1>1. /\ r \in Cells /\ o \in Ref /\ cell[r] = NULL /\ NULL \notin Objs
        /\ cell' = [cell EXCEPT ![r] = o]
        /\ ref_count' = [ref_count EXCEPT ![o] = @ + 1]
        /\ UNCHANGED <<status, kind, weakVars, dying, storing, gcVars>>
    BY FieldCells DEF Take, Inc
  <1>2. /\ cell' \in [Cells -> Ref] /\ ref_count' \in [Objs -> Int]
        /\ \A x \in Objs : ref_count'[x] = ref_count[x] + (IF o = x THEN 1 ELSE 0)
    BY <1>1, RunningFacts
  <1>3. LifeInv'
    <2>1. \A x \in Objs : status[x] = "live" <=> ref_count'[x] > 0
      BY <1>2, RunningFacts
    <2>2. /\ storing' \in {NoStore} \cup [cell : Cells, val : Ref] /\ StoreWaits'
          /\ gc_candidates' \in Seq(Objs) /\ miscounted' \subseteq Objs
          /\ CandidatesNoted'
      BY <1>1 DEF IInv, LifeInv, TypeOK, StoreWaits, CandidatesNoted, gcVars
    <2> QED
      BY <1>1, <1>2, <2>1, <2>2, QuietLife DEF IInv
  <1>4. ExactCounts' /\ ExactNow'
    <2>1. storing' = NoStore /\ Contents' = cell' /\ miscounted' = miscounted
      BY <1>1, <1>2, RunningFacts, ContentsAreCells DEF gcVars
    <2>2. Counted(ref_count', cell', miscounted)
      <3>1. Counted(ref_count, cell, miscounted) /\ cell \in [Cells -> Ref]
        BY RunningFacts
      <3>2. \A d \in Cells : d # r => cell'[d] = cell[d]
        BY <1>1, <3>1
      <3>3. \A x \in Objs \ miscounted :
              ref_count'[x] = ref_count[x] + (IF cell'[r] = x THEN 1 ELSE 0)
                              - (IF cell[r] = x THEN 1 ELSE 0)
        BY <1>1, <1>2, <3>1, RunningFacts
      <3>4. r \in Cells /\ cell' \in [Cells -> Ref]
        BY <1>1, <1>2
      <3> QED
        BY <3>1, <3>2, <3>3, <3>4, CountedChange
    <2> QED
      BY <2>1, <2>2 DEF ExactCounts, ExactNow
  <1> QED
    BY <1>3, <1>4 DEF IInv

\* DUP copies a reference that a cell of the program holds.
LEMMA DupInv ==
    ASSUME IInv, NEW r \in Roots, NEW s \in Roots, Dup(r, s) PROVE IInv' /\ ExactNow'
  <1>1. Running /\ cell[r] # NULL /\ Take(cell[r], s)
    BY DEF Dup
  <1>2. cell[r] \in Objs /\ status[cell[r]] = "live"
    BY <1>1, RunningFacts, FieldCells
  <1> QED
    BY <1>1, <1>2, TakeInv

\* LOAD_FAST, LOAD_ATTRIBUTE and LOAD_INDEX take the value of a field.
LEMMA LoadInv ==
    ASSUME IInv, NEW o \in Objs, NEW n \in Names, NEW r \in Roots, Load(o, n, r)
    PROVE  IInv' /\ ExactNow'
  <1>1. Running /\ cell[<<o, n>>] # NULL /\ Take(cell[<<o, n>>], r)
    BY DEF Load
  <1>2. <<o, n>> \in Cells
    BY FieldCells
  <1>3. cell[<<o, n>>] \in Objs /\ status[cell[<<o, n>>]] = "live"
    BY <1>1, <1>2, RunningFacts
  <1> QED
    BY <1>1, <1>3, TakeInv

\* What a weak reference in hand refers to is alive.
LEMMA LoadWeakInv ==
    ASSUME IInv, NEW w \in Objs, NEW r \in Roots, LoadWeak(w, r) PROVE IInv' /\ ExactNow'
  <1>1. Running /\ kind[w] = "weak" /\ target[w] # NULL /\ Held(w) /\ Take(target[w], r)
    BY DEF LoadWeak
  <1>2. status[w] = "live"
    BY <1>1, RunningFacts
  <1>3. target[w] \in Objs /\ status[target[w]] = "live"
    BY <1>1, <1>2 DEF IInv, LifeInv, WeakReferencesFollow, Live
  <1> QED
    BY <1>1, <1>3, TakeInv

\* The object of the base class is linked.
LEMMA SetSuperInv ==
    ASSUME IInv, NEW o \in Objs, NEW super \in Objs, SetSuper(o, super) PROVE IInv' /\ ExactNow'
  <1> DEFINE c == <<o, "link">>
  <1>1. /\ Running /\ Held(super) /\ cell[c] = NULL
        /\ ref_count' = [ref_count EXCEPT ![super] = @ + 1]
        /\ cell' = [cell EXCEPT ![c] = super]
        /\ UNCHANGED <<status, kind, weakVars, dying, storing, gcVars>>
    BY DEF SetSuper, Inc
  <1>2. c \in Cells /\ super \in Ref /\ NULL \notin Objs /\ status[super] = "live"
    BY <1>1, FieldCells, RunningFacts
  <1> HIDE DEF c
  <1>3. /\ cell \in [Cells -> Ref] /\ cell' \in [Cells -> Ref]
        /\ ref_count' \in [Objs -> Int] /\ cell'[c] = super
        /\ \A x \in Objs : ref_count'[x] = ref_count[x] + (IF super = x THEN 1 ELSE 0)
    BY <1>1, <1>2, RunningFacts
  <1>4. LifeInv'
    <2>1. \A x \in Objs : status[x] = "live" <=> ref_count'[x] > 0
      BY <1>1, <1>2, <1>3, RunningFacts
    <2>2. /\ storing' \in {NoStore} \cup [cell : Cells, val : Ref] /\ StoreWaits'
          /\ gc_candidates' \in Seq(Objs) /\ miscounted' \subseteq Objs
          /\ CandidatesNoted'
      BY <1>1 DEF IInv, LifeInv, TypeOK, StoreWaits, CandidatesNoted, gcVars
    <2> QED
      BY <1>1, <1>3, <2>1, <2>2, QuietLife DEF IInv
  <1>5. ExactCounts' /\ ExactNow'
    <2>1. storing' = NoStore /\ Contents' = cell' /\ miscounted' = miscounted
      BY <1>1, <1>3, RunningFacts, ContentsAreCells DEF gcVars
    <2>2. Counted(ref_count', cell', miscounted)
      <3>1. Counted(ref_count, cell, miscounted)
        BY <1>1, RunningFacts
      <3>2. \A d \in Cells : d # c => cell'[d] = cell[d]
        BY <1>1, <1>3
      <3>3. \A x \in Objs \ miscounted :
              ref_count'[x] = ref_count[x] + (IF cell'[c] = x THEN 1 ELSE 0)
                              - (IF cell[c] = x THEN 1 ELSE 0)
        BY <1>1, <1>2, <1>3, RunningFacts
      <3> QED
        BY <1>2, <1>3, <3>1, <3>2, <3>3, CountedChange
    <2> QED
      BY <2>1, <2>2 DEF ExactCounts, ExactNow
  <1> QED
    BY <1>4, <1>5 DEF IInv

(***************************************************************************)
(* A field is replaced, in cells and with counts that the action may have  *)
(* changed before, and the value that was there is perhaps destroyed.      *)
(***************************************************************************)
LEMMA SetFieldLife ==
    ASSUME IInv, Running, NEW o \in Objs, NEW n \in Names, NEW val \in Ref,
           NEW counts \in [Objs -> Int], NEW cells \in [Cells -> Ref],
           \A x \in Objs : status[x] = "live" <=> counts[x] > 0,
           SetField(o, n, val, counts, cells), kind' = kind,
           gc_candidates' = gc_candidates, miscounted' \subseteq Objs
    PROVE  /\ LifeInv'
           /\ Contents' = [cells EXCEPT ![<<o, n>>] = val]
           /\ \A x \in Objs : ref_count'[x] =
                counts[x] - (IF cell[<<o, n>>] = x THEN 1 ELSE 0)
           /\ storing' # NoStore => storing'.cell = <<o, n>> /\ cell' = cells
  <1> DEFINE c == <<o, n>>
             old == cell[c]
             waits == old # NULL /\ LastReference(counts, old)
  <1>1. c \in Cells /\ c # NULL /\ c \in Objs \X Names /\ NULL \notin Objs
    BY FieldCells
  <1>2. old \in Ref /\ (old # NULL => old \in Objs)
    BY <1>1, RunningFacts DEF Ref
  <1>3. /\ old = NULL => ref_count' = counts /\ UNCHANGED <<status, dying, weakVars>>
        /\ old # NULL => DecRef(counts, old)
        /\ cell' = IF waits THEN cells ELSE [cells EXCEPT ![c] = val]
        /\ storing' = IF waits THEN [cell |-> c, val |-> val] ELSE NoStore
    BY DEF SetField
  <1> HIDE DEF c, waits
  <1>4. /\ TypeOK /\ DyingAreDead /\ WeakReferencesFollow /\ LiveWhileCounted
        /\ CandidatesNoted
    BY DEF IInv, LifeInv
  <1>5. /\ ref_count' \in [Objs -> Int]
        /\ \A x \in Objs : ref_count'[x] = counts[x] - (IF old = x THEN 1 ELSE 0)
        /\ status' \in [Objs -> {"free", "live", "dying"}]
        /\ dying' \in Seq(Objs)
        /\ \A i, j \in 1..Len(dying') : dying'[i] = dying'[j] => i = j
        /\ target' \in [Objs -> Ref] /\ weak_refs' \in [Objs -> SUBSET Objs]
        /\ DyingAreDead' /\ LiveWhileCounted' /\ WeakReferencesFollow'
    <2>1. CASE old = NULL
      <3>1. ref_count' = counts /\ UNCHANGED <<status, dying, target, weak_refs>>
        BY <1>3, <2>1 DEF weakVars
      <3>2. DyingAreDead' /\ LiveWhileCounted' /\ WeakReferencesFollow'
        BY <1>4, <3>1 DEF DyingAreDead, LiveWhileCounted, WeakReferencesFollow, Live
      <3>3. \A x \in Objs : counts[x] = counts[x] - (IF old = x THEN 1 ELSE 0)
        BY <1>1, <2>1
      <3> QED
        BY <1>4, <3>1, <3>2, <3>3 DEF TypeOK
    <2>2. CASE old # NULL
      <3> HIDE DEF old
      <3>1. old \in Objs /\ DecRef(counts, old)
        BY <1>2, <1>3, <2>2
      <3>2. \A x \in Objs : ref_count'[x] = IF x = old THEN counts[x] - 1 ELSE counts[x]
        BY <1>4, <3>1, DecRefLife
      <3>3. \A x \in Objs : ref_count'[x] = counts[x] - (IF old = x THEN 1 ELSE 0)
        BY <3>2
      <3> QED
        BY <1>4, <3>1, <3>3, DecRefLife
    <2> QED
      BY <2>1, <2>2
  <1>6. /\ cell' \in [Cells -> Ref]
        /\ storing' \in {NoStore} \cup [cell : Cells, val : Ref] /\ StoreWaits'
        /\ Contents' = [cells EXCEPT ![c] = val]
        /\ storing' # NoStore => storing'.cell = c /\ cell' = cells
    <2>1. CASE waits
      <3>1. cell' = cells /\ storing' = [cell |-> c, val |-> val]
        BY <1>3, <2>1
      <3>2. storing' # NoStore
        BY <1>1, <3>1 DEF NoStore
      <3>3. \A d \in Cells : Contents'[d] = IF d = c THEN val ELSE cells[d]
        BY <3>1, <3>2 DEF Contents, Current
      <3> QED
        BY <1>1, <3>1, <3>2, <3>3 DEF StoreWaits, Contents
    <2>2. CASE ~waits
      <3>1. cell' = [cells EXCEPT ![c] = val] /\ storing' = NoStore
        BY <1>3, <2>2
      <3>2. cell' \in [Cells -> Ref]
        BY <1>1, <3>1
      <3> QED
        BY <3>1, <3>2, ContentsAreCells DEF StoreWaits
    <2> QED
      BY <2>1, <2>2
  <1>7. /\ kind' \in [Objs -> AllKinds] /\ gc_candidates' \in Seq(Objs)
        /\ gc_candidates = <<>>
    BY <1>4, RunningFacts DEF TypeOK
  <1>8. TypeOK' /\ CandidatesNoted'
    BY <1>5, <1>6, <1>7 DEF TypeOK, CandidatesNoted
  <1> QED
    BY <1>5, <1>6, <1>8 DEF LifeInv, c

\* STORE_FAST moves a reference, the other stores add one.
LEMMA StoreInv ==
    ASSUME IInv, NEW o \in Objs, NEW n \in Names, NEW r \in Roots, Store(o, n, r)
    PROVE  IInv' /\ ExactNow' /\ (storing' # NoStore => InHand(storing.cell[1])')
  <1> DEFINE c == <<o, n>>
             val == cell[r]
             frame == kind[o] = "frame"
             cells == IF frame THEN [cell EXCEPT ![r] = NULL] ELSE cell
             counts == CountsForStore(o, ref_count, val)
  <1>1. /\ Running /\ InHand(o) /\ val # NULL /\ kind[val] # "frame"
        /\ SetField(o, n, val, counts, cells)
        /\ UNCHANGED <<kind, gcVars>>
    BY DEF Store
  <1>2. /\ r \in Cells /\ c \in Cells /\ c # r /\ c \notin Roots
        /\ val \in Objs /\ val \in Ref /\ status[val] = "live"
        /\ cell \in [Cells -> Ref] /\ ref_count \in [Objs -> Int]
        /\ NULL \in Ref /\ NULL \notin Objs
    BY <1>1, FieldCells, RunningFacts
  <1>3. /\ counts \in [Objs -> Int]
        /\ \A x \in Objs : counts[x] =
             ref_count[x] + (IF ~frame /\ val = x THEN 1 ELSE 0)
    BY <1>2 DEF CountsForStore, Inc
  <1>4. /\ cells \in [Cells -> Ref] /\ cells[c] = cell[c]
        /\ \A d \in Cells : d # r => cells[d] = cell[d]
        /\ cells[r] = IF frame THEN NULL ELSE val
    BY <1>2
  <1> HIDE DEF c, val, frame, cells, counts
  <1>5. \A x \in Objs : status[x] = "live" <=> counts[x] > 0
    BY <1>1, <1>2, <1>3, RunningFacts
  <1>6. gc_candidates' = gc_candidates /\ miscounted' \subseteq Objs
    BY <1>1 DEF gcVars, IInv, LifeInv, TypeOK
  <1>7. /\ LifeInv' /\ Contents' = [cells EXCEPT ![c] = val]
        /\ \A x \in Objs : ref_count'[x] = counts[x] - (IF cell[c] = x THEN 1 ELSE 0)
        /\ storing' # NoStore => storing'.cell = c /\ cell' = cells
    BY <1>1, <1>2, <1>3, <1>4, <1>5, <1>6, SetFieldLife DEF c
  <1>8. Counted(ref_count', Contents', miscounted)
    <2> DEFINE moved == [x \in Objs |-> ref_count[x] - (IF frame /\ val = x THEN 1 ELSE 0)]
    <2>1. Counted(moved, cells, miscounted)
      <3>1. Counted(ref_count, cell, miscounted)
        BY <1>1, RunningFacts
      <3>2. \A x \in Objs \ miscounted :
              moved[x] = ref_count[x] + (IF cells[r] = x THEN 1 ELSE 0)
                         - (IF cell[r] = x THEN 1 ELSE 0)
        BY <1>2, <1>4 DEF val
      <3> HIDE DEF moved
      <3> QED
        BY <1>2, <1>4, <3>1, <3>2, CountedChange
    <2>2. /\ Contents' \in [Cells -> Ref] /\ Contents'[c] = val
          /\ \A d \in Cells : d # c => Contents'[d] = cells[d]
      BY <1>2, <1>4, <1>7
    <2>3. \A x \in Objs \ miscounted :
            ref_count'[x] = moved[x] + (IF Contents'[c] = x THEN 1 ELSE 0)
                            - (IF cells[c] = x THEN 1 ELSE 0)
      BY <1>2, <1>3, <1>4, <1>7, <2>2
    <2> HIDE DEF moved
    <2> QED
      BY <1>2, <1>4, <2>1, <2>2, <2>3, CountedChange
  <1>9. cell' = cells => InHand(o)'
    <2> SUFFICES ASSUME cell' = cells PROVE InHand(o)'
      OBVIOUS
    <2>1. kind' = kind
      BY <1>1
    <2>2. ASSUME NEW x \in Objs, Held(x), kind[x] = "frame" PROVE Held(x)'
      <3>1. PICK s \in Roots : cell[s] = x
        BY <2>2 DEF Held, Refers
      <3>2. s # r /\ s \in Cells
        BY <1>1, <2>2, <3>1, FieldCells DEF val
      <3> QED
        BY <1>4, <3>1, <3>2 DEF Held, Refers
    <2>3. CASE Held(o)
      <3>1. CASE frame
        BY <2>2, <2>3, <3>1 DEF frame, InHand
      <3>2. CASE ~frame
        <4>1. cell' = cell
          BY <3>2 DEF cells
        <4> QED
          BY <2>3, <4>1 DEF InHand, Held, Refers
      <3> QED
        BY <3>1, <3>2
    <2>4. CASE ~Held(o)
      <3>1. PICK x \in Objs : kind[x] = "frame" /\ Held(x) /\ cell[<<x, "link">>] = o
        BY <1>1, <2>4 DEF InHand, Captured, Refers
      <3>2. <<x, "link">> \in Cells /\ <<x, "link">> # r
        BY FieldCells
      <3>3. cell'[<<x, "link">>] = o
        BY <1>4, <3>1, <3>2
      <3> QED
        BY <2>1, <2>2, <3>1, <3>3 DEF InHand, Captured, Refers
    <2> QED
      BY <2>3, <2>4
  <1>10. miscounted' = miscounted /\ (storing' # NoStore => storing'.cell[1] = o)
    BY <1>1, <1>7 DEF gcVars, c
  <1> QED
    BY <1>7, <1>8, <1>9, <1>10 DEF IInv, ExactCounts, ExactNow

\* The link that `super' replaces has put out the count of what was there.
LEMMA SuperInv ==
    ASSUME IInv, NEW o \in Objs, NEW n \in Names, NEW super \in Objs, Super(o, n, super)
    PROVE  IInv' /\ ExactNow'
  <1> DEFINE c == <<o, n>>
             link == <<o, "link">>
             before == cell[link]
             cells == [cell EXCEPT ![link] = super]
             counts == CountsForStore(o, Inc(ref_count, super), super)
  <1>1. /\ Running /\ Held(o) /\ Held(super) /\ kind[o] # "frame"
        /\ SetField(o, n, super, counts, cells) /\ kind' = kind
        /\ miscounted' = miscounted \cup ({before} \ {NULL})
        /\ gc_candidates' = gc_candidates
    BY DEF Super
  <1>2. /\ c \in Cells /\ link \in Cells /\ c # link /\ link \notin Roots
        /\ super \in Ref /\ status[super] = "live"
        /\ cell \in [Cells -> Ref] /\ ref_count \in [Objs -> Int]
        /\ NULL \notin Objs
    BY <1>1, FieldCells, RunningFacts
  <1>3. /\ counts \in [Objs -> Int]
        /\ \A x \in Objs : counts[x] = ref_count[x] + (IF super = x THEN 2 ELSE 0)
    BY <1>1, <1>2 DEF CountsForStore, Inc
  <1>4. /\ cells \in [Cells -> Ref] /\ cells[c] = cell[c]
        /\ \A d \in Cells : d # link => cells[d] = cell[d]
        /\ cells[link] = super
    BY <1>2
  <1>5. miscounted' \subseteq Objs
    <2>1. before \in Ref /\ miscounted \subseteq Objs
      BY <1>2 DEF IInv, LifeInv, TypeOK
    <2> QED
      BY <1>1, <2>1 DEF Ref
  <1> HIDE DEF c, link, before, cells, counts
  <1>6. \A x \in Objs : status[x] = "live" <=> counts[x] > 0
    BY <1>1, <1>2, <1>3, RunningFacts
  <1>7. /\ LifeInv' /\ Contents' = [cells EXCEPT ![c] = super]
        /\ \A x \in Objs : ref_count'[x] = counts[x] - (IF cell[c] = x THEN 1 ELSE 0)
        /\ storing' # NoStore => storing'.cell = c /\ cell' = cells
    BY <1>1, <1>2, <1>3, <1>4, <1>5, <1>6, SetFieldLife DEF c
  <1>8. Counted(ref_count', Contents', miscounted')
    <2> DEFINE linked == [x \in Objs |-> ref_count[x] + (IF super = x THEN 1 ELSE 0)]
    <2>1. Counted(linked, cells, miscounted')
      <3>1. Counted(ref_count, cell, miscounted')
        BY <1>1, RunningFacts DEF Counted
      <3>2. \A x \in Objs \ miscounted' :
              linked[x] = ref_count[x] + (IF cells[link] = x THEN 1 ELSE 0)
                          - (IF cell[link] = x THEN 1 ELSE 0)
        BY <1>1, <1>2, <1>4 DEF before
      <3> HIDE DEF linked
      <3> QED
        BY <1>2, <1>4, <3>1, <3>2, CountedChange
    <2>2. /\ Contents' \in [Cells -> Ref] /\ Contents'[c] = super
          /\ \A d \in Cells : d # c => Contents'[d] = cells[d]
      BY <1>2, <1>4, <1>7
    <2>3. \A x \in Objs \ miscounted' :
            ref_count'[x] = linked[x] + (IF Contents'[c] = x THEN 1 ELSE 0)
                            - (IF cells[c] = x THEN 1 ELSE 0)
      BY <1>2, <1>3, <1>4, <1>7, <2>2
    <2> HIDE DEF linked
    <2> QED
      BY <1>2, <1>4, <2>1, <2>2, <2>3, CountedChange
  <1>9. cell' = cells => InHand(o)'
    <2>1. PICK s \in Roots : cell[s] = o
      BY <1>1 DEF Held, Refers
    <2>2. cells[s] = o
      BY <1>2, <1>4, <2>1, FieldCells
    <2> QED
      BY <2>2 DEF InHand, Held, Refers
  <1>10. storing' # NoStore => storing'.cell[1] = o
    BY <1>7 DEF c
  <1> QED
    BY <1>7, <1>8, <1>9, <1>10 DEF IInv, ExactCounts, ExactNow

\* GaList_Remove empties a field.
LEMMA RemoveElemInv ==
    ASSUME IInv, NEW o \in Objs, NEW n \in Names, RemoveElem(o, n) PROVE IInv' /\ ExactNow'
  <1> DEFINE c == <<o, n>>
  <1>1. /\ Running /\ Held(o) /\ SetField(o, n, NULL, ref_count, cell)
        /\ UNCHANGED <<kind, gcVars>>
    BY DEF RemoveElem
  <1>2. /\ c \in Cells /\ NULL \in Ref /\ NULL \notin Objs
        /\ cell \in [Cells -> Ref] /\ ref_count \in [Objs -> Int]
        /\ \A x \in Objs : status[x] = "live" <=> ref_count[x] > 0
    BY <1>1, FieldCells, RunningFacts
  <1> HIDE DEF c
  <1>3. gc_candidates' = gc_candidates /\ miscounted' = miscounted /\ miscounted \subseteq Objs
    BY <1>1 DEF gcVars, IInv, LifeInv, TypeOK
  <1>4. /\ LifeInv' /\ Contents' = [cell EXCEPT ![c] = NULL]
        /\ \A x \in Objs : ref_count'[x] = ref_count[x] - (IF cell[c] = x THEN 1 ELSE 0)
        /\ storing' # NoStore => storing'.cell = c /\ cell' = cell
    BY <1>1, <1>2, <1>3, SetFieldLife DEF c
  <1>5. Counted(ref_count', Contents', miscounted)
    <2>1. Counted(ref_count, cell, miscounted)
      BY <1>1, RunningFacts
    <2>2. /\ Contents' \in [Cells -> Ref] /\ Contents'[c] = NULL
          /\ \A d \in Cells : d # c => Contents'[d] = cell[d]
      BY <1>2, <1>4
    <2>3. \A x \in Objs \ miscounted :
            ref_count'[x] = ref_count[x] + (IF Contents'[c] = x THEN 1 ELSE 0)
                            - (IF cell[c] = x THEN 1 ELSE 0)
      BY <1>2, <1>4, <2>2
    <2> QED
      BY <1>2, <2>1, <2>2, <2>3, CountedChange
  <1>6. cell' = cell => InHand(o)'
    BY <1>1 DEF InHand, Held, Refers
  <1>7. storing' # NoStore => storing'.cell[1] = o
    BY <1>4 DEF c
  <1> QED
    BY <1>3, <1>4, <1>5, <1>6, <1>7 DEF IInv, ExactCounts, ExactNow

(***************************************************************************)
(* One count is decremented, and no more than one cell let go.             *)
(***************************************************************************)
LEMMA DecrementLife ==
    ASSUME LifeInv, NEW o \in Objs, DecRef(ref_count, o),
           cell' \in [Cells -> Ref], UNCHANGED <<kind, storing, miscounted>>,
           gc_candidates' \in Seq(Objs), CandidatesNoted'
    PROVE  /\ LifeInv'
           /\ \A x \in Objs : ref_count'[x] = IF x = o THEN ref_count[x] - 1 ELSE ref_count[x]
           /\ \A x \in Objs : status'[x] = "live" => status[x] = "live"
  <1>1. /\ TypeOK /\ DyingAreDead /\ WeakReferencesFollow /\ kind' = kind
        /\ ref_count \in [Objs -> Int]
        /\ \A x \in Objs : status[x] = "live" <=> ref_count[x] > 0
    BY DEF LifeInv, TypeOK, LiveWhileCounted, Live
  <1>2. /\ ref_count' \in [Objs -> Int]
        /\ \A x \in Objs : ref_count'[x] = IF x = o THEN ref_count[x] - 1 ELSE ref_count[x]
        /\ status' \in [Objs -> {"free", "live", "dying"}]
        /\ \A x \in Objs : status'[x] = "live" => status[x] = "live"
        /\ dying' \in Seq(Objs)
        /\ \A i, j \in 1..Len(dying') : dying'[i] = dying'[j] => i = j
        /\ DyingAreDead'
        /\ target' \in [Objs -> Ref] /\ weak_refs' \in [Objs -> SUBSET Objs]
        /\ LiveWhileCounted' /\ WeakReferencesFollow'
    BY <1>1, DecRefLife
  <1>3. TypeOK' /\ StoreWaits'
    BY <1>2 DEF LifeInv, TypeOK, StoreWaits
  <1> QED
    BY <1>2, <1>3 DEF LifeInv

\* A cell of the program lets go of a reference that is counted.
LEMMA DropInv == ASSUME IInv, NEW r \in Roots, Drop(r) PROVE IInv' /\ ExactNow'
  <1>1. /\ Running /\ cell[r] # NULL /\ cell' = [cell EXCEPT ![r] = NULL]
        /\ DecRef(ref_count, cell[r]) /\ UNCHANGED <<kind, storing, gcVars>>
    BY DEF Drop
  <1>2. /\ r \in Cells /\ cell[r] \in Objs /\ NULL \in Ref /\ NULL \notin Objs
        /\ cell \in [Cells -> Ref] /\ cell' \in [Cells -> Ref] /\ storing = NoStore
    BY <1>1, FieldCells, RunningFacts
  <1>3. /\ gc_candidates' \in Seq(Objs) /\ miscounted' = miscounted
        /\ CandidatesNoted' /\ LifeInv
    BY <1>1 DEF IInv, LifeInv, TypeOK, CandidatesNoted, gcVars
  <1>4. /\ LifeInv'
        /\ \A x \in Objs : ref_count'[x] =
              IF x = cell[r] THEN ref_count[x] - 1 ELSE ref_count[x]
    BY <1>1, <1>2, <1>3, DecrementLife
  <1>5. Counted(ref_count', cell', miscounted)
    <2>1. Counted(ref_count, cell, miscounted)
      BY <1>1, RunningFacts
    <2>2. cell'[r] = NULL /\ \A d \in Cells : d # r => cell'[d] = cell[d]
      BY <1>1, <1>2
    <2>3. \A x \in Objs \ miscounted :
            ref_count'[x] = ref_count[x] + (IF cell'[r] = x THEN 1 ELSE 0)
                            - (IF cell[r] = x THEN 1 ELSE 0)
      <3>1. \A x \in Objs : ref_count[x] \in Int
        BY <1>1, RunningFacts
      <3> QED
        BY <1>2, <1>4, <2>2, <3>1
    <2> QED
      BY <1>2, <2>1, <2>2, <2>3, CountedChange
  <1>6. storing' = NoStore /\ Contents' = cell'
    BY <1>1, <1>2, ContentsAreCells
  <1> QED
    BY <1>3, <1>4, <1>5, <1>6 DEF IInv, ExactCounts, ExactNow

(***************************************************************************)
(* A block that is free is made an object: nothing refers to it, and its   *)
(* own cells are empty.                                                    *)
(***************************************************************************)
LEMMA NewInv ==
    ASSUME IInv, NEW o \in Objs, NEW k \in Kinds, NEW with \in Ref, NEW r \in Roots,
           New(o, k, with, r)
    PROVE  IInv' /\ ExactNow'
  <1> DEFINE link == IF k = "weak" THEN NULL ELSE with
             c == <<o, "link">>
             one == [ref_count EXCEPT ![o] = 1]
  <1>1. /\ status[o] = "free" /\ cell[r] = NULL /\ CanLink(k, with) /\ Running
        /\ cell' = [cell EXCEPT ![r] = o, ![c] = link]
        /\ ref_count' = IncIfAny(one, link)
        /\ status' = [status EXCEPT ![o] = "live"]
        /\ kind' = [kind EXCEPT ![o] = k]
        /\ target' = [target EXCEPT ![o] = IF k = "weak" THEN with ELSE NULL]
        /\ weak_refs' = [x \in Objs |->
                            IF x = o THEN {}
                            ELSE IF k = "weak" /\ x = with THEN weak_refs[x] \cup {o}
                            ELSE weak_refs[x]]
        /\ miscounted' = miscounted \ {o}
        /\ UNCHANGED <<dying, storing, gc_candidates>>
    BY DEF New
  <1>2. /\ r \in Cells /\ c \in Cells /\ c # r /\ NULL \in Ref /\ NULL \notin Objs
        /\ o \in Ref /\ link \in Ref /\ k \in AllKinds
    BY FieldCells, HeapAssumption
  <1>3. /\ dying = <<>> /\ storing = NoStore /\ gc_candidates = <<>>
        /\ cell \in [Cells -> Ref] /\ ref_count \in [Objs -> Int]
        /\ \A x \in Objs : status[x] = "live" <=> ref_count[x] > 0
        /\ cell[c] = NULL
        /\ \A d \in Cells : cell[d] # o
    BY <1>1, <1>2, RunningFacts, FieldCells
  <1>4. with # NULL => with \in Objs /\ status[with] = "live" /\ with # o
    <2>1. with # NULL => Held(with) \/ Captured(with, "closure")
      BY <1>1 DEF CanLink
    <2> QED
      BY <1>1, <2>1, RunningFacts
  <1>5. k = "weak" => with # NULL
    BY <1>1, <1>2 DEF CanLink, Held
  <1>6. TypeOK
    BY DEF IInv, LifeInv
  <1> HIDE DEF c, link
  <1>7. /\ cell' \in [Cells -> Ref] /\ cell'[r] = o /\ cell'[c] = link
        /\ \A d \in Cells : d # r /\ d # c => cell'[d] = cell[d]
    BY <1>1, <1>2, <1>3
  <1>8. /\ ref_count' \in [Objs -> Int] /\ ref_count'[o] = 1
        /\ \A x \in Objs : x # o =>
              ref_count'[x] = ref_count[x] + (IF link = x THEN 1 ELSE 0)
    BY <1>1, <1>2, <1>3, <1>4 DEF IncIfAny, Inc, Ref, link
  <1>9. TypeOK'
    <2>1. status' \in [Objs -> {"free", "live", "dying"}] /\ kind' \in [Objs -> AllKinds]
      BY <1>1, <1>2, <1>6 DEF TypeOK
    <2>2. target' \in [Objs -> Ref] /\ weak_refs' \in [Objs -> SUBSET Objs]
      BY <1>1, <1>2, <1>6 DEF TypeOK
    <2> QED
      BY <1>1, <1>6, <1>7, <1>8, <2>1, <2>2 DEF TypeOK
  <1>10. DyingAreDead' /\ CandidatesNoted' /\ StoreWaits'
    BY <1>1, <1>3 DEF DyingAreDead, CandidatesNoted, StoreWaits
  <1>11. LiveWhileCounted'
    <2> SUFFICES ASSUME NEW x \in Objs PROVE status'[x] = "live" <=> ref_count'[x] > 0
      BY DEF LiveWhileCounted, Live
    <2>1. CASE x = o
      BY <1>1, <1>6, <1>8, <2>1 DEF TypeOK
    <2>2. CASE x # o
      <3>1. status'[x] = status[x] /\ ref_count[x] \in Int
        BY <1>1, <1>6, <2>2 DEF TypeOK
      <3>2. link = x => status[x] = "live"
        BY <1>2, <1>4 DEF link
      <3>3. ref_count'[x] = ref_count[x] + (IF link = x THEN 1 ELSE 0)
        BY <1>8, <2>2
      <3> QED
        BY <1>3, <3>1, <3>2, <3>3
    <2> QED
      BY <2>1, <2>2
  <1>12. WeakReferencesFollow'
    <2>1. \A x \in Objs : /\ x # o => /\ status'[x] = status[x] /\ kind'[x] = kind[x]
                                      /\ target'[x] = target[x]
                          /\ status'[o] = "live" /\ kind'[o] = k
                          /\ target'[o] = IF k = "weak" THEN with ELSE NULL
      BY <1>1, <1>6 DEF TypeOK
    <2>2. WeakReferencesFollow /\ weak_refs \in [Objs -> SUBSET Objs]
      BY <1>6 DEF IInv, LifeInv, TypeOK
    <2>3. ASSUME NEW w \in Objs, status'[w] = "live", kind'[w] = "weak", target'[w] # NULL
          PROVE  /\ target'[w] \in Objs /\ status'[target'[w]] = "live"
                 /\ w \in weak_refs'[target'[w]]
      <3>1. CASE w = o
        BY <1>1, <1>4, <2>1, <2>3, <3>1
      <3>2. CASE w # o
        <4>1. /\ target[w] \in Objs /\ status[target[w]] = "live"
              /\ w \in weak_refs[target[w]] /\ target[w] # o
          BY <1>1, <2>1, <2>2, <2>3, <3>2 DEF WeakReferencesFollow, Live
        <4> QED
          BY <1>1, <2>1, <3>2, <4>1
      <3> QED
        BY <3>1, <3>2
    <2>4. ASSUME NEW x \in Objs, status'[x] = "live", NEW w \in weak_refs'[x]
          PROVE  w \in Objs /\ status'[w] = "live" /\ kind'[w] = "weak" /\ target'[w] = x
      <3>1. x # o /\ status[x] = "live"
        BY <1>1, <2>1, <2>4
      <3>2. CASE w \in weak_refs[x]
        <4>1. w \in Objs /\ status[w] = "live" /\ kind[w] = "weak" /\ target[w] = x
          BY <2>2, <3>1, <3>2 DEF WeakReferencesFollow, Live
        <4> QED
          BY <1>1, <2>1, <4>1
      <3>3. CASE w \notin weak_refs[x]
        <4>1. w = o /\ k = "weak" /\ x = with
          BY <1>1, <2>4, <3>1, <3>3
        <4> QED
          BY <2>1, <4>1
      <3> QED
        BY <3>2, <3>3
    <2> QED
      BY <2>3, <2>4 DEF WeakReferencesFollow, Live
  <1>13. Counted(ref_count', cell', miscounted')
    <2> DEFINE held == [cell EXCEPT ![r] = o]
    <2>1. /\ held \in [Cells -> Ref] /\ held[r] = o /\ held[c] = NULL
          /\ \A d \in Cells : d # r => held[d] = cell[d]
          /\ \A d \in Cells : d # c => cell'[d] = held[d]
      BY <1>2, <1>3, <1>7
    <2> HIDE DEF held
    <2> DEFINE before == [x \in Objs |-> IF x = o THEN 0 ELSE ref_count[x]]
               made == [x \in Objs |-> IF x = o THEN 1 ELSE ref_count[x]]
    <2>2. Counted(before, cell, miscounted \ {o})
      <3>1. Counted(ref_count, cell, miscounted)
        BY <1>1, RunningFacts
      <3>2. Count(cell, o) = 0
        <4>1. {d \in Cells : cell[d] = o} = {}
          BY <1>3
        <4> QED
          BY <4>1, FS_EmptySet DEF Count
      <3> QED
        BY <3>1, <3>2 DEF Counted
    <2>3. Counted(made, held, miscounted \ {o})
      <3>1. \A x \in Objs \ (miscounted \ {o}) :
              made[x] = before[x] + (IF held[r] = x THEN 1 ELSE 0)
                        - (IF cell[r] = x THEN 1 ELSE 0)
        BY <1>1, <1>2, <1>3, <2>1
      <3> HIDE DEF made, before
      <3> QED
        BY <1>2, <1>3, <2>1, <2>2, <3>1, CountedChange
    <2>4. \A x \in Objs \ (miscounted \ {o}) :
            ref_count'[x] = made[x] + (IF cell'[c] = x THEN 1 ELSE 0)
                            - (IF held[c] = x THEN 1 ELSE 0)
      BY <1>2, <1>3, <1>4, <1>7, <1>8, <2>1 DEF link
    <2> HIDE DEF made
    <2>5. Counted(ref_count', cell', miscounted \ {o})
      BY <1>2, <1>7, <2>1, <2>3, <2>4, CountedChange
    <2> QED
      BY <1>1, <2>5
  <1>14. storing' = NoStore /\ Contents' = cell'
    BY <1>1, <1>3, <1>7, ContentsAreCells
  <1> QED
    BY <1>9, <1>10, <1>11, <1>12, <1>13, <1>14 DEF IInv, LifeInv, ExactCounts, ExactNow

\* The collector notes its candidates and changes nothing yet.
LEMMA CollectInv == ASSUME IInv, Collect PROVE IInv' /\ ExactNow'
  <1>1. /\ Running /\ gc_candidates' \in SetToSeqs(Candidates)
        /\ miscounted' = miscounted \cup Candidates
        /\ UNCHANGED <<status, kind, ref_count, cell, weakVars, dying, storing>>
    BY DEF Collect
  <1>2. /\ Candidates \subseteq Objs /\ Cardinality(Candidates) \in Nat
    <2>1. Candidates \subseteq Objs
      BY DEF Candidates, Live
    <2> QED
      BY <2>1, HeapAssumption, FS_Subset, FS_CardinalityType
  <1> DEFINE D == 1..Cardinality(Candidates)
  <1>3. gc_candidates' \in [D -> Candidates]
    BY <1>1 DEF SetToSeqs
  <1>4. gc_candidates' \in Seq(Candidates)
    BY <1>2, <1>3, SeqDef
  <1>5. gc_candidates' \in Seq(Objs) /\ CandidatesNoted'
    <2>1. gc_candidates' \in Seq(Objs)
      BY <1>2, <1>4, SeqMonotonic
    <2>2. \A i \in 1..Len(gc_candidates') : gc_candidates'[i] \in Candidates
      BY <1>4, ElementOfSeq
    <2> QED
      BY <1>1, <2>1, <2>2 DEF CandidatesNoted
  <1>6. LifeInv'
    <2>1. /\ cell' \in [Cells -> Ref] /\ ref_count' \in [Objs -> Int]
          /\ \A x \in Objs : status[x] = "live" <=> ref_count'[x] > 0
      BY <1>1, RunningFacts
    <2>2. /\ storing' \in {NoStore} \cup [cell : Cells, val : Ref] /\ StoreWaits'
          /\ miscounted' \subseteq Objs
      BY <1>1, <1>2 DEF IInv, LifeInv, TypeOK, StoreWaits
    <2> QED
      BY <1>1, <1>5, <2>1, <2>2, QuietLife DEF IInv
  <1>7. storing' = NoStore /\ Contents' = cell /\ Counted(ref_count', cell, miscounted')
    <2>1. /\ storing = NoStore /\ cell \in [Cells -> Ref]
          /\ Counted(ref_count, cell, miscounted)
      BY <1>1, RunningFacts
    <2> QED
      BY <1>1, <2>1, ContentsAreCells DEF Counted
  <1> QED
    BY <1>6, <1>7 DEF IInv, ExactCounts, ExactNow

-----------------------------------------------------------------------------
(***************************************************************************)
(* Destructions.                                                           *)
(***************************************************************************)
(***************************************************************************)
(* Destructions change no cell of the program and no field of an object    *)
(* that is alive, but for a store that ends: what the program had in hand  *)
(* it still has, or something it has in hand is gone.                      *)
(***************************************************************************)
LEMMA HandsKeep ==
    ASSUME TypeOK, StoreWaits, kind' = kind,
           \A x \in Objs : status'[x] = "live" => status[x] = "live",
           \A r \in Roots : cell'[r] = cell[r],
           \A x \in Objs : status[x] = "live" => cell'[<<x, "link">>] = cell[<<x, "link">>],
           Sound'
    PROVE  Sound /\ \A o \in Objs : InHand(o) => InHand(o)'
  <1>1. \A x : Held(x) => Held(x)'
    BY DEF Held, Refers
  <1>2. ASSUME NEW o \in Objs, InHand(o) PROVE InHand(o)'
    <2>1. CASE Held(o)
      BY <1>1, <2>1 DEF InHand
    <2>2. CASE ~Held(o)
      <3>1. PICK x \in Objs : kind[x] = "frame" /\ Held(x) /\ cell[<<x, "link">>] = o
        BY <1>2, <2>2 DEF InHand, Captured, Refers
      <3>2. Held(x)' /\ InHand(x)'
        BY <1>1, <3>1 DEF InHand
      <3>3. status[x] = "live"
        BY <3>2 DEF Sound
      <3> QED
        BY <3>1, <3>2, <3>3 DEF InHand, Captured, Refers
    <2> QED
      BY <2>1, <2>2
  <1>3. Sound
    BY <1>2 DEF Sound
  <1> QED
    BY <1>2, <1>3

\* A field of the object whose destruction is innermost lets go.
LEMMA ReleaseInv == ASSUME IInv, NEW n \in Fields, Release(n) PROVE IInv'
  <1> DEFINE o == Head(dying)
             c == <<o, n>>
  <1>1. /\ dying # <<>> /\ cell[c] # NULL /\ cell' = [cell EXCEPT ![c] = NULL]
        /\ DecRef(ref_count, cell[c]) /\ UNCHANGED <<kind, storing, gcVars>>
    BY DEF Release
  <1>2. TypeOK /\ DyingAreDead /\ CandidatesNoted /\ StoreWaits /\ LifeInv
    BY DEF IInv, LifeInv
  <1>3. o \in Objs /\ status[o] # "live"
    <2>1. dying \in Seq(Objs) /\ Len(dying) \in Nat \ {0} /\ o = dying[1]
      BY <1>1, <1>2, EmptySeq DEF TypeOK
    <2> QED
      BY <1>2, <2>1, ElementOfSeq DEF DyingAreDead
  <1> HIDE DEF o
  <1>4. /\ c \in Cells /\ c \notin Roots /\ cell \in [Cells -> Ref]
        /\ cell[c] \in Objs /\ NULL \in Ref /\ NULL \notin Objs
        /\ cell' \in [Cells -> Ref] /\ cell'[c] = NULL
        /\ \A d \in Cells : d # c => cell'[d] = cell[d]
    BY <1>1, <1>2, <1>3, FieldCells DEF TypeOK, Ref
  <1>5. /\ gc_candidates' \in Seq(Objs) /\ miscounted' = miscounted
        /\ CandidatesNoted'
    BY <1>1, <1>2 DEF TypeOK, CandidatesNoted, gcVars
  <1>6. /\ LifeInv'
        /\ \A x \in Objs : ref_count'[x] =
              IF x = cell[c] THEN ref_count[x] - 1 ELSE ref_count[x]
        /\ \A x \in Objs : status'[x] = "live" => status[x] = "live"
    BY <1>1, <1>2, <1>4, <1>5, DecrementLife
  <1>7. ASSUME Sound'
        PROVE  /\ Counted(ref_count', Contents', miscounted')
               /\ storing' # NoStore => InHand(storing.cell[1])'
    <2>1. /\ \A r \in Roots : cell'[r] = cell[r]
          /\ \A x \in Objs : status[x] = "live" => cell'[<<x, "link">>] = cell[<<x, "link">>]
      BY <1>3, <1>4, FieldCells
    <2>2. Sound /\ \A x \in Objs : InHand(x) => InHand(x)'
      BY <1>1, <1>2, <1>6, <1>7, <2>1, HandsKeep
    <2>3. /\ Counted(ref_count, Contents, miscounted)
          /\ storing # NoStore => InHand(storing.cell[1])
      BY <2>2 DEF IInv, ExactCounts
    <2>4. storing # NoStore => storing.cell[1] \in Objs /\ storing.cell # c
      BY <1>2, <1>3, <2>2, <2>3 DEF StoreWaits, Sound, c
    <2> HIDE DEF c
    <2>5. /\ Contents \in [Cells -> Ref] /\ Contents' \in [Cells -> Ref]
          /\ Contents[c] = cell[c] /\ Contents'[c] = NULL
          /\ \A d \in Cells : d # c => Contents'[d] = Contents[d]
      BY <1>1, <1>2, <1>4, <2>4 DEF Contents, Current, TypeOK, NoStore
    <2>6. \A x \in Objs \ miscounted :
            ref_count'[x] = ref_count[x] + (IF Contents'[c] = x THEN 1 ELSE 0)
                            - (IF Contents[c] = x THEN 1 ELSE 0)
      <3>1. \A x \in Objs : ref_count[x] \in Int
        BY <1>2 DEF TypeOK
      <3> QED
        BY <1>4, <1>6, <2>5, <3>1
    <2>7. Counted(ref_count', Contents', miscounted)
      BY <1>4, <2>3, <2>5, <2>6, CountedChange
    <2> QED
      BY <1>1, <1>5, <2>2, <2>3, <2>4, <2>7
  <1> QED
    BY <1>6, <1>7 DEF IInv, ExactCounts

\* A step of a destruction that changes no cell and no count.
LEMMA PassingInv ==
    ASSUME IInv, UNCHANGED <<kind, ref_count, cell, weakVars, storing, gcVars>>,
           status' \in [Objs -> {"free", "live", "dying"}],
           \A x \in Objs : status'[x] = "live" <=> status[x] = "live",
           dying' \in Seq(Objs),
           \A i, j \in 1..Len(dying') : dying'[i] = dying'[j] => i = j,
           DyingAreDead'
    PROVE  IInv'
  <1>1. TypeOK' /\ CandidatesNoted' /\ StoreWaits'
    BY DEF IInv, LifeInv, TypeOK, CandidatesNoted, StoreWaits, weakVars, gcVars
  <1>2. LiveWhileCounted' /\ WeakReferencesFollow'
    <2>1. Live' = Live
      BY DEF Live
    <2> QED
      BY <2>1 DEF IInv, LifeInv, LiveWhileCounted, WeakReferencesFollow, weakVars
  <1>3. \A o : InHand(o)' <=> InHand(o)
    BY DEF InHand, Held, Captured, Refers
  <1>4. Sound' => Sound
    BY <1>3 DEF Sound
  <1>5. Contents' = Contents /\ miscounted' = miscounted
    BY DEF Contents, Current, gcVars
  <1> QED
    BY <1>1, <1>2, <1>3, <1>4, <1>5 DEF IInv, LifeInv, ExactCounts

\* The block of an object that is dead already goes back to its pool.
LEMMA PutBackInv == ASSUME IInv, PutBack PROVE IInv'
  <1>1. PICK o : /\ dying # <<>> /\ o = Head(dying) /\ status[o] = "dying"
                 /\ status' = [status EXCEPT ![o] = "free"]
                 /\ UNCHANGED <<kind, ref_count, cell, weakVars, dying, storing, gcVars>>
    BY DEF PutBack
  <1>2. TypeOK /\ DyingAreDead
    BY DEF IInv, LifeInv
  <1>3. /\ status' \in [Objs -> {"free", "live", "dying"}]
        /\ \A x \in Objs : status'[x] = "live" <=> status[x] = "live"
    BY <1>1, <1>2 DEF TypeOK
  <1>4. DyingAreDead'
    <2>1. \A i \in 1..Len(dying) : dying[i] \in Objs
      BY <1>2, ElementOfSeq DEF TypeOK
    <2> QED
      BY <1>1, <1>2, <1>3, <2>1 DEF DyingAreDead
  <1> QED
    BY <1>1, <1>2, <1>3, <1>4, PassingInv DEF TypeOK

\* The innermost destruction is left.
LEMMA DestroyedInv == ASSUME IInv, Destroyed PROVE IInv'
  <1>1. /\ dying # <<>> /\ dying' = Tail(dying)
        /\ UNCHANGED <<status, kind, ref_count, cell, weakVars, storing, gcVars>>
    BY DEF Destroyed
  <1>2. TypeOK /\ DyingAreDead
    BY DEF IInv, LifeInv
  <1>3. /\ dying \in Seq(Objs) /\ Len(dying) \in Nat \ {0}
        /\ dying' \in Seq(Objs) /\ Len(dying') = Len(dying) - 1
        /\ \A i \in 1..Len(dying') : dying'[i] = dying[i + 1]
    BY <1>1, <1>2, EmptySeq, HeadTailProperties DEF TypeOK
  <1>4. \A i \in 1..Len(dying') : i + 1 \in 1..Len(dying)
    BY <1>3
  <1>5. \A i, j \in 1..Len(dying') : dying'[i] = dying'[j] => i = j
    <2> SUFFICES ASSUME NEW i \in 1..Len(dying'), NEW j \in 1..Len(dying'),
                        dying'[i] = dying'[j]
                 PROVE  i = j
      OBVIOUS
    <2>1. i + 1 = j + 1
      BY <1>2, <1>3, <1>4 DEF TypeOK
    <2> QED
      BY <1>3, <2>1
  <1>6. DyingAreDead'
    BY <1>1, <1>2, <1>3, <1>4 DEF DyingAreDead
  <1> QED
    BY <1>1, <1>2, <1>3, <1>5, <1>6, PassingInv DEF TypeOK

\* A store that has waited ends; its cell is not a link.
LEMMA EndStoreInv == ASSUME IInv, EndStore PROVE IInv'
  <1>1. /\ storing # NoStore /\ cell' = [cell EXCEPT ![storing.cell] = storing.val]
        /\ storing' = NoStore
        /\ UNCHANGED <<status, kind, ref_count, weakVars, dying, gcVars>>
    BY DEF EndStore
  <1>2. TypeOK /\ StoreWaits /\ LifeInv
    BY DEF IInv, LifeInv
  <1>3. /\ storing.cell \in Cells /\ storing.val \in Ref /\ storing.cell \in Objs \X Names
        /\ cell \in [Cells -> Ref] /\ cell' \in [Cells -> Ref]
        /\ \A d \in Cells : cell'[d] = IF d = storing.cell THEN storing.val ELSE cell[d]
    BY <1>1, <1>2 DEF TypeOK, StoreWaits
  <1>4. LifeInv'
    <2>1. /\ ref_count' \in [Objs -> Int]
          /\ \A x \in Objs : status[x] = "live" <=> ref_count'[x] > 0
          /\ gc_candidates' \in Seq(Objs) /\ miscounted' \subseteq Objs
          /\ CandidatesNoted' /\ StoreWaits'
      BY <1>1, <1>2 DEF LifeInv, TypeOK, LiveWhileCounted, Live, CandidatesNoted,
                        StoreWaits, gcVars
    <2> QED
      BY <1>1, <1>2, <1>3, <2>1, QuietLife
  <1>5. Contents' = Contents
    BY <1>1, <1>3 DEF Contents, Current
  <1>6. ASSUME Sound' PROVE Counted(ref_count', Contents', miscounted')
    <2>1. /\ \A r \in Roots : cell'[r] = cell[r]
          /\ \A x \in Objs : cell'[<<x, "link">>] = cell[<<x, "link">>]
      BY <1>3, FieldCells
    <2>2. kind' = kind /\ \A x \in Objs : status'[x] = status[x]
      BY <1>1
    <2>3. Sound
      BY <1>2, <1>6, <2>1, <2>2, HandsKeep
    <2> QED
      BY <1>1, <1>5, <2>3 DEF IInv, ExactCounts, gcVars
  <1> QED
    BY <1>1, <1>4, <1>6 DEF IInv, ExactCounts

\* The collector drops a reference that no cell has.
LEMMA DropCandidateInv == ASSUME IInv, DropCandidate PROVE IInv'
  <1> DEFINE o == Head(gc_candidates)
  <1>1. /\ gc_candidates # <<>> /\ gc_candidates' = Tail(gc_candidates)
        /\ DecRef(ref_count, o) /\ UNCHANGED <<kind, cell, storing, miscounted>>
    BY DEF DropCandidate
  <1>2. TypeOK /\ StoreWaits /\ CandidatesNoted /\ LifeInv
    BY DEF IInv, LifeInv
  <1>3. /\ gc_candidates \in Seq(Objs) /\ Len(gc_candidates) \in Nat \ {0}
        /\ gc_candidates' \in Seq(Objs) /\ Len(gc_candidates') = Len(gc_candidates) - 1
        /\ \A i \in 1..Len(gc_candidates') : gc_candidates'[i] = gc_candidates[i + 1]
        /\ o = gc_candidates[1]
    BY <1>1, <1>2, EmptySeq, HeadTailProperties DEF TypeOK
  <1>4. o \in Objs /\ o \in miscounted
    BY <1>2, <1>3 DEF CandidatesNoted, TypeOK
  <1>5. CandidatesNoted'
    <2>1. \A i \in 1..Len(gc_candidates') : i + 1 \in 1..Len(gc_candidates)
      BY <1>3
    <2> QED
      BY <1>1, <1>2, <1>3, <2>1 DEF CandidatesNoted
  <1> HIDE DEF o
  <1>6. cell' \in [Cells -> Ref]
    BY <1>1, <1>2 DEF TypeOK
  <1>7. /\ LifeInv'
        /\ \A x \in Objs : ref_count'[x] = IF x = o THEN ref_count[x] - 1 ELSE ref_count[x]
        /\ \A x \in Objs : status'[x] = "live" => status[x] = "live"
    BY <1>1, <1>2, <1>3, <1>4, <1>5, <1>6, DecrementLife
  <1>8. ASSUME Sound'
        PROVE  /\ Counted(ref_count', Contents', miscounted')
               /\ storing' # NoStore => InHand(storing.cell[1])'
    <2>1. Sound /\ \A x \in Objs : InHand(x) => InHand(x)'
      BY <1>1, <1>2, <1>7, <1>8, HandsKeep
    <2>2. /\ Counted(ref_count, Contents, miscounted)
          /\ storing # NoStore => InHand(storing.cell[1])
      BY <2>1 DEF IInv, ExactCounts
    <2>3. storing # NoStore => storing.cell[1] \in Objs
      BY <1>2 DEF StoreWaits
    <2>4. Contents' = Contents
      BY <1>1 DEF Contents, Current
    <2>5. Counted(ref_count', Contents', miscounted')
      BY <1>1, <1>4, <1>7, <2>2, <2>4 DEF Counted
    <2> QED
      BY <1>1, <2>1, <2>2, <2>3, <2>5
  <1> QED
    BY <1>7, <1>8 DEF IInv, ExactCounts

-----------------------------------------------------------------------------
(***************************************************************************)
(* The invariant.                                                          *)
(***************************************************************************)
LEMMA InitInv == Init => IInv
  <1> SUFFICES ASSUME Init PROVE IInv
    OBVIOUS
  <1>1. TypeOK
    <2>1. <<>> \in Seq(Objs) /\ Len(<<>>) = 0
      BY EmptySeq
    <2> QED
      BY <2>1, FieldCells DEF Init, TypeOK, AllKinds
  <1>2. DyingAreDead /\ CandidatesNoted /\ StoreWaits
    BY DEF Init, DyingAreDead, CandidatesNoted, StoreWaits
  <1>3. LiveWhileCounted /\ WeakReferencesFollow
    BY DEF Init, LiveWhileCounted, WeakReferencesFollow, Live
  <1>4. Contents = cell
    BY <1>1, ContentsAreCells DEF Init, TypeOK
  <1>5. Counted(ref_count, cell, miscounted)
    <2> SUFFICES ASSUME NEW o \in Objs PROVE ref_count[o] = Count(cell, o)
      BY DEF Counted
    <2>1. {c \in Cells : cell[c] = o} = {}
      BY FieldCells DEF Init
    <2> QED
      BY <2>1, FS_EmptySet DEF Init, Count
  <1> QED
    BY <1>1, <1>2, <1>3, <1>4, <1>5 DEF IInv, LifeInv, ExactCounts, Init

\* Nothing changes.
LEMMA StutterInv == ASSUME IInv, UNCHANGED vars PROVE IInv'
  <1>1. IInv /\ UNCHANGED <<kind, ref_count, cell, weakVars, storing, gcVars>>
    BY DEF vars, weakVars, gcVars
  <1>2. status' = status /\ dying' = dying
    BY DEF vars
  <1>3. TypeOK /\ DyingAreDead
    BY DEF IInv, LifeInv
  <1> QED
    BY <1>1, <1>2, <1>3, PassingInv DEF TypeOK, DyingAreDead

\* Every step of the program and of a destruction preserves the invariant.
LEMMA NextInv == IInv /\ [Next]_vars => IInv'
  <1> SUFFICES ASSUME IInv, [Next]_vars PROVE IInv'
    OBVIOUS
  <1>1. ASSUME NEW o \in Objs, NEW k \in Kinds, NEW with \in Ref, NEW r \in Roots,
               New(o, k, with, r)
        PROVE  IInv'
    BY <1>1, NewInv
  <1>2. ASSUME NEW o \in Objs, NEW super \in Objs, SetSuper(o, super) PROVE IInv'
    BY <1>2, SetSuperInv
  <1>3. ASSUME NEW o \in Objs, NEW super \in Objs, NEW n \in Names, Super(o, n, super)
        PROVE  IInv'
    BY <1>3, SuperInv
  <1>4. ASSUME NEW r \in Roots, NEW s \in Roots, Dup(r, s) PROVE IInv'
    BY <1>4, DupInv
  <1>5. ASSUME NEW o \in Objs, NEW n \in Names, NEW r \in Roots, Load(o, n, r) PROVE IInv'
    BY <1>5, LoadInv
  <1>6. ASSUME NEW o \in Objs, NEW n \in Names, NEW r \in Roots, Store(o, n, r) PROVE IInv'
    BY <1>6, StoreInv
  <1>7. ASSUME NEW w \in Objs, NEW r \in Roots, LoadWeak(w, r) PROVE IInv'
    BY <1>7, LoadWeakInv
  <1>8. ASSUME NEW r \in Roots, Drop(r) PROVE IInv'
    BY <1>8, DropInv
  <1>9. ASSUME NEW o \in Objs, NEW n \in Names, RemoveElem(o, n) PROVE IInv'
    BY <1>9, RemoveElemInv
  <1>10. CASE Collect
    BY <1>10, CollectInv
  <1>11. ASSUME NEW n \in Fields, Release(n) PROVE IInv'
    BY <1>11, ReleaseInv
  <1>12. CASE PutBack
    BY <1>12, PutBackInv
  <1>13. CASE Destroyed
    BY <1>13, DestroyedInv
  <1>14. CASE EndStore
    BY <1>14, EndStoreInv
  <1>15. CASE DropCandidate
    BY <1>15, DropCandidateInv
  <1>16. CASE UNCHANGED vars
    BY <1>16, StutterInv
  <1> QED
    BY <1>1, <1>2, <1>3, <1>4, <1>5, <1>6, <1>7, <1>8, <1>9, <1>10, <1>11, <1>12,
       <1>13, <1>14, <1>15, <1>16 DEF Next, Program, Cascade

\* The inductive invariant holds in every reachable state.
LEMMA Invariance == Spec => []IInv
  BY InitInv, NextInv, PTL DEF Spec

(***************************************************************************)
(* What the program reaches includes what it has in hand.                  *)
(***************************************************************************)
LEMMA ReachableSound ==
    ASSUME LifeInv, CollectorSparesReachable PROVE Sound
  <1> SUFFICES ASSUME NEW o \in Objs, InHand(o) PROVE o \in Live
    BY DEF Sound, Live
  <1>1. \A x \in Objs : x \in ReachedFrom(HeldObjs, Edges, Objs) => x \in Live
    BY DEF CollectorSparesReachable
  <1>2. \A x \in HeldObjs : x \in Objs /\ x \in ReachedFrom(HeldObjs, Edges, Objs)
    BY DEF ReachedFrom, HeldObjs
  <1>3. CASE Held(o)
    BY <1>1, <1>2, <1>3 DEF HeldObjs
  <1>4. CASE ~Held(o)
    <2>1. PICK x \in Objs : Held(x) /\ cell[<<x, "link">>] = o
      BY <1>4 DEF InHand, Captured, Refers
    <2>2. x \in HeldObjs /\ x \in Live
      BY <1>1, <1>2, <2>1 DEF HeldObjs
    <2>3. Current(<<x, "link">>) = o
      BY <2>1, FieldCells DEF Current, LifeInv, StoreWaits
    <2>4. <<x, o>> \in Edges
      BY <2>2, <2>3, FieldCells DEF Edges
    <2>5. o \in ReachedFrom(HeldObjs, Edges, Objs)
      <3> SUFFICES ASSUME NEW S \in SUBSET Objs, HeldObjs \subseteq S, IsClosed(S, Edges)
                   PROVE  o \in S
        BY DEF ReachedFrom
      <3> QED
        BY <2>2, <2>4 DEF IsClosed
    <2> QED
      BY <1>1, <2>5
  <1> QED
    BY <1>3, <1>4

-----------------------------------------------------------------------------
(***************************************************************************)
(* The types of the state: in particular, no object is in the middle of    *)
(* two destructions at once (GaObj_Destroy).                               *)
(***************************************************************************)
THEOREM TypeCorrect == Spec => []TypeOK
  <1>1. IInv => TypeOK
    BY DEF IInv, LifeInv
  <1> QED
    BY <1>1, Invariance, PTL

(***************************************************************************)
(* An object is alive exactly while its count is positive: GaObj_DEC_REF   *)
(* destroys it when the last reference goes, and never a second time, also *)
(* when the collector drops references that are not there.                 *)
(***************************************************************************)
THEOREM LivesWhileCounted == Spec => []LiveWhileCounted
  <1>1. IInv => LiveWhileCounted
    BY DEF IInv, LifeInv
  <1> QED
    BY <1>1, Invariance, PTL

(***************************************************************************)
(* Weak references and the lists they are registered in agree: one that    *)
(* refers to an object refers to one that is alive and that will reset it  *)
(* (GaWeakRef_New, GaObj_Destroy, weakref_destroy).                        *)
(***************************************************************************)
THEOREM WeakReferencesNeverDangle == Spec => []WeakReferencesFollow
  <1>1. IInv => WeakReferencesFollow
    BY DEF IInv, LifeInv
  <1> QED
    BY <1>1, Invariance, PTL

(***************************************************************************)
(* The counts of all objects but the miscounted are the numbers of cells   *)
(* that refer to them, in the middle of every cascade of destructions,     *)
(* until the collector has destroyed something the program reaches.        *)
(***************************************************************************)
THEOREM CountsAreExact == Spec => []CountsMatchReferences
  <1>1. ASSUME IInv, CollectorSparesReachable, NEW o \in Objs \ miscounted
        PROVE  ref_count[o] = Cardinality(References(o))
    <2>1. ref_count[o] = Count(Contents, o)
      BY <1>1, ReachableSound DEF IInv, ExactCounts, Counted
    <2>2. {c \in Cells : Contents[c] = o} = References(o)
      BY DEF Contents, References
    <2> QED
      BY <2>1, <2>2 DEF Count
  <1>2. IInv => CountsMatchReferences
    BY <1>1 DEF CountsMatchReferences
  <1> QED
    BY <1>2, Invariance, PTL

-----------------------------------------------------------------------------
(***************************************************************************)
(* What else holds of every heap, also when the program has lost something *)
(* it had in hand: why only cycles leak.                                   *)
(***************************************************************************)
\* A call of GaObj_Destroy for o is in progress.
InDying(o) == \E i \in 1..Len(dying) : dying[i] = o

\* No object has more counted than refers to it.
CountsBounded == \A o \in Objs \ miscounted : ref_count[o] <= Count(Contents, o)

\* Frames are out of the collector's and of `super's reach: theirs are exact.
FramesCounted == \A o \in Objs : kind[o] = "frame" => ref_count[o] = Count(Contents, o)

\* No count of a frame is put out.
FramesNotMiscounted == \A o \in miscounted : kind[o] # "frame"

\* A field refers to a frame only as the link of a closure or of a frame.
FramesAreLinks ==
    /\ \A o \in Objs, n \in Fields :
          cell[<<o, n>>] # NULL /\ kind[cell[<<o, n>>]] = "frame" =>
             n = "link" /\ kind[o] \in {"closure", "frame"}
    /\ storing.val # NULL => kind[storing.val] # "frame"

\* A closure that is alive has its frame.
ClosuresLinked ==
    \A o \in Objs : status[o] = "live" /\ kind[o] = "closure" => cell[<<o, "link">>] # NULL

\* A destruction that has ended has let go of every field, but for what a store
\* that waited for it has put there since, which the program has in hand.
DeadLetGo ==
    \A o, x \in Objs, n \in Fields :
        status[o] # "live" /\ ~InDying(o) /\ cell[<<o, n>>] = x => Held(x)

\* The program holds the value that a store waits to put in, or the frame that
\* the reference was moved to.
WaitingHeld ==
    storing.val # NULL =>
        \/ Held(storing.val)
        \/ kind[storing.cell[1]] = "frame" /\ InHand(storing.cell[1])

\* What is inductive together with IInv.
LeakInv ==
    /\ CountsBounded
    /\ FramesCounted
    /\ FramesNotMiscounted
    /\ FramesAreLinks
    /\ ClosuresLinked
    /\ DeadLetGo
    /\ WaitingHeld

-----------------------------------------------------------------------------
\* A count is positive exactly if some cell refers to the object.
LEMMA CountPositive ==
    ASSUME NEW f \in [Cells -> Ref], NEW o \in Objs
    PROVE  /\ Count(f, o) \in Nat
           /\ Count(f, o) > 0 <=> \E c \in Cells : f[c] = o
  <1> DEFINE F == {c \in Cells : f[c] = o}
  <1>1. IsFiniteSet(F) /\ (F = {} <=> ~\E c \in Cells : f[c] = o)
    <2>1. F \in SUBSET Cells
      OBVIOUS
    <2> QED
      BY <2>1, CellsFinite, FS_Subset
  <1>2. Count(f, o) = Cardinality(F)
    BY DEF Count
  <1> HIDE DEF F
  <1>3. Cardinality(F) \in Nat /\ (Cardinality(F) = 0 <=> F = {})
    BY <1>1, FS_CardinalityType, FS_EmptySet
  <1> QED
    BY <1>1, <1>2, <1>3

\* The contents of the cells are references.
LEMMA ContentsTyped ==
    ASSUME TypeOK, StoreWaits
    PROVE  /\ Contents \in [Cells -> Ref]
           /\ \A r \in Roots : Contents[r] = cell[r]
           /\ \A o \in Objs : Contents[<<o, "link">>] = cell[<<o, "link">>]
  <1>1. storing # NoStore => storing.cell \in Objs \X Names /\ storing.val \in Ref
    BY DEF TypeOK, StoreWaits
  <1>2. Contents \in [Cells -> Ref]
    BY <1>1 DEF TypeOK, Contents, Current
  <1>3. \A c \in Cells : c \notin Objs \X Names => Contents[c] = cell[c]
    BY <1>1 DEF Contents, Current
  <1> QED
    BY <1>2, <1>3, FieldCells

\* A frame in hand is alive, whatever else is not.
LEMMA FramesInHandLive ==
    ASSUME IInv, LeakInv, NEW o \in Objs, kind[o] = "frame", InHand(o)
    PROVE  status[o] = "live"
  <1>1. /\ Contents \in [Cells -> Ref]
        /\ \A r \in Roots : Contents[r] = cell[r]
        /\ \A x \in Objs : Contents[<<x, "link">>] = cell[<<x, "link">>]
    BY ContentsTyped DEF IInv, LifeInv
  <1>2. \E c \in Cells : Contents[c] = o
    <2>1. CASE Held(o)
      BY <1>1, <2>1, FieldCells DEF Held, Refers
    <2>2. CASE ~Held(o)
      <3>1. PICK x \in Objs : cell[<<x, "link">>] = o
        BY <2>2 DEF InHand, Captured, Refers
      <3> QED
        BY <1>1, <3>1, FieldCells
    <2> QED
      BY <2>1, <2>2
  <1>3. ref_count[o] > 0
    BY <1>1, <1>2, CountPositive DEF LeakInv, FramesCounted
  <1> QED
    BY <1>3 DEF IInv, LifeInv, LiveWhileCounted, Live

\* A step of the program, after which the counts are exact.
LEMMA ProgramLeak ==
    ASSUME IInv, LeakInv, Running, IInv', ExactNow',
           FramesNotMiscounted', FramesAreLinks', ClosuresLinked', WaitingHeld',
           \A x \in Objs : status'[x] # "live" => status[x] # "live" \/ InDying(x)',
           \A x \in Objs, n \in Fields : status'[x] # "live" /\ status[x] # "live" =>
              cell'[<<x, n>>] = cell[<<x, n>>]
    PROVE  LeakInv'
  <1>1. Contents' \in [Cells -> Ref]
    <2>1. TypeOK' /\ StoreWaits'
      BY DEF IInv, LifeInv
    <2>2. storing' # NoStore => storing'.cell \in Objs \X Names /\ storing'.val \in Ref
      BY <2>1 DEF TypeOK, StoreWaits
    <2> QED
      BY <2>1, <2>2 DEF TypeOK, Contents, Current
  <1>2. \A x \in Objs \ miscounted' : ref_count'[x] = Count(Contents', x)
    BY DEF ExactNow, Counted
  <1>3. CountsBounded'
    <2> SUFFICES ASSUME NEW x \in Objs \ miscounted' PROVE ref_count'[x] <= Count(Contents', x)
      BY DEF CountsBounded
    <2>1. Count(Contents', x) \in Nat
      BY <1>1, CountPositive
    <2> QED
      BY <1>2, <2>1
  <1>4. FramesCounted'
    BY <1>2 DEF FramesCounted, FramesNotMiscounted
  <1>5. DeadLetGo'
    <2> SUFFICES ASSUME NEW x \in Objs, NEW n \in Fields, status'[x] # "live", ~InDying(x)'
                 PROVE  cell'[<<x, n>>] = NULL
      BY FieldCells DEF DeadLetGo
    <2>1. cell[<<x, n>>] = NULL
      BY RunningFacts
    <2> QED
      BY <2>1
  <1> QED
    BY <1>3, <1>4, <1>5 DEF LeakInv

\* A field changes only to what is not a frame, or becomes empty.
LEMMA FramesStayLinks ==
    ASSUME FramesAreLinks, kind' = kind,
           \A x \in Objs, n \in Fields :
              \/ cell'[<<x, n>>] = cell[<<x, n>>]
              \/ cell'[<<x, n>>] = NULL
              \/ kind[cell'[<<x, n>>]] # "frame",
           storing'.val # NULL => kind[storing'.val] # "frame"
    PROVE  FramesAreLinks'
  BY DEF FramesAreLinks

\* An object that DecRef has destroyed is the innermost that is being destroyed.
LEMMA DecRefKills ==
    ASSUME TypeOK, NEW counts, NEW o \in Objs, DecRef(counts, o)
    PROVE  /\ \A x \in Objs : status'[x] # "live" => status[x] # "live" \/ InDying(x)'
           /\ \A x : InDying(x) => InDying(x)'
  <1>1. CASE LastReference(counts, o)
    <2>1. status' = [status EXCEPT ![o] = "dying"] /\ dying' = <<o>> \o dying
      BY <1>1 DEF DecRef, Destroy
    <2>2. /\ Len(dying) \in Nat /\ Len(dying') = Len(dying) + 1 /\ dying'[1] = o
          /\ \A i \in 1..Len(dying) : dying'[i + 1] = dying[i]
      <3>1. dying \in Seq(Objs) /\ <<o>> \in Seq(Objs) /\ Len(<<o>>) = 1 /\ <<o>>[1] = o
        BY DEF TypeOK
      <3>2. Len(dying) \in Nat
        BY <3>1, LenProperties
      <3>3. /\ Len(dying') = 1 + Len(dying)
            /\ \A i \in 1..(1 + Len(dying)) :
                  dying'[i] = IF i <= 1 THEN <<o>>[i] ELSE dying[i - 1]
        BY <2>1, <3>1, ConcatProperties
      <3> QED
        BY <3>1, <3>2, <3>3
    <2>3. InDying(o)'
      BY <2>2 DEF InDying
    <2>4. \A x \in Objs : x # o => status'[x] = status[x]
      BY <2>1 DEF TypeOK
    <2>5. \A i \in 1..Len(dying) : i + 1 \in 1..Len(dying')
      BY <2>2
    <2>6. \A x : InDying(x) => InDying(x)'
      BY <2>2, <2>5 DEF InDying
    <2> QED
      BY <2>3, <2>4, <2>6
  <1>2. CASE ~LastReference(counts, o)
    <2>1. UNCHANGED <<status, dying>>
      BY <1>2 DEF DecRef
    <2> QED
      BY <2>1 DEF InDying
  <1> QED
    BY <1>1, <1>2

\* A reference is taken into a cell of the program.
LEMMA TakeLeak ==
    ASSUME IInv, LeakInv, Running, IInv', ExactNow', NEW o, NEW r \in Roots, Take(o, r)
    PROVE  LeakInv'
  <1>1. /\ cell' = [cell EXCEPT ![r] = o] /\ cell \in [Cells -> Ref]
        /\ UNCHANGED <<status, kind, storing, miscounted>> /\ storing = NoStore
    BY RunningFacts DEF Take, gcVars
  <1>2. \A x \in Objs, n \in Fields : cell'[<<x, n>>] = cell[<<x, n>>]
    BY <1>1, FieldCells
  <1>3. storing'.val = NULL
    BY <1>1 DEF NoStore
  <1>4. FramesAreLinks'
    BY <1>1, <1>2, <1>3, FramesStayLinks DEF LeakInv
  <1>5. FramesNotMiscounted' /\ ClosuresLinked' /\ WaitingHeld'
    BY <1>1, <1>2, <1>3, FieldCells
       DEF LeakInv, FramesNotMiscounted, ClosuresLinked, WaitingHeld
  <1> QED
    BY <1>1, <1>2, <1>4, <1>5, ProgramLeak

\* The link of an instance becomes an object, which is not a frame.
LEMMA SetSuperLeak ==
    ASSUME IInv, LeakInv, IInv', ExactNow', NEW o \in Objs, NEW super \in Objs,
           SetSuper(o, super)
    PROVE  LeakInv'
  <1>1. /\ Running /\ kind[o] = "instance" /\ Held(o) /\ kind[super] # "frame"
        /\ cell' = [cell EXCEPT ![<<o, "link">>] = super]
        /\ UNCHANGED <<status, kind, storing, miscounted>>
    BY DEF SetSuper, gcVars
  <1>2. cell \in [Cells -> Ref] /\ storing = NoStore /\ status[o] = "live"
    BY <1>1, RunningFacts
  <1>3. \A x \in Objs, n \in Fields :
          cell'[<<x, n>>] = IF x = o /\ n = "link" THEN super ELSE cell[<<x, n>>]
    BY <1>1, <1>2, FieldCells
  <1>4. storing'.val = NULL
    BY <1>1, <1>2 DEF NoStore
  <1>5. FramesAreLinks'
    BY <1>1, <1>3, <1>4, FramesStayLinks DEF LeakInv
  <1>6. FramesNotMiscounted' /\ ClosuresLinked' /\ WaitingHeld'
    BY <1>1, <1>3, <1>4, FieldCells
       DEF LeakInv, FramesNotMiscounted, ClosuresLinked, WaitingHeld
  <1> QED
    BY <1>1, <1>2, <1>3, <1>5, <1>6, ProgramLeak

\* A field is replaced, in cells in which the link of o may have changed before.
LEMMA SetFieldLeak ==
    ASSUME IInv, LeakInv, Running, IInv', ExactNow',
           NEW o \in Objs, NEW n \in Names, NEW val \in Ref, status[o] = "live",
           NEW counts, NEW cells \in [Cells -> Ref],
           SetField(o, n, val, counts, cells), kind' = kind,
           val # NULL => kind[val] # "frame",
           \A x \in Objs, m \in Fields :
              \/ cells[<<x, m>>] = cell[<<x, m>>]
              \/ x = o /\ kind[o] = "instance" /\ kind[cells[<<x, m>>]] # "frame",
           FramesNotMiscounted',
           storing' # NoStore /\ val # NULL =>
              Held(val)' \/ (kind[o] = "frame" /\ InHand(o)')
    PROVE  LeakInv'
  <1> DEFINE c == <<o, n>>
             old == cell[c]
             waits == old # NULL /\ LastReference(counts, old)
  <1>1. /\ old = NULL => UNCHANGED <<status, dying>>
        /\ old # NULL => DecRef(counts, old)
        /\ cell' = IF waits THEN cells ELSE [cells EXCEPT ![c] = val]
        /\ storing' = IF waits THEN [cell |-> c, val |-> val] ELSE NoStore
    BY DEF SetField
  <1>2. c \in Cells /\ n \in Fields /\ n # "link" /\ old \in Ref
    BY FieldCells, RunningFacts
  <1>3. \A x \in Objs : status'[x] # "live" => status[x] # "live" \/ InDying(x)'
    <2>1. CASE old = NULL
      BY <1>1, <2>1
    <2>2. CASE old # NULL
      <3>1. old \in Objs /\ TypeOK
        BY <1>2, <2>2 DEF Ref, IInv, LifeInv
      <3> QED
        BY <1>1, <2>2, <3>1, DecRefKills
    <2> QED
      BY <2>1, <2>2
  <1> HIDE DEF old, waits
  <1>4. \A x \in Objs, m \in Fields :
          \/ cell'[<<x, m>>] = cells[<<x, m>>]
          \/ x = o /\ m = n /\ cell'[<<x, m>>] = val
    BY <1>1, <1>2, FieldCells
  <1> HIDE DEF c
  <1>5. storing'.val # NULL => storing' # NoStore /\ storing'.val = val /\ storing'.cell[1] = o
    BY <1>1 DEF NoStore, c
  <1>6. FramesAreLinks'
    <2>1. storing'.val # NULL => kind[storing'.val] # "frame"
      BY <1>5
    <2>2. \A x \in Objs, m \in Fields :
              \/ cell'[<<x, m>>] = cell[<<x, m>>]
              \/ cell'[<<x, m>>] = NULL
              \/ kind[cell'[<<x, m>>]] # "frame"
      BY <1>4
    <2> QED
      BY <2>1, <2>2, FramesStayLinks DEF LeakInv
  <1>7. WaitingHeld'
    BY <1>5 DEF WaitingHeld
  <1>8. ClosuresLinked'
    <2> SUFFICES ASSUME NEW x \in Objs, status'[x] = "live", kind[x] = "closure"
                 PROVE  cell'[<<x, "link">>] # NULL
      BY DEF ClosuresLinked
    <2>1. cell'[<<x, "link">>] = cell[<<x, "link">>] /\ "link" \in Fields
      BY <1>2, <1>4, FieldCells
    <2>2. cell[<<x, "link">>] # NULL
      <3>1. status[x] = "live"
        <4>1. CASE old = NULL
          BY <1>1, <4>1
        <4>2. CASE old # NULL
          <5>1. status' = status \/ status' = [status EXCEPT ![old] = "dying"]
            BY <1>1, <4>2 DEF DecRef, Destroy
          <5> QED
            BY <5>1 DEF IInv, LifeInv, TypeOK
        <4> QED
          BY <4>1, <4>2
      <3> QED
        BY <3>1 DEF LeakInv, ClosuresLinked
    <2> QED
      BY <2>1, <2>2
  <1>9. \A x \in Objs, m \in Fields : status[x] # "live" => cell'[<<x, m>>] = cell[<<x, m>>]
    BY <1>4
  <1> QED
    BY <1>3, <1>6, <1>7, <1>8, <1>9, ProgramLeak

\* What a store waits to put into a field is held: by the program or a frame.
LEMMA StoreLeak ==
    ASSUME IInv, LeakInv, NEW o \in Objs, NEW n \in Names, NEW r \in Roots, Store(o, n, r)
    PROVE  LeakInv'
  <1> PICK val : val = cell[r]
    OBVIOUS
  <1> PICK cells : cells = IF kind[o] = "frame" THEN [cell EXCEPT ![r] = NULL] ELSE cell
    OBVIOUS
  <1> PICK counts : counts = CountsForStore(o, ref_count, val)
    OBVIOUS
  <1>1. /\ Running /\ InHand(o) /\ val # NULL /\ kind[val] # "frame"
        /\ SetField(o, n, val, counts, cells)
        /\ UNCHANGED <<kind, gcVars>>
    BY DEF Store
  <1>2. /\ IInv' /\ ExactNow' /\ (storing' # NoStore => InHand(storing.cell[1])')
    BY StoreInv
  <1>3. /\ r \in Cells /\ NULL \in Ref /\ cell \in [Cells -> Ref] /\ val \in Ref /\ val \in Objs
        /\ status[o] = "live" /\ cells \in [Cells -> Ref]
    BY <1>1, FieldCells, RunningFacts
  <1>4. \A x \in Objs, m \in Fields : cells[<<x, m>>] = cell[<<x, m>>]
    BY <1>3, FieldCells
  <1>5. FramesNotMiscounted'
    BY <1>1 DEF LeakInv, FramesNotMiscounted, gcVars
  <1>6. ASSUME storing' # NoStore PROVE Held(val)' \/ (kind[o] = "frame" /\ InHand(o)')
    <2>1. storing'.cell = <<o, n>> /\ cell' = cells
      BY <1>1, <1>6 DEF SetField
    <2>2. CASE kind[o] # "frame"
      BY <1>3, <2>1, <2>2 DEF Held, Refers
    <2>3. CASE kind[o] = "frame"
      BY <1>2, <1>6, <2>1, <2>3
    <2> QED
      BY <2>2, <2>3
  <1>7. /\ kind' = kind
        /\ \A x \in Objs, m \in Fields :
              \/ cells[<<x, m>>] = cell[<<x, m>>]
              \/ x = o /\ kind[o] = "instance" /\ kind[cells[<<x, m>>]] # "frame"
        /\ storing' # NoStore /\ val # NULL => Held(val)' \/ (kind[o] = "frame" /\ InHand(o)')
    BY <1>1, <1>4, <1>6
  <1> QED
    BY <1>1, <1>2, <1>3, <1>5, <1>7, SetFieldLeak

\* `super' has its object in hand, the new one and the one it is linked with.
LEMMA SuperLeak ==
    ASSUME IInv, LeakInv, NEW o \in Objs, NEW n \in Names, NEW super \in Objs,
           Super(o, n, super)
    PROVE  LeakInv'
  <1> PICK cells : cells = [cell EXCEPT ![<<o, "link">>] = super]
    OBVIOUS
  <1> PICK counts : counts = CountsForStore(o, Inc(ref_count, super), super)
    OBVIOUS
  <1>1. /\ Running /\ kind[o] = "instance" /\ Held(o) /\ Held(super) /\ kind[super] # "frame"
        /\ SetField(o, n, super, counts, cells) /\ kind' = kind
        /\ miscounted' = miscounted \cup ({cell[<<o, "link">>]} \ {NULL})
    BY DEF Super
  <1>2. IInv' /\ ExactNow'
    BY SuperInv
  <1>3. /\ cell \in [Cells -> Ref] /\ super \in Ref /\ status[o] = "live"
        /\ cells \in [Cells -> Ref]
    BY <1>1, FieldCells, RunningFacts
  <1>4. \A x \in Objs, m \in Fields :
          \/ cells[<<x, m>>] = cell[<<x, m>>]
          \/ x = o /\ kind[o] = "instance" /\ kind[cells[<<x, m>>]] # "frame"
    BY <1>1, <1>3, FieldCells
  <1>5. FramesNotMiscounted'
    <2>1. cell[<<o, "link">>] # NULL => kind[cell[<<o, "link">>]] # "frame"
      BY <1>1, FieldCells DEF LeakInv, FramesAreLinks
    <2> QED
      BY <1>1, <2>1 DEF LeakInv, FramesNotMiscounted
  <1>6. storing' # NoStore /\ super # NULL =>
           Held(super)' \/ (kind[o] = "frame" /\ InHand(o)')
    <2>1. storing' # NoStore => cell' = cells
      BY <1>1 DEF SetField
    <2>2. \A r \in Roots : cells[r] = cell[r]
      BY <1>3, FieldCells
    <2> QED
      BY <1>1, <2>1, <2>2 DEF Held, Refers
  <1>7. /\ Running /\ kind' = kind /\ SetField(o, n, super, counts, cells)
        /\ super # NULL => kind[super] # "frame"
    BY <1>1
  <1> QED
    BY <1>2, <1>3, <1>4, <1>5, <1>6, <1>7, SetFieldLeak

\* GaList_Remove puts nothing into its field.
LEMMA RemoveElemLeak ==
    ASSUME IInv, LeakInv, NEW o \in Objs, NEW n \in Names, RemoveElem(o, n)
    PROVE  LeakInv'
  <1>1. /\ Running /\ Held(o) /\ SetField(o, n, NULL, ref_count, cell)
        /\ kind' = kind /\ miscounted' = miscounted
    BY DEF RemoveElem, gcVars
  <1>2. /\ cell \in [Cells -> Ref] /\ NULL \in Ref /\ status[o] = "live"
        /\ IInv' /\ ExactNow'
    BY <1>1, FieldCells, RunningFacts, RemoveElemInv
  <1>3. FramesNotMiscounted'
    BY <1>1 DEF LeakInv, FramesNotMiscounted
  <1> QED
    BY <1>1, <1>2, <1>3, SetFieldLeak

\* A cell of the program that lets go may kill what it referred to.
LEMMA DropLeak ==
    ASSUME IInv, LeakInv, NEW r \in Roots, Drop(r) PROVE LeakInv'
  <1>1. /\ Running /\ cell[r] # NULL /\ cell' = [cell EXCEPT ![r] = NULL]
        /\ DecRef(ref_count, cell[r]) /\ UNCHANGED <<kind, storing, miscounted>>
    BY DEF Drop, gcVars
  <1>2. /\ cell \in [Cells -> Ref] /\ cell[r] \in Objs /\ storing = NoStore
        /\ TypeOK /\ IInv' /\ ExactNow'
    BY <1>1, FieldCells, RunningFacts, DropInv DEF IInv, LifeInv
  <1>3. \A x \in Objs, n \in Fields : cell'[<<x, n>>] = cell[<<x, n>>]
    BY <1>1, <1>2, FieldCells
  <1>4. storing'.val = NULL
    BY <1>1, <1>2 DEF NoStore
  <1>5. \A x \in Objs : status'[x] # "live" => status[x] # "live" \/ InDying(x)'
    BY <1>1, <1>2, DecRefKills
  <1>6. \A x \in Objs : status'[x] = "live" => status[x] = "live"
    <2>1. status' = status \/ status' = [status EXCEPT ![cell[r]] = "dying"]
      BY <1>1 DEF DecRef, Destroy
    <2> QED
      BY <1>2, <2>1 DEF TypeOK
  <1>7. FramesAreLinks'
    BY <1>1, <1>3, <1>4, FramesStayLinks DEF LeakInv
  <1>8. FramesNotMiscounted' /\ ClosuresLinked' /\ WaitingHeld'
    BY <1>1, <1>3, <1>4, <1>6, FieldCells
       DEF LeakInv, FramesNotMiscounted, ClosuresLinked, WaitingHeld
  <1> QED
    BY <1>1, <1>2, <1>3, <1>5, <1>7, <1>8, ProgramLeak

\* A new object is referred to by one cell, and its fields by its link only.
LEMMA NewLeak ==
    ASSUME IInv, LeakInv, NEW o \in Objs, NEW k \in Kinds, NEW with \in Ref,
           NEW r \in Roots, New(o, k, with, r)
    PROVE  LeakInv'
  <1> PICK link : link = IF k = "weak" THEN NULL ELSE with
    OBVIOUS
  <1>1. /\ status[o] = "free" /\ CanLink(k, with) /\ Running
        /\ cell' = [cell EXCEPT ![r] = o, ![<<o, "link">>] = link]
        /\ status' = [status EXCEPT ![o] = "live"]
        /\ kind' = [kind EXCEPT ![o] = k]
        /\ miscounted' = miscounted \ {o}
        /\ UNCHANGED <<dying, storing>>
    BY DEF New
  <1>2. /\ cell \in [Cells -> Ref] /\ storing = NoStore /\ TypeOK
        /\ IInv' /\ ExactNow'
        /\ \A n \in Fields : cell[<<o, n>>] = NULL
        /\ \A d \in Cells : cell[d] # o
    <2>1. IInv' /\ ExactNow'
      BY NewInv
    <2> QED
      BY <1>1, <2>1, RunningFacts, FieldCells DEF IInv, LifeInv
  <1>3. \A x \in Objs, n \in Fields :
          cell'[<<x, n>>] = IF x = o /\ n = "link" THEN link ELSE cell[<<x, n>>]
    BY <1>1, <1>2, FieldCells
  <1>4. /\ \A x : x # o => kind'[x] = kind[x]
        /\ kind'[o] = k
        /\ \A x \in Objs : x # o => status'[x] = status[x]
        /\ status'[o] = "live"
    BY <1>1, <1>2 DEF TypeOK
  <1>5. storing'.val = NULL
    BY <1>1, <1>2 DEF NoStore
  <1>6. /\ link # NULL => k \in {"closure", "frame"}
        /\ k = "closure" => link # NULL
    BY <1>1, FieldCells DEF CanLink, Held
  <1>7. FramesAreLinks'
    <2> SUFFICES ASSUME NEW x \in Objs, NEW n \in Fields, cell'[<<x, n>>] # NULL,
                        kind'[cell'[<<x, n>>]] = "frame"
                 PROVE  n = "link" /\ kind'[x] \in {"closure", "frame"}
      BY <1>5 DEF FramesAreLinks
    <2>1. CASE x = o
      BY <1>2, <1>3, <1>4, <1>6, <2>1
    <2>2. CASE x # o
      <3>1. cell'[<<x, n>>] = cell[<<x, n>>] /\ cell[<<x, n>>] # o
        BY <1>2, <1>3, <2>2, FieldCells
      <3> QED
        BY <1>4, <2>2, <3>1 DEF LeakInv, FramesAreLinks
    <2> QED
      BY <2>1, <2>2
  <1>8. FramesNotMiscounted' /\ WaitingHeld'
    BY <1>1, <1>4, <1>5 DEF LeakInv, FramesNotMiscounted, WaitingHeld
  <1>9. ClosuresLinked'
    <2> SUFFICES ASSUME NEW x \in Objs, status'[x] = "live", kind'[x] = "closure"
                 PROVE  cell'[<<x, "link">>] # NULL
      BY DEF ClosuresLinked
    <2>1. CASE x = o
      BY <1>3, <1>4, <1>6, <2>1, FieldCells
    <2>2. CASE x # o
      BY <1>3, <1>4, <2>2, FieldCells DEF LeakInv, ClosuresLinked
    <2> QED
      BY <2>1, <2>2
  <1> QED
    BY <1>1, <1>2, <1>3, <1>4, <1>7, <1>8, <1>9, ProgramLeak

\* The collector meets no frame: it goes through the names of what it traverses.
LEMMA CollectLeak == ASSUME IInv, LeakInv, Collect PROVE LeakInv'
  <1>1. /\ Running /\ miscounted' = miscounted \cup Candidates
        /\ UNCHANGED <<status, kind, ref_count, cell, weakVars, dying, storing>>
    BY DEF Collect
  <1>2. storing = NoStore /\ cell \in [Cells -> Ref] /\ IInv' /\ ExactNow'
    BY <1>1, RunningFacts, CollectInv
  <1>3. \A o \in Objs : \A x \in FieldsOf(o) : x \in Objs /\ kind[x] # "frame"
    <2> SUFFICES ASSUME NEW o \in Objs, NEW n \in Names, cell[<<o, n>>] # NULL
                 PROVE  cell[<<o, n>>] \in Objs /\ kind[cell[<<o, n>>]] # "frame"
      BY DEF FieldsOf
    <2>1. <<o, n>> \in Cells /\ n \in Fields /\ n # "link"
      BY FieldCells
    <2> QED
      BY <1>2, <2>1 DEF LeakInv, FramesAreLinks, Ref
  <1>4. \A e \in Paths : e[2] \in Objs /\ kind[e[2]] # "frame"
    <2> SUFFICES ASSUME NEW o \in Live, NEW x \in Transversed(o)
                 PROVE  x \in Objs /\ kind[x] # "frame"
      BY DEF Paths
    <2>1. CASE kind[o] = "instance"
      BY <1>3, <2>1 DEF Transversed, Live
    <2>2. CASE kind[o] = "closure"
      <3>1. cell[<<o, "link">>] \in Objs
        BY <1>2, <2>2, FieldCells DEF LeakInv, ClosuresLinked, Live, Ref
      <3>2. x \in FieldsOf(cell[<<o, "link">>])
        BY <2>2 DEF Transversed
      <3> QED
        BY <1>3, <3>1, <3>2
    <2> QED
      BY <2>1, <2>2 DEF Transversed
  <1>5. ASSUME NEW x \in Candidates PROVE kind[x] # "frame"
    <2> DEFINE S == {y \in Objs : kind[y] # "frame"}
    <2>1. x \in ReachedFrom(Targets(x, Paths), Paths, Objs)
      BY DEF Candidates, OnCycle
    <2>2. Targets(x, Paths) \subseteq S /\ IsClosed(S, Paths) /\ S \in SUBSET Objs
      BY <1>4 DEF Targets, IsClosed
    <2> QED
      BY <2>1, <2>2 DEF ReachedFrom
  <1>6. FramesNotMiscounted'
    BY <1>1, <1>5 DEF LeakInv, FramesNotMiscounted
  <1>7. FramesAreLinks' /\ ClosuresLinked' /\ WaitingHeld'
    BY <1>1, <1>2 DEF LeakInv, FramesAreLinks, ClosuresLinked, WaitingHeld, NoStore
  <1> QED
    BY <1>1, <1>2, <1>6, <1>7, ProgramLeak

\* What the program has in hand, it keeps in hand while destructions go on, if a
\* frame holds it; the fields of what is alive do not change.
LEMMA WaitingStaysHeld ==
    ASSUME IInv, LeakInv, UNCHANGED <<kind, storing>>,
           \A r \in Roots : cell'[r] = cell[r],
           \A x \in Objs : status[x] = "live" => cell'[<<x, "link">>] = cell[<<x, "link">>]
    PROVE  /\ WaitingHeld'
           /\ \A x : Held(x)' <=> Held(x)
  <1>1. \A x : Held(x)' <=> Held(x)
    BY DEF Held, Refers
  <1>2. ASSUME NEW o, kind[o] = "frame", InHand(o) PROVE InHand(o)'
    <2>1. CASE Held(o)
      BY <1>1, <2>1 DEF InHand
    <2>2. CASE ~Held(o)
      <3>1. PICK x \in Objs : kind[x] = "frame" /\ Held(x) /\ cell[<<x, "link">>] = o
        BY <1>2, <2>2 DEF InHand, Captured, Refers
      <3>2. status[x] = "live"
        BY <3>1, FramesInHandLive DEF InHand
      <3>3. o \in Objs
        BY <1>2, <2>2 DEF InHand, Captured
      <3> QED
        BY <1>1, <3>1, <3>2, <3>3 DEF InHand, Captured, Refers
    <2> QED
      BY <2>1, <2>2
  <1>3. WaitingHeld'
    <2> SUFFICES ASSUME storing.val # NULL
                 PROVE  \/ Held(storing.val)'
                        \/ kind[storing.cell[1]] = "frame" /\ InHand(storing.cell[1])'
      BY DEF WaitingHeld
    <2> PICK val, o : val = storing.val /\ o = storing.cell[1]
      OBVIOUS
    <2>1. Held(val) \/ (kind[o] = "frame" /\ InHand(o))
      BY DEF LeakInv, WaitingHeld
    <2>2. Held(val)' \/ (kind[o] = "frame" /\ InHand(o)')
      BY <1>1, <1>2, <2>1
    <2> QED
      BY <2>2
  <1> QED
    BY <1>1, <1>3

\* An object that dies lets go of one more field.
LEMMA ReleaseLeak == ASSUME IInv, LeakInv, NEW n \in Fields, Release(n) PROVE LeakInv'
  <1> PICK o : o = Head(dying)
    OBVIOUS
  <1> PICK c : c = <<o, n>>
    OBVIOUS
  <1>1. /\ dying # <<>> /\ cell[c] # NULL /\ cell' = [cell EXCEPT ![c] = NULL]
        /\ DecRef(ref_count, cell[c]) /\ UNCHANGED <<kind, storing, miscounted>>
    BY DEF Release, gcVars
  <1>2. TypeOK /\ DyingAreDead /\ StoreWaits /\ LifeInv /\ LifeInv'
    BY ReleaseInv DEF IInv, LifeInv
  <1>3. o \in Objs /\ status[o] # "live"
    <2>1. dying \in Seq(Objs) /\ Len(dying) \in Nat \ {0} /\ o = dying[1]
      BY <1>1, <1>2, EmptySeq DEF TypeOK
    <2> QED
      BY <1>2, <2>1, ElementOfSeq DEF DyingAreDead
  <1>4. /\ c \in Cells /\ c \notin Roots /\ cell \in [Cells -> Ref]
        /\ cell[c] \in Objs /\ NULL \in Ref /\ NULL \notin Objs
        /\ cell' \in [Cells -> Ref] /\ cell'[c] = NULL
        /\ \A d \in Cells : d # c => cell'[d] = cell[d]
    BY <1>1, <1>2, <1>3, FieldCells DEF TypeOK, Ref
  <1>5. /\ \A r \in Roots : cell'[r] = cell[r]
        /\ \A x \in Objs, m \in Fields :
              cell'[<<x, m>>] = IF x = o /\ m = n THEN NULL ELSE cell[<<x, m>>]
    BY <1>4, FieldCells
  <1>6. WaitingHeld' /\ \A x : Held(x)' <=> Held(x)
    <2>1. \A x \in Objs : status[x] = "live" => cell'[<<x, "link">>] = cell[<<x, "link">>]
      BY <1>3, <1>5, FieldCells
    <2> QED
      BY <1>1, <1>5, <2>1, WaitingStaysHeld
  <1>7. /\ \A x \in Objs : status'[x] # "live" => status[x] # "live" \/ InDying(x)'
        /\ \A x : InDying(x) => InDying(x)'
        /\ \A x \in Objs : status'[x] = "live" => status[x] = "live"
    <2>1. status' = status \/ status' = [status EXCEPT ![cell[c]] = "dying"]
      BY <1>1 DEF DecRef, Destroy
    <2>2. \A x \in Objs : status'[x] = "live" => status[x] = "live"
      BY <1>2, <2>1 DEF TypeOK
    <2> QED
      BY <1>1, <1>2, <1>4, <2>2, DecRefKills
  <1>8. DeadLetGo'
    <2> SUFFICES ASSUME NEW x \in Objs, NEW y \in Objs, NEW m \in Fields,
                        status'[x] # "live", ~InDying(x)', cell'[<<x, m>>] = y
                 PROVE  Held(y)'
      BY DEF DeadLetGo
    <2>1. status[x] # "live" /\ ~InDying(x) /\ cell[<<x, m>>] = y
      BY <1>4, <1>5, <1>7
    <2>2. Held(y)
      BY <2>1 DEF LeakInv, DeadLetGo
    <2> QED
      BY <1>6, <2>2
  <1>9. \A x \in Objs : ref_count'[x] = ref_count[x] - (IF cell[c] = x THEN 1 ELSE 0)
    BY <1>1, <1>2 DEF DecRef, TypeOK
  <1>10. Contents \in [Cells -> Ref] /\ Contents' \in [Cells -> Ref]
    BY <1>1, <1>2, <1>4, ContentsTyped DEF Contents, Current, TypeOK, StoreWaits
  \* Of a field that a store waits to replace, the old value has been dropped
  <1>11. ASSUME NEW x \in Objs
         PROVE  /\ ref_count[x] \in Int /\ Count(Contents, x) \in Nat
                /\ \/ Count(Contents', x) - ref_count'[x] = Count(Contents, x) - ref_count[x]
                   \/ /\ Count(Contents', x) - ref_count'[x]
                            >= Count(Contents, x) - ref_count[x]
                      /\ kind[x] # "frame"
    <2>1. ref_count[x] \in Int /\ Count(Contents, x) \in Nat
      BY <1>2, <1>10, CountPositive DEF TypeOK
    <2>2. CASE storing # NoStore /\ storing.cell = c
      <3>1. Contents' = Contents
        BY <1>1, <1>4, <2>2 DEF Contents, Current
      <3>2. cell[c] = x => kind[x] # "frame"
        BY <1>1, <1>2, <1>3, <2>2, FieldCells DEF StoreWaits, LeakInv, FramesAreLinks
      <3> QED
        BY <1>9, <2>1, <3>1, <3>2
    <2>3. CASE ~(storing # NoStore /\ storing.cell = c)
      <3>1. /\ Contents[c] = cell[c] /\ Contents'[c] = NULL
            /\ \A d \in Cells : d # c => Contents'[d] = Contents[d]
        BY <1>1, <1>4, <2>3 DEF Contents, Current
      <3>2. Count(Contents', x) = Count(Contents, x) + (IF Contents'[c] = x THEN 1 ELSE 0)
                                  - (IF Contents[c] = x THEN 1 ELSE 0)
        <4> PICK f, g : f = Contents /\ g = Contents'
          OBVIOUS
        <4>1. /\ f \in [Cells -> Ref] /\ g \in [Cells -> Ref] /\ c \in Cells
              /\ \A d \in Cells : d # c => g[d] = f[d]
          BY <1>4, <1>10, <3>1
        <4>2. Count(g, x) = Count(f, x) + (IF g[c] = x THEN 1 ELSE 0)
                            - (IF f[c] = x THEN 1 ELSE 0)
          BY <4>1, CountChanges
        <4> QED
          BY <4>2
      <3> QED
        BY <1>4, <1>9, <2>1, <3>1, <3>2
    <2> QED
      BY <2>1, <2>2, <2>3
  <1>12. ASSUME NEW x \in Objs
         PROVE  ref_count'[x] \in Int /\ Count(Contents', x) \in Nat
    BY <1>2, <1>10, CountPositive DEF LifeInv, TypeOK
  <1>13. CountsBounded'
    <2> SUFFICES ASSUME NEW x \in Objs \ miscounted PROVE ref_count'[x] <= Count(Contents', x)
      BY <1>1 DEF CountsBounded
    <2>1. ref_count[x] <= Count(Contents, x)
      BY DEF LeakInv, CountsBounded
    <2> QED
      BY <1>11, <1>12, <2>1
  <1>14. FramesCounted'
    <2> SUFFICES ASSUME NEW x \in Objs, kind[x] = "frame"
                 PROVE  ref_count'[x] = Count(Contents', x)
      BY <1>1 DEF FramesCounted
    <2>1. ref_count[x] = Count(Contents, x)
      BY DEF LeakInv, FramesCounted
    <2> QED
      BY <1>11, <1>12, <2>1
  <1>15. FramesAreLinks'
    BY <1>1, <1>5, FramesStayLinks DEF LeakInv, FramesAreLinks
  <1>16. FramesNotMiscounted' /\ ClosuresLinked'
    BY <1>1, <1>3, <1>5, <1>7, FieldCells DEF LeakInv, FramesNotMiscounted, ClosuresLinked
  <1> QED
    BY <1>6, <1>8, <1>13, <1>14, <1>15, <1>16 DEF LeakInv

\* A step of a destruction that changes no cell and no count.
LEMMA PassingLeak ==
    ASSUME IInv, LeakInv, UNCHANGED <<kind, ref_count, cell, storing, miscounted>>,
           \A x \in Objs : status'[x] = "live" <=> status[x] = "live",
           \A x \in Objs : InDying(x) =>
              InDying(x)' \/ \A n \in Fields : cell[<<x, n>>] = NULL
    PROVE  LeakInv'
  <1>1. WaitingHeld' /\ \A x : Held(x)' <=> Held(x)
    BY WaitingStaysHeld
  <1>2. Contents' = Contents
    BY DEF Contents, Current
  <1>3. CountsBounded' /\ FramesCounted'
    BY <1>2 DEF LeakInv, CountsBounded, FramesCounted
  <1>4. FramesNotMiscounted' /\ FramesAreLinks' /\ ClosuresLinked'
    BY DEF LeakInv, FramesNotMiscounted, FramesAreLinks, ClosuresLinked
  <1>5. DeadLetGo'
    <2> SUFFICES ASSUME NEW x \in Objs, NEW y \in Objs, NEW m \in Fields,
                        status[x] # "live", ~InDying(x)', cell[<<x, m>>] = y
                 PROVE  Held(y)
      BY <1>1 DEF DeadLetGo
    <2> QED
      BY FieldCells DEF LeakInv, DeadLetGo
  <1> QED
    BY <1>1, <1>3, <1>4, <1>5 DEF LeakInv

\* What goes back to its pool is still being destroyed.
LEMMA PutBackLeak == ASSUME IInv, LeakInv, PutBack PROVE LeakInv'
  <1>1. PICK o : /\ status[o] = "dying" /\ status' = [status EXCEPT ![o] = "free"]
                 /\ UNCHANGED <<kind, ref_count, cell, dying, storing, miscounted>>
    BY DEF PutBack, gcVars
  <1>2. \A x \in Objs : status'[x] = "live" <=> status[x] = "live"
    BY <1>1 DEF IInv, LifeInv, TypeOK
  <1>3. \A x \in Objs : InDying(x) => InDying(x)'
    BY <1>1 DEF InDying
  <1> QED
    BY <1>1, <1>2, <1>3, PassingLeak

\* A destruction that is left has let go of every field.
LEMMA DestroyedLeak == ASSUME IInv, LeakInv, Destroyed PROVE LeakInv'
  <1>1. /\ dying # <<>> /\ dying' = Tail(dying)
        /\ \A n \in Fields : cell[<<Head(dying), n>>] = NULL
        /\ UNCHANGED <<status, kind, ref_count, cell, storing, miscounted>>
    BY DEF Destroyed, gcVars
  <1>2. /\ Len(dying) \in Nat \ {0} /\ Len(dying') = Len(dying) - 1
        /\ \A i \in 1..Len(dying') : dying'[i] = dying[i + 1]
        /\ Head(dying) = dying[1]
    BY <1>1, EmptySeq, HeadTailProperties DEF IInv, LifeInv, TypeOK
  <1>3. ASSUME NEW x \in Objs, InDying(x)
        PROVE  InDying(x)' \/ \A n \in Fields : cell[<<x, n>>] = NULL
    <2>1. PICK i \in 1..Len(dying) : dying[i] = x
      BY <1>3 DEF InDying
    <2>2. CASE i = 1
      BY <1>1, <1>2, <2>1, <2>2
    <2>3. CASE i # 1
      <3>1. i - 1 \in 1..Len(dying') /\ dying'[i - 1] = x
        BY <1>2, <2>1, <2>3
      <3> QED
        BY <3>1 DEF InDying
    <2> QED
      BY <2>2, <2>3
  <1> QED
    BY <1>1, <1>3, PassingLeak

\* A store that ends puts in what its field was to hold all along.
LEMMA EndStoreLeak == ASSUME IInv, LeakInv, EndStore PROVE LeakInv'
  <1> PICK c, val : c = storing.cell /\ val = storing.val
    OBVIOUS
  <1>1. /\ storing # NoStore /\ cell' = [cell EXCEPT ![c] = val]
        /\ storing' = NoStore
        /\ UNCHANGED <<status, kind, ref_count, dying, miscounted>>
    BY DEF EndStore, gcVars
  <1>2. TypeOK /\ StoreWaits
    BY DEF IInv, LifeInv
  <1>3. /\ c \in Cells /\ val \in Ref /\ c \in Objs \X Names
        /\ cell \in [Cells -> Ref]
        /\ \A d \in Cells : cell'[d] = IF d = c THEN val ELSE cell[d]
        /\ storing'.val = NULL
    BY <1>1, <1>2 DEF TypeOK, StoreWaits, NoStore
  <1>4. PICK o \in Objs, n \in Names : c = <<o, n>>
    BY <1>3
  <1>5. /\ \A r \in Roots : cell'[r] = cell[r]
        /\ \A x \in Objs, m \in Fields :
              cell'[<<x, m>>] = IF x = o /\ m = n THEN val ELSE cell[<<x, m>>]
    BY <1>3, <1>4, FieldCells
  <1>6. Contents' = Contents
    BY <1>1, <1>3 DEF Contents, Current
  <1>7. CountsBounded' /\ FramesCounted' /\ FramesNotMiscounted'
    BY <1>1, <1>6 DEF LeakInv, CountsBounded, FramesCounted, FramesNotMiscounted
  <1>8. FramesAreLinks'
    BY <1>1, <1>3, <1>5, FramesStayLinks DEF LeakInv, FramesAreLinks
  <1>9. ClosuresLinked' /\ WaitingHeld'
    BY <1>1, <1>3, <1>5, FieldCells DEF LeakInv, ClosuresLinked, WaitingHeld
  <1>10. \A x : Held(x)' <=> Held(x)
    BY <1>5 DEF Held, Refers
  <1>11. DeadLetGo'
    <2> SUFFICES ASSUME NEW x \in Objs, NEW y \in Objs, NEW m \in Fields,
                        status[x] # "live", ~InDying(x), cell'[<<x, m>>] = y
                 PROVE  Held(y)
      BY <1>1, <1>10 DEF DeadLetGo, InDying
    <2>1. CASE x = o /\ m = n
      <3>1. val # NULL /\ y = val /\ storing.cell[1] = o
        BY <1>4, <1>5, <2>1, FieldCells
      <3>2. ~(kind[o] = "frame" /\ InHand(o))
        BY <2>1, FramesInHandLive
      <3> QED
        BY <3>1, <3>2 DEF LeakInv, WaitingHeld
    <2>2. CASE ~(x = o /\ m = n)
      BY <1>5, <2>2 DEF LeakInv, DeadLetGo
    <2> QED
      BY <2>1, <2>2
  <1> QED
    BY <1>7, <1>8, <1>9, <1>11 DEF LeakInv

\* The collector drops one from a count that it has noted as put out.
LEMMA DropCandidateLeak == ASSUME IInv, LeakInv, DropCandidate PROVE LeakInv'
  <1> PICK o : o = Head(gc_candidates)
    OBVIOUS
  <1>1. /\ gc_candidates # <<>> /\ DecRef(ref_count, o)
        /\ UNCHANGED <<kind, cell, storing, miscounted>>
    BY DEF DropCandidate
  <1>2. TypeOK /\ StoreWaits /\ CandidatesNoted
    BY DEF IInv, LifeInv
  <1>3. o \in miscounted /\ o \in Objs /\ kind[o] # "frame"
    <2>1. gc_candidates \in Seq(Objs) /\ Len(gc_candidates) \in Nat \ {0} /\ o = gc_candidates[1]
      BY <1>1, <1>2, EmptySeq DEF TypeOK
    <2> QED
      BY <1>2, <2>1 DEF CandidatesNoted, LeakInv, FramesNotMiscounted, TypeOK
  <1>4. WaitingHeld' /\ \A x : Held(x)' <=> Held(x)
    BY <1>1, WaitingStaysHeld
  <1>5. /\ \A x \in Objs : status'[x] # "live" => status[x] # "live" \/ InDying(x)'
        /\ \A x : InDying(x) => InDying(x)'
        /\ \A x \in Objs : status'[x] = "live" => status[x] = "live"
        /\ \A x \in Objs : x # o => ref_count'[x] = ref_count[x]
    <2>1. status' = status \/ status' = [status EXCEPT ![o] = "dying"]
      BY <1>1 DEF DecRef, Destroy
    <2>2. \A x \in Objs : status'[x] = "live" => status[x] = "live"
      BY <1>2, <2>1 DEF TypeOK
    <2>3. \A x \in Objs : x # o => ref_count'[x] = ref_count[x]
      BY <1>1, <1>2 DEF DecRef, TypeOK
    <2> QED
      BY <1>1, <1>2, <1>3, <2>2, <2>3, DecRefKills
  <1>6. Contents' = Contents
    BY <1>1 DEF Contents, Current
  <1>7. CountsBounded' /\ FramesCounted'
    BY <1>1, <1>3, <1>5, <1>6 DEF LeakInv, CountsBounded, FramesCounted
  <1>8. FramesNotMiscounted' /\ FramesAreLinks' /\ ClosuresLinked'
    BY <1>1, <1>5 DEF LeakInv, FramesNotMiscounted, FramesAreLinks, ClosuresLinked
  <1>9. DeadLetGo'
    <2> SUFFICES ASSUME NEW x \in Objs, NEW y \in Objs, NEW m \in Fields,
                        status'[x] # "live", ~InDying(x)', cell[<<x, m>>] = y
                 PROVE  Held(y)
      BY <1>1, <1>4 DEF DeadLetGo
    <2> QED
      BY <1>5 DEF LeakInv, DeadLetGo
  <1> QED
    BY <1>4, <1>7, <1>8, <1>9 DEF LeakInv

\* There is nothing to leak at first.
LEMMA InitLeak == Init => LeakInv
  <1> SUFFICES ASSUME Init PROVE LeakInv
    OBVIOUS
  <1>1. /\ \A c \in Cells : cell[c] = NULL
        /\ \A o \in Objs : status[o] = "free" /\ kind[o] = "list" /\ ref_count[o] = 0
        /\ storing = NoStore /\ storing.val = NULL /\ miscounted = {}
        /\ cell \in [Cells -> Ref]
    BY FieldCells DEF Init, NoStore
  <1>2. \A o \in Objs : Count(Contents, o) = 0
    <2> SUFFICES ASSUME NEW o \in Objs PROVE Count(Contents, o) = 0
      OBVIOUS
    <2>1. Contents \in [Cells -> Ref] /\ ~\E c \in Cells : Contents[c] = o
      BY <1>1, ContentsAreCells, FieldCells
    <2> QED
      BY <2>1, CountPositive
  <1>3. CountsBounded /\ FramesCounted /\ FramesNotMiscounted
    BY <1>1, <1>2 DEF CountsBounded, FramesCounted, FramesNotMiscounted
  <1> QED
    BY <1>1, <1>3, FieldCells
       DEF LeakInv, FramesAreLinks, ClosuresLinked, DeadLetGo, WaitingHeld

\* Every step keeps the invariant.
LEMMA NextLeak == IInv /\ LeakInv /\ [Next]_vars => LeakInv'
  <1> SUFFICES ASSUME IInv, LeakInv, [Next]_vars PROVE LeakInv'
    OBVIOUS
  <1>1. ASSUME NEW o \in Objs, NEW k \in Kinds, NEW with \in Ref, NEW r \in Roots,
               New(o, k, with, r)
        PROVE  LeakInv'
    BY <1>1, NewLeak
  <1>2. ASSUME NEW o \in Objs, NEW super \in Objs, SetSuper(o, super) PROVE LeakInv'
    BY <1>2, SetSuperLeak, SetSuperInv
  <1>3. ASSUME NEW o \in Objs, NEW super \in Objs, NEW n \in Names, Super(o, n, super)
        PROVE  LeakInv'
    BY <1>3, SuperLeak
  <1>4. ASSUME NEW r \in Roots, NEW s \in Roots, Dup(r, s) PROVE LeakInv'
    <2>1. Running /\ Take(cell[r], s)
      BY <1>4 DEF Dup
    <2> QED
      BY <1>4, <2>1, DupInv, TakeLeak
  <1>5. ASSUME NEW o \in Objs, NEW n \in Names, NEW r \in Roots, Load(o, n, r) PROVE LeakInv'
    <2>1. Running /\ Take(cell[<<o, n>>], r)
      BY <1>5 DEF Load
    <2> QED
      BY <1>5, <2>1, LoadInv, TakeLeak
  <1>6. ASSUME NEW o \in Objs, NEW n \in Names, NEW r \in Roots, Store(o, n, r) PROVE LeakInv'
    BY <1>6, StoreLeak
  <1>7. ASSUME NEW w \in Objs, NEW r \in Roots, LoadWeak(w, r) PROVE LeakInv'
    <2>1. Running /\ Take(target[w], r)
      BY <1>7 DEF LoadWeak
    <2> QED
      BY <1>7, <2>1, LoadWeakInv, TakeLeak
  <1>8. ASSUME NEW r \in Roots, Drop(r) PROVE LeakInv'
    BY <1>8, DropLeak
  <1>9. ASSUME NEW o \in Objs, NEW n \in Names, RemoveElem(o, n) PROVE LeakInv'
    BY <1>9, RemoveElemLeak
  <1>10. CASE Collect
    BY <1>10, CollectLeak
  <1>11. ASSUME NEW n \in Fields, Release(n) PROVE LeakInv'
    BY <1>11, ReleaseLeak
  <1>12. CASE PutBack
    BY <1>12, PutBackLeak
  <1>13. CASE Destroyed
    BY <1>13, DestroyedLeak
  <1>14. CASE EndStore
    BY <1>14, EndStoreLeak
  <1>15. CASE DropCandidate
    BY <1>15, DropCandidateLeak
  <1>16. CASE UNCHANGED vars
    <2>1. UNCHANGED <<kind, ref_count, cell, storing, miscounted, status, dying>>
      BY <1>16 DEF vars
    <2>2. \A x \in Objs : InDying(x) => InDying(x)'
      BY <2>1 DEF InDying
    <2> QED
      BY <2>1, <2>2, PassingLeak
  <1> QED
    BY <1>1, <1>2, <1>3, <1>4, <1>5, <1>6, <1>7, <1>8, <1>9, <1>10, <1>11, <1>12,
       <1>13, <1>14, <1>15, <1>16 DEF Next, Program, Cascade

\* The two invariants together hold in every reachable state.
LEMMA LeakInvariance == Spec => [](IInv /\ LeakInv)
  BY InitInv, InitLeak, NextInv, NextLeak, PTL DEF Spec

-----------------------------------------------------------------------------
(***************************************************************************)
(* Reachability.                                                           *)
(***************************************************************************)
\* What is reached is closed under the edges, and is the least such set.
LEMMA ReachedClosed ==
    ASSUME NEW Nodes, NEW edges, NEW From \in SUBSET Nodes,
           \A e \in edges : e[2] \in Nodes
    PROVE  /\ From \subseteq ReachedFrom(From, edges, Nodes)
           /\ IsClosed(ReachedFrom(From, edges, Nodes), edges)
           /\ \A S \in SUBSET Nodes : From \subseteq S /\ IsClosed(S, edges) =>
                 ReachedFrom(From, edges, Nodes) \subseteq S
  BY DEF ReachedFrom, IsClosed

\* Among finitely many nodes, each of which has an edge to it from one of them,
\* some node is on a cycle: otherwise, a node that is one edge further back would
\* always reach more.
LEMMA BackwardsForever ==
    ASSUME NEW Nodes, IsFiniteSet(Nodes), NEW edges,
           \A e \in edges : e[2] \in Nodes,
           NEW B \in SUBSET Nodes, B # {},
           \A y \in B : \E z \in B : <<z, y>> \in edges
    PROVE  \E y \in B : OnCycle(y, edges, Nodes)
  <1> DEFINE After(y) == ReachedFrom(Targets(y, edges), edges, Nodes)
             Rest == {Nodes \ After(y) : y \in B}
             less == StrictSubsetOrdering(Nodes)
  <1> SUFFICES ASSUME \A y \in B : y \notin After(y) PROVE FALSE
    BY DEF OnCycle
  <1>1. \A y \in B : Targets(y, edges) \in SUBSET Nodes
    BY DEF Targets
  <1>2. ASSUME NEW y \in B, NEW z \in B, <<z, y>> \in edges
        PROVE  y \in After(z) /\ After(y) \subseteq After(z)
    <2>1. y \in Targets(z, edges)
      BY <1>2 DEF Targets
    <2>2. y \in After(z) /\ IsClosed(After(z), edges)
      BY <1>1, <2>1, ReachedClosed
    <2>3. Targets(y, edges) \subseteq After(z) /\ After(z) \in SUBSET Nodes
      BY <2>2 DEF Targets, IsClosed, ReachedFrom
    <2> QED
      BY <1>1, <2>2, <2>3, ReachedClosed
  <1> HIDE DEF After
  <1>3. Rest \subseteq SUBSET Nodes /\ Rest # {}
    OBVIOUS
  <1>4. IsWellFoundedOn(less, SUBSET Nodes)
    BY FS_StrictSubsetOrderingWellFounded, FS_FiniteSubsetsOfFinite
  <1>5. \A S, T \in SUBSET Nodes : S \subseteq T /\ S # T => <<S, T>> \in less
    BY DEF StrictSubsetOrdering
  <1> HIDE DEF less
  <1>6. PICK S \in Rest : \A T \in Rest : ~(<<T, S>> \in less)
    <2> HIDE DEF Rest
    <2> QED
      BY <1>3, <1>4, WFMin
  <1>7. PICK y \in B : S = Nodes \ After(y)
    OBVIOUS
  <1>8. PICK z \in B : <<z, y>> \in edges
    OBVIOUS
  <1>9. Nodes \ After(z) \in Rest
    OBVIOUS
  <1>10. y \in After(z) /\ After(y) \subseteq After(z) /\ y \notin After(y) /\ y \in Nodes
    BY <1>2, <1>8
  <1>11. Nodes \ After(z) \subseteq S /\ Nodes \ After(z) # S
    BY <1>7, <1>10
  <1> QED
    BY <1>3, <1>5, <1>6, <1>9, <1>11

-----------------------------------------------------------------------------
\* Garbage that is not miscounted has garbage that refers to it.
LEMMA GarbageIsReferredTo ==
    ASSUME IInv, LeakInv, dying = <<>>, storing = NoStore,
           NEW y \in Garbage, y \notin miscounted
    PROVE  \E z \in Garbage : <<z, y>> \in Edges
  <1>1. /\ y \in Objs /\ status[y] = "live" /\ cell \in [Cells -> Ref]
        /\ y \notin ReachedFrom(HeldObjs, Edges, Objs)
    BY DEF Garbage, Live, IInv, LifeInv, TypeOK
  <1>2. Contents = cell /\ Contents \in [Cells -> Ref]
    BY <1>1, ContentsAreCells
  <1>3. /\ HeldObjs \subseteq ReachedFrom(HeldObjs, Edges, Objs)
        /\ IsClosed(ReachedFrom(HeldObjs, Edges, Objs), Edges)
    <2>1. \A e \in Edges : e[2] \in Objs
      <3>1. \A o \in Live, n \in Fields : Current(<<o, n>>) \in Ref
        BY <1>1, FieldCells DEF Current, Live
      <3> QED
        BY <3>1 DEF Edges, Ref
    <2>2. HeldObjs \in SUBSET Objs
      BY DEF HeldObjs
    <2> QED
      BY <2>1, <2>2, ReachedClosed
  <1>4. ~Held(y)
    BY <1>1, <1>3 DEF HeldObjs
  <1>5. PICK c \in Cells : cell[c] = y
    <2>1. ref_count[y] > 0 /\ ref_count[y] <= Count(Contents, y)
      BY <1>1 DEF IInv, LifeInv, LiveWhileCounted, Live, LeakInv, CountsBounded
    <2>2. Count(Contents, y) > 0
      <3>1. ref_count[y] \in Int /\ Count(Contents, y) \in Nat
        BY <1>1, <1>2, CountPositive DEF IInv, LifeInv, TypeOK
      <3> QED
        BY <2>1, <3>1
    <2> QED
      BY <1>1, <1>2, <2>2, CountPositive
  <1>6. c \notin Roots
    BY <1>1, <1>4, <1>5 DEF Held, Refers
  <1>7. PICK z \in Objs, n \in Fields : c = <<z, n>>
    BY <1>6 DEF Cells
  <1>8. status[z] = "live"
    <2>1. ~InDying(z)
      <3>1. Len(dying) = 0
        BY EmptySeq
      <3> QED
        BY <3>1 DEF InDying
    <2> QED
      BY <1>1, <1>4, <1>5, <1>7, <2>1 DEF LeakInv, DeadLetGo
  <1>9. <<z, y>> \in Edges
    <2>1. Current(<<z, n>>) = y /\ y # NULL
      BY <1>1, <1>5, <1>7, FieldCells DEF Current
    <2> QED
      BY <1>7, <1>8, <2>1 DEF Edges, Live
  <1>10. z \notin ReachedFrom(HeldObjs, Edges, Objs)
    BY <1>1, <1>3, <1>9 DEF IsClosed
  <1> QED
    BY <1>8, <1>9, <1>10 DEF Garbage, Live

(***************************************************************************)
(* Of what is out of reach, only cycles and what hangs from them is left   *)
(* when no destruction is in progress, and what hangs from an object whose *)
(* count the collector or a second `super' has put out.                    *)
(***************************************************************************)
THEOREM OnlyCyclesAreLost == Spec => []OnlyCyclesLeak
  <1>1. ASSUME IInv, LeakInv, dying = <<>>, storing = NoStore
        PROVE  Garbage \subseteq
                  ReachedFrom({x \in Garbage : OnCycle(x, Edges, Objs) \/ x \in miscounted},
                              Edges, Objs)
    <2> DEFINE O == {x \in Garbage : OnCycle(x, Edges, Objs) \/ x \in miscounted}
    <2>1. Garbage \in SUBSET Objs
      BY DEF Garbage, Live
    <2> SUFFICES ASSUME NEW x \in Garbage, NEW S \in SUBSET Objs, O \subseteq S,
                        IsClosed(S, Edges), x \notin S
                 PROVE  FALSE
      BY <2>1 DEF ReachedFrom
    <2> DEFINE B == Garbage \ S
    <2>2. ASSUME NEW y \in B PROVE \E z \in B : <<z, y>> \in Edges
      <3>1. y \notin miscounted
        OBVIOUS
      <3>2. PICK z \in Garbage : <<z, y>> \in Edges
        BY <1>1, <3>1, GarbageIsReferredTo
      <3>3. z \notin S
        BY <3>2 DEF IsClosed
      <3> QED
        BY <3>2, <3>3
    <2>3. \A e \in Edges : e[2] \in Objs
      <3>1. cell \in [Cells -> Ref]
        BY <1>1 DEF IInv, LifeInv, TypeOK
      <3>2. \A o \in Live, n \in Fields : Current(<<o, n>>) \in Ref
        BY <1>1, <3>1, FieldCells DEF Current, Live
      <3> QED
        BY <3>2 DEF Edges, Ref
    <2>4. B \in SUBSET Objs /\ B # {}
      BY <2>1
    <2> HIDE DEF B, O
    <2>5. PICK y \in B : OnCycle(y, Edges, Objs)
      BY <2>2, <2>3, <2>4, HeapAssumption, BackwardsForever
    <2> QED
      BY <2>5 DEF B, O
  <1>2. IInv /\ LeakInv => OnlyCyclesLeak
    BY <1>1 DEF OnlyCyclesLeak
  <1> QED
    BY <1>2, LeakInvariance, PTL

-----------------------------------------------------------------------------
(***************************************************************************)
(* Heap implements Memory while all counts are right.                      *)
(***************************************************************************)
Reached == ReachedFrom(HeldObjs, Edges, Objs)

\* While no count has been put out, all are exact, in every cascade.
ExactUntil == miscounted = {} => ExactNow

\* Then what the program reaches is alive.
SparedUntil == miscounted = {} => Reached \subseteq Live

WeakEdgesAlive == \A e \in WeakEdges : e[2] \in Live

MemoryInv == IInv /\ ExactUntil /\ SparedUntil /\ WeakEdgesAlive

\* The targets of an edge are what the fields of a living object hold.
TargetsOfFields ==
    \A o : Targets(o, Edges) =
        IF o \in Live THEN {Current(<<o, n>>) : n \in Fields} \ {NULL} ELSE {}

\* Both before and after a step.
LEMMA TargetsAreFields == TargetsOfFields /\ TargetsOfFields'
  <1>1. TargetsOfFields
    <2> SUFFICES ASSUME NEW o, NEW t
                 PROVE  t \in Targets(o, Edges) <=>
                           o \in Live /\ t # NULL /\ \E n \in Fields : t = Current(<<o, n>>)
      <3> SUFFICES ASSUME NEW o
                   PROVE  Targets(o, Edges) =
                             IF o \in Live THEN {Current(<<o, n>>) : n \in Fields} \ {NULL}
                             ELSE {}
        BY DEF TargetsOfFields
      <3> QED
        OBVIOUS
    <2>1. ASSUME t \in Targets(o, Edges)
          PROVE  o \in Live /\ t # NULL /\ \E n \in Fields : t = Current(<<o, n>>)
      <3>1. PICK c \in Live \X Fields :
              Current(c) # NULL /\ o = c[1] /\ t = Current(c)
        BY <2>1 DEF Targets, Edges
      <3>2. c = <<o, c[2]>> /\ c[2] \in Fields /\ o \in Live
        BY <3>1
      <3> QED
        BY <3>1, <3>2
    <2>2. ASSUME o \in Live, t # NULL, NEW n \in Fields, t = Current(<<o, n>>)
          PROVE  t \in Targets(o, Edges)
      <3>1. <<o, t>> \in Edges
        <4>1. PICK c : c = <<o, n>>
          OBVIOUS
        <4>2. c \in Live \X Fields /\ c[1] = o /\ Current(c) = t
          BY <2>2, <4>1
        <4> QED
          BY <2>2, <4>2 DEF Edges
      <3>2. <<o, t>>[1] = o /\ <<o, t>>[2] = t
        OBVIOUS
      <3> QED
        BY <3>1, <3>2 DEF Targets
    <2> QED
      BY <2>1, <2>2
  <1> QED
    BY <1>1, PTL

\* If all counts are exact, what some cell refers to is alive.
LEMMA ExactIsSound ==
    ASSUME IInv, ExactNow, miscounted = {}
    PROVE  /\ \A c \in Cells : Contents[c] # NULL => Contents[c] \in Live
           /\ Sound
  <1>1. /\ Contents \in [Cells -> Ref]
        /\ \A r \in Roots : Contents[r] = cell[r]
        /\ \A o \in Objs : Contents[<<o, "link">>] = cell[<<o, "link">>]
    BY ContentsTyped DEF IInv, LifeInv
  <1>2. ASSUME NEW c \in Cells, Contents[c] # NULL PROVE Contents[c] \in Live
    <2>1. PICK o : o = Contents[c] /\ o \in Objs
      BY <1>1, <1>2 DEF Ref
    <2>2. Count(Contents, o) > 0
      BY <1>1, <2>1, CountPositive
    <2>3. ref_count[o] = Count(Contents, o)
      BY <2>1 DEF ExactNow, Counted
    <2> QED
      BY <2>1, <2>2, <2>3 DEF IInv, LifeInv, LiveWhileCounted
  <1>3. Sound
    <2> SUFFICES ASSUME NEW o \in Objs, InHand(o) PROVE o \in Live
      BY DEF Sound, Live
    <2>1. CASE Held(o)
      BY <1>1, <1>2, <2>1, FieldCells DEF Held, Refers
    <2>2. CASE ~Held(o)
      <3>1. PICK x \in Objs : cell[<<x, "link">>] = o
        BY <2>2 DEF InHand, Captured, Refers
      <3> QED
        BY <1>1, <1>2, <3>1, FieldCells
    <2> QED
      BY <2>1, <2>2
  <1> QED
    BY <1>2, <1>3

\* A release lets go of a reference that was counted.
LEMMA ReleaseExact ==
    ASSUME IInv, ExactUntil, NEW n \in Fields, Release(n) PROVE ExactUntil'
  <1> PICK o : o = Head(dying)
    OBVIOUS
  <1> PICK c : c = <<o, n>>
    OBVIOUS
  <1>1. /\ dying # <<>> /\ cell[c] # NULL /\ cell' = [cell EXCEPT ![c] = NULL]
        /\ DecRef(ref_count, cell[c]) /\ UNCHANGED <<kind, storing, miscounted>>
    BY DEF Release, gcVars
  <1> SUFFICES ASSUME miscounted = {} PROVE Counted(ref_count', Contents', miscounted)
    BY <1>1 DEF ExactUntil, ExactNow
  <1>2. TypeOK /\ DyingAreDead /\ StoreWaits
    BY DEF IInv, LifeInv
  <1>3. o \in Objs /\ status[o] # "live"
    <2>1. dying \in Seq(Objs) /\ Len(dying) \in Nat \ {0} /\ o = dying[1]
      BY <1>1, <1>2, EmptySeq DEF TypeOK
    <2> QED
      BY <1>2, <2>1, ElementOfSeq DEF DyingAreDead
  <1>4. /\ c \in Cells /\ cell \in [Cells -> Ref] /\ cell[c] \in Objs
        /\ NULL \in Ref /\ NULL \notin Objs
        /\ cell' \in [Cells -> Ref] /\ cell'[c] = NULL
        /\ \A d \in Cells : d # c => cell'[d] = cell[d]
    BY <1>1, <1>2, <1>3, FieldCells DEF TypeOK, Ref
  <1>5. storing # NoStore => storing.cell # c
    <2>1. Sound
      BY ExactIsSound DEF ExactUntil
    <2> QED
      BY <1>2, <1>3, <2>1 DEF IInv, ExactCounts, StoreWaits, Sound
  <1>6. /\ Contents \in [Cells -> Ref] /\ Contents' \in [Cells -> Ref]
        /\ Contents[c] = cell[c] /\ Contents'[c] = NULL
        /\ \A d \in Cells : d # c => Contents'[d] = Contents[d]
    BY <1>1, <1>2, <1>4, <1>5 DEF Contents, Current, TypeOK, NoStore
  <1>7. \A x \in Objs \ miscounted :
          ref_count'[x] = ref_count[x] + (IF Contents'[c] = x THEN 1 ELSE 0)
                          - (IF Contents[c] = x THEN 1 ELSE 0)
    <2>1. /\ \A x \in Objs : ref_count[x] \in Int
          /\ \A x \in Objs : ref_count'[x] = ref_count[x] - (IF cell[c] = x THEN 1 ELSE 0)
      BY <1>1, <1>2 DEF DecRef, TypeOK
    <2> QED
      BY <1>4, <1>6, <2>1
  <1>8. Counted(ref_count, Contents, miscounted)
    BY DEF ExactUntil, ExactNow
  <1> QED
    BY <1>4, <1>6, <1>7, <1>8, CountedChange

\* A step that changes neither counts nor what the cells hold or will hold.
LEMMA PassingExact ==
    ASSUME ExactUntil, UNCHANGED <<ref_count, miscounted>>, Contents' = Contents
    PROVE  ExactUntil'
  BY DEF ExactUntil, ExactNow

\* Every step keeps the counts exact that it does not put out.
LEMMA NextExact == IInv /\ ExactUntil /\ [Next]_vars => ExactUntil'
  <1> SUFFICES ASSUME IInv, ExactUntil, [Next]_vars PROVE ExactUntil'
    OBVIOUS
  <1>1. CASE Program
    <2>1. ASSUME NEW o \in Objs, NEW k \in Kinds, NEW with \in Ref, NEW r \in Roots,
                 New(o, k, with, r)
          PROVE  ExactNow'
      BY <2>1, NewInv
    <2>2. ASSUME NEW o \in Objs, NEW super \in Objs, SetSuper(o, super) PROVE ExactNow'
      BY <2>2, SetSuperInv
    <2>3. ASSUME NEW o \in Objs, NEW super \in Objs, NEW n \in Names, Super(o, n, super)
          PROVE  ExactNow'
      BY <2>3, SuperInv
    <2>4. ASSUME NEW r \in Roots, NEW s \in Roots, Dup(r, s) PROVE ExactNow'
      BY <2>4, DupInv
    <2>5. ASSUME NEW o \in Objs, NEW n \in Names, NEW r \in Roots, Load(o, n, r) PROVE ExactNow'
      BY <2>5, LoadInv
    <2>6. ASSUME NEW o \in Objs, NEW n \in Names, NEW r \in Roots, Store(o, n, r)
          PROVE  ExactNow'
      BY <2>6, StoreInv
    <2>7. ASSUME NEW w \in Objs, NEW r \in Roots, LoadWeak(w, r) PROVE ExactNow'
      BY <2>7, LoadWeakInv
    <2>8. ASSUME NEW r \in Roots, Drop(r) PROVE ExactNow'
      BY <2>8, DropInv
    <2>9. ASSUME NEW o \in Objs, NEW n \in Names, RemoveElem(o, n) PROVE ExactNow'
      BY <2>9, RemoveElemInv
    <2>10. CASE Collect
      BY <2>10, CollectInv DEF ExactUntil
    <2> QED
      BY <1>1, <2>1, <2>2, <2>3, <2>4, <2>5, <2>6, <2>7, <2>8, <2>9, <2>10
      DEF Program, ExactUntil
  <1>2. ASSUME NEW n \in Fields, Release(n) PROVE ExactUntil'
    BY <1>2, ReleaseExact
  <1>3. CASE PutBack \/ Destroyed \/ UNCHANGED vars
    <2>1. UNCHANGED <<ref_count, cell, storing, miscounted>>
      BY <1>3 DEF PutBack, Destroyed, vars, gcVars
    <2>2. Contents' = Contents
      BY <2>1 DEF Contents, Current
    <2> QED
      BY <2>1, <2>2, PassingExact
  <1>4. CASE EndStore
    <2>1. /\ storing # NoStore /\ cell' = [cell EXCEPT ![storing.cell] = storing.val]
          /\ storing' = NoStore /\ UNCHANGED <<ref_count, miscounted>>
          /\ cell \in [Cells -> Ref]
      BY <1>4 DEF EndStore, gcVars, IInv, LifeInv, TypeOK
    <2>2. Contents' = Contents
      BY <2>1 DEF Contents, Current
    <2> QED
      BY <2>1, <2>2, PassingExact
  <1>5. CASE DropCandidate
    <2>1. gc_candidates # <<>> /\ gc_candidates \in Seq(Objs) /\ miscounted' = miscounted
      BY <1>5 DEF DropCandidate, IInv, LifeInv, TypeOK
    <2>2. Len(gc_candidates) \in Nat \ {0}
      BY <2>1, EmptySeq
    <2>3. gc_candidates[1] \in miscounted
      BY <2>2 DEF IInv, LifeInv, CandidatesNoted
    <2> QED
      BY <2>1, <2>3 DEF ExactUntil
  <1> QED
    BY <1>1, <1>2, <1>3, <1>4, <1>5 DEF Next, Cascade

\* No object is in hand at first, and no cell refers to one.
LEMMA InitExact == Init => ExactUntil
  <1> SUFFICES ASSUME Init PROVE ExactUntil
    OBVIOUS
  <1>1. \A c \in Cells : cell[c] = NULL
    BY DEF Init
  <1>2. \A o \in Objs : ~InHand(o)
    BY <1>1, FieldCells DEF InHand, Held, Captured, Refers
  <1> QED
    BY <1>2, InitInv DEF IInv, ExactCounts, Sound, ExactUntil, ExactNow

\* What is reached is alive as nothing that is dead is referred to.
LEMMA ExactSpares == IInv /\ ExactUntil => SparedUntil /\ WeakEdgesAlive
  <1> SUFFICES ASSUME IInv, ExactUntil PROVE SparedUntil /\ WeakEdgesAlive
    OBVIOUS
  <1>1. ASSUME miscounted = {} PROVE Reached \subseteq Live
    <2>1. \A c \in Cells : Contents[c] # NULL => Contents[c] \in Live
      BY <1>1, ExactIsSound DEF ExactUntil
    <2>2. HeldObjs \subseteq Live
      <3>1. \A r \in Roots : Contents[r] = cell[r]
        BY ContentsTyped DEF IInv, LifeInv
      <3> QED
        BY <2>1, <3>1, FieldCells DEF HeldObjs, Held, Refers
    <2>3. \A e \in Edges : e[2] \in Live
      BY <2>1, FieldCells DEF Edges, Contents, Live
    <2>4. Live \in SUBSET Objs
      BY DEF Live
    <2>5. \A e \in Edges : e[2] \in Objs
      BY <2>3, <2>4
    <2>6. HeldObjs \in SUBSET Objs /\ IsClosed(Live, Edges)
      BY <2>2, <2>3, <2>4 DEF IsClosed
    <2> QED
      BY <2>2, <2>4, <2>5, <2>6, ReachedClosed DEF Reached
  <1>2. WeakEdgesAlive
    <2> SUFFICES ASSUME NEW e \in WeakEdges PROVE e[2] \in Live
      BY DEF WeakEdgesAlive
    <2>1. e[1] \in Live /\ e[2] \in Objs /\ kind[e[1]] = "weak" /\ target[e[1]] = e[2]
      BY DEF WeakEdges
    <2> QED
      BY <2>1, FieldCells DEF IInv, LifeInv, WeakReferencesFollow
  <1> QED
    BY <1>1, <1>2 DEF SparedUntil

\* What the refinement relies on holds in every reachable state.
LEMMA MemoryInvariance == Spec => []MemoryInv
  <1>1. Init => IInv /\ ExactUntil
    BY InitInv, InitExact
  <1>2. IInv /\ ExactUntil /\ [Next]_vars => IInv' /\ ExactUntil'
    BY NextInv, NextExact
  <1>3. IInv /\ ExactUntil => MemoryInv
    BY ExactSpares DEF MemoryInv
  <1> QED
    BY <1>1, <1>2, <1>3, PTL DEF Spec

-----------------------------------------------------------------------------
(***************************************************************************)
(* The steps of Heap, as steps of Memory.                                  *)
(***************************************************************************)
\* The two modules mean the same by what is reached.
ReachedAgree == Abstract!Reached = Reached

\* Both before and after a step.
LEMMA SameReached == ReachedAgree /\ ReachedAgree'
  <1>1. ReachedAgree
    BY DEF ReachedAgree, Abstract!Reached, Reached, Abstract!ReachedFrom, ReachedFrom,
           Abstract!IsClosed, IsClosed
  <1> QED
    BY <1>1, PTL

\* What the program has in hand and what it can take from there is known.
LEMMA InHandIsKnown ==
    ASSUME IInv, Running
    PROVE  /\ Abstract!Known \subseteq Objs
           /\ \A o, by : Held(o) \/ Captured(o, by) \/ InHand(o) => o \in Abstract!Known
           /\ \A o, n : /\ InHand(o) /\ n \in Fields /\ cell[<<o, n>>] # NULL
                       => cell[<<o, n>>] \in Abstract!Known
           /\ \A w : Held(w) /\ kind[w] = "weak" /\ target[w] # NULL
                    => target[w] \in Abstract!Known
  <1>1. /\ cell \in [Cells -> Ref] /\ storing = NoStore
        /\ \A c \in Cells : cell[c] # NULL => cell[c] \in Objs /\ status[cell[c]] = "live"
        /\ \A o, by : Held(o) \/ Captured(o, by) => o \in Objs /\ status[o] = "live"
        /\ \A o : InHand(o) => o \in Objs /\ status[o] = "live"
    BY RunningFacts
  <1>2. \A c : Current(c) = cell[c]
    BY <1>1 DEF Current
  <1>3. \A o \in Live, n \in Fields : cell[<<o, n>>] # NULL => cell[<<o, n>>] \in Targets(o, Edges)
    BY <1>2, TargetsAreFields DEF TargetsOfFields
  <1>4. \A e \in Edges : e[2] \in Objs
    BY <1>1, <1>2, FieldCells DEF Edges, Live
  <1>5. /\ HeldObjs \subseteq Reached /\ IsClosed(Reached, Edges) /\ Reached \subseteq Objs
    <2>1. HeldObjs \in SUBSET Objs
      BY DEF HeldObjs
    <2> QED
      BY <1>4, <2>1, ReachedClosed DEF Reached, ReachedFrom
  <1>6. \A o, t : o \in Reached /\ t \in Targets(o, Edges) => t \in Reached
    BY <1>5 DEF IsClosed, Targets
  <1>7. \A o : Held(o) => o \in Reached
    BY <1>5 DEF HeldObjs, Held
  <1>8. \A o, n : o \in Reached /\ o \in Live /\ n \in Fields /\ cell[<<o, n>>] # NULL
                => cell[<<o, n>>] \in Reached
    BY <1>3, <1>6
  <1>9. \A o, by : Captured(o, by) => o \in Reached
    <2> SUFFICES ASSUME NEW o, NEW by, Captured(o, by) PROVE o \in Reached
      OBVIOUS
    <2>1. PICK x \in Objs : Held(x) /\ cell[<<x, "link">>] = o /\ o \in Objs
      BY DEF Captured, Refers
    <2> QED
      BY <1>1, <1>7, <1>8, <2>1, FieldCells DEF Live
  <1>10. \A o : InHand(o) => o \in Reached
    BY <1>7, <1>9 DEF InHand
  <1>11. Reached \subseteq Abstract!Known
    BY SameReached DEF Abstract!Known, ReachedAgree
  <1>12. ASSUME NEW w, Held(w), kind[w] = "weak", target[w] # NULL
         PROVE  target[w] \in Abstract!Known
    <2>1. w \in Reached /\ w \in Live /\ target[w] \in Objs
      BY <1>1, <1>7, <1>12 DEF Live, IInv, LifeInv, TypeOK, Ref
    <2>2. <<w, target[w]>> \in WeakEdges
      BY <1>12, <2>1 DEF WeakEdges
    <2>3. target[w] \in Abstract!Targets(w, WeakEdges)
      BY <2>2 DEF Abstract!Targets
    <2> QED
      BY <2>1, <2>3, SameReached DEF Abstract!Known, ReachedAgree
  <1>13. Abstract!Known \subseteq Objs
    <2>1. \A o : Abstract!Targets(o, WeakEdges) \subseteq Objs
      BY DEF Abstract!Targets, WeakEdges
    <2> QED
      BY <1>5, <2>1, SameReached DEF Abstract!Known, ReachedAgree
  <1> QED
    BY <1>1, <1>5, <1>7, <1>8, <1>9, <1>10, <1>11, <1>12, <1>13 DEF Live

(***************************************************************************)
(* A step that changes only objects that are known, to refer to what is    *)
(* known, is one of Memory.                                                *)
(***************************************************************************)
LEMMA MemoryStep ==
    ASSUME MemoryInv', miscounted' = {},
           NEW known, known = Abstract!Known \cup (Live' \ Live),
           HeldObjs' \subseteq known,
           \A o \in Live' :
              \/ o \in Live /\ \A n \in Fields : Current(<<o, n>>)' = Current(<<o, n>>)
              \/ o \in known /\ \A n \in Fields : Current(<<o, n>>)' \in known \cup {NULL}
    PROVE  Abstract!Next
  <1>1. (Abstract!Reached)' \subseteq Live'
    BY SameReached DEF MemoryInv, SparedUntil, ReachedAgree
  <1>2. \A e \in WeakEdges' : e[1] \in Live' => e[2] \in Live'
    BY DEF MemoryInv, WeakEdgesAlive
  <1>3. ASSUME NEW o \in Objs, o \in Live'
        PROVE  \/ Abstract!Targets(o, Edges') = Abstract!Targets(o, Edges)
               \/ o \in known /\ Abstract!Targets(o, Edges') \subseteq known
    <2>1. Abstract!Targets(o, Edges') = {Current(<<o, n>>)' : n \in Fields} \ {NULL}
      <3>1. Targets(o, Edges') = {Current(<<o, n>>)' : n \in Fields} \ {NULL}
        BY <1>3, TargetsAreFields DEF TargetsOfFields
      <3> QED
        BY <3>1 DEF Targets, Abstract!Targets
    <2>2. o \in Live => Abstract!Targets(o, Edges) = {Current(<<o, n>>) : n \in Fields} \ {NULL}
      <3>1. o \in Live => Targets(o, Edges) = {Current(<<o, n>>) : n \in Fields} \ {NULL}
        BY TargetsAreFields DEF TargetsOfFields
      <3> QED
        BY <3>1 DEF Targets, Abstract!Targets
    <2>3. CASE o \in Live /\ \A n \in Fields : Current(<<o, n>>)' = Current(<<o, n>>)
      BY <2>1, <2>2, <2>3
    <2>4. CASE o \in known /\ \A n \in Fields : Current(<<o, n>>)' \in known \cup {NULL}
      BY <2>1, <2>4
    <2> QED
      BY <1>3, <2>3, <2>4
  <1> QED
    BY <1>1, <1>2, <1>3 DEF Abstract!Next

\* A reference is taken to what is known.
LEMMA TakeMemory ==
    ASSUME IInv, MemoryInv', miscounted' = {}, Running,
           NEW o \in Abstract!Known, NEW r \in Roots, Take(o, r)
    PROVE  Abstract!Next
  <1>1. /\ cell' = [cell EXCEPT ![r] = o] /\ UNCHANGED <<status, storing>>
        /\ cell \in [Cells -> Ref] /\ storing = NoStore /\ o \in Objs
    BY RunningFacts, InHandIsKnown DEF Take
  <1>2. Live' = Live
    BY <1>1 DEF Live
  <1>3. \A x \in Objs, n \in Fields : Current(<<x, n>>)' = Current(<<x, n>>)
    BY <1>1, FieldCells DEF Current
  <1>4. HeldObjs' \subseteq Abstract!Known
    <2>1. \A s \in Roots : cell'[s] = IF s = r THEN o ELSE cell[s]
      BY <1>1, FieldCells
    <2> QED
      BY <1>1, <2>1, InHandIsKnown DEF HeldObjs, Held, Refers
  <1> QED
    BY <1>2, <1>3, <1>4, MemoryStep DEF Live

\* What is held and what the fields of the living refer to stays, or goes.
LEMMA ReleasingMemory ==
    ASSUME IInv, MemoryInv', miscounted' = {}, Live' \subseteq Live,
           HeldObjs' \subseteq HeldObjs,
           \A o \in Live', n \in Fields : Current(<<o, n>>)' = Current(<<o, n>>)
    PROVE  Abstract!Next
  <1>1. HeldObjs \subseteq Abstract!Known
    <2>1. HeldObjs \subseteq Reached
      BY DEF HeldObjs, Reached, ReachedFrom
    <2> QED
      BY <2>1, SameReached DEF Abstract!Known, ReachedAgree
  <1> QED
    BY <1>1, MemoryStep

\* A decrement destroys one object at most.
LEMMA DecRefLive ==
    ASSUME TypeOK, NEW counts, NEW o \in Objs, DecRef(counts, o) PROVE Live' \subseteq Live
  <1>1. status' = status \/ status' = [status EXCEPT ![o] = "dying"]
    BY DEF DecRef, Destroy
  <1> QED
    BY <1>1 DEF Live, TypeOK

\* A field of a known object is set to what is known.
LEMMA SetFieldMemory ==
    ASSUME IInv, MemoryInv', miscounted' = {}, Running,
           NEW o, NEW n \in Names, NEW val \in Abstract!Known \cup {NULL},
           NEW counts, NEW cells \in [Cells -> Ref],
           InHand(o), SetField(o, n, val, counts, cells),
           \A r \in Roots : cells[r] \in {cell[r], NULL},
           \A x \in Objs, m \in Fields :
              \/ cells[<<x, m>>] = cell[<<x, m>>]
              \/ x = o /\ cells[<<x, m>>] \in Abstract!Known
    PROVE  Abstract!Next
  <1> DEFINE c == <<o, n>>
             old == cell[c]
             waits == old # NULL /\ LastReference(counts, old)
  <1>1. /\ old = NULL => UNCHANGED status
        /\ old # NULL => DecRef(counts, old)
        /\ cell' = IF waits THEN cells ELSE [cells EXCEPT ![c] = val]
        /\ storing' = IF waits THEN [cell |-> c, val |-> val] ELSE NoStore
    BY DEF SetField
  <1>2. /\ o \in Objs /\ o \in Abstract!Known /\ c \in Cells /\ c \notin Roots /\ c # NULL /\ old \in Ref
        /\ n \in Fields /\ storing = NoStore
    BY FieldCells, RunningFacts, InHandIsKnown
  <1>3. Live' \subseteq Live
    <2>1. CASE old = NULL
      BY <1>1, <2>1 DEF Live
    <2>2. CASE old # NULL
      BY <1>1, <1>2, <2>2, DecRefLive DEF Ref, IInv, LifeInv
    <2> QED
      BY <2>1, <2>2
  <1>4. \A d \in Cells : Current(d)' = IF d = c THEN val ELSE cells[d]
    <2>1. CASE waits
      BY <1>1, <1>2, <2>1 DEF Current, NoStore
    <2>2. CASE ~waits
      BY <1>1, <1>2, <2>2 DEF Current
    <2> QED
      BY <2>1, <2>2
  <1>5. \A r \in Roots : cell'[r] = cells[r]
    BY <1>1, <1>2, FieldCells
  <1> HIDE DEF c, old, waits
  <1>6. HeldObjs' \subseteq Abstract!Known
    BY <1>5, FieldCells, InHandIsKnown DEF HeldObjs, Held, Refers
  <1>7. \A d : Current(d) = cell[d]
    BY <1>2 DEF Current
  <1>8. ASSUME NEW x \in Live'
        PROVE  \/ x \in Live /\ \A m \in Fields : Current(<<x, m>>)' = Current(<<x, m>>)
               \/ /\ x \in Abstract!Known
                  /\ \A m \in Fields : Current(<<x, m>>)' \in Abstract!Known \cup {NULL}
    <2>1. x \in Objs /\ x \in Live
      BY <1>3, <1>8 DEF Live
    <2>2. CASE x # o
      <3>1. \A m \in Fields : <<x, m>> \in Cells /\ <<x, m>> # c
        BY <2>1, <2>2, FieldCells DEF c
      <3> QED
        BY <1>4, <1>7, <2>1, <2>2, <3>1
    <2>3. CASE x = o
      <3> SUFFICES ASSUME NEW m \in Fields
                   PROVE  Current(<<o, m>>)' \in Abstract!Known \cup {NULL}
        BY <1>2, <2>3
      <3>1. <<o, m>> \in Cells
        BY <1>2, FieldCells
      <3>2. CASE <<o, m>> = c
        BY <1>4, <3>1, <3>2
      <3>3. CASE <<o, m>> # c
        <4>1. cell[<<o, m>>] \in Abstract!Known \cup {NULL}
          BY InHandIsKnown
        <4> QED
          BY <1>2, <1>4, <3>1, <3>3, <4>1
      <3> QED
        BY <3>2, <3>3
    <2> QED
      BY <2>2, <2>3
  <1> QED
    BY <1>3, <1>6, <1>8, MemoryStep

\* New makes an object that refers to what is known, and is held.
LEMMA NewMemory ==
    ASSUME IInv, MemoryInv', miscounted' = {},
           NEW o \in Objs, NEW k \in Kinds, NEW with \in Ref, NEW r \in Roots,
           New(o, k, with, r)
    PROVE  Abstract!Next
  <1> DEFINE known == Abstract!Known \cup (Live' \ Live)
  <1>1. PICK link : link = IF k = "weak" THEN NULL ELSE with
    OBVIOUS
  <1>2. /\ Running /\ CanLink(k, with) /\ status[o] = "free" /\ storing' = storing
        /\ cell' = [cell EXCEPT ![r] = o, ![<<o, "link">>] = link]
        /\ status' = [status EXCEPT ![o] = "live"]
        /\ cell \in [Cells -> Ref] /\ storing = NoStore
    BY <1>1, RunningFacts DEF New
  <1>3. Live' = Live \cup {o} /\ o \notin Live /\ o \in known
    BY <1>2 DEF Live, IInv, LifeInv, TypeOK
  <1>4. link \in known \cup {NULL}
    BY <1>1, <1>2, InHandIsKnown DEF CanLink
  <1>5. /\ \A s \in Roots : cell'[s] = IF s = r THEN o ELSE cell[s]
        /\ \A x \in Objs, n \in Fields :
              cell'[<<x, n>>] = IF x = o /\ n = "link" THEN link ELSE cell[<<x, n>>]
    BY <1>2, FieldCells
  <1>6. HeldObjs' \subseteq known
    <2>1. \A x \in Objs : Held(x)' => x = o \/ Held(x)
      BY <1>5, FieldCells DEF Held, Refers
    <2> QED
      BY <1>2, <1>3, <2>1, InHandIsKnown DEF HeldObjs
  <1>7. \A d : Current(d) = cell[d] /\ Current(d)' = cell'[d]
    BY <1>2 DEF Current
  <1>8. \A n \in Fields : cell[<<o, n>>] = NULL
    BY <1>2, RunningFacts
  <1>9. ASSUME NEW x \in Live'
        PROVE  \/ x \in Live /\ \A n \in Fields : Current(<<x, n>>)' = Current(<<x, n>>)
               \/ x \in known /\ \A n \in Fields : Current(<<x, n>>)' \in known \cup {NULL}
    <2>1. CASE x = o
      BY <1>3, <1>4, <1>5, <1>7, <1>8, <2>1
    <2>2. CASE x # o
      BY <1>3, <1>5, <1>7, <2>2 DEF Live
    <2> QED
      BY <2>1, <2>2
  <1> QED
    BY <1>6, <1>9, MemoryStep

\* The program goes on with what it knows.
LEMMA ProgramMemory == MemoryInv /\ MemoryInv' /\ miscounted' = {} /\ Program => Abstract!Next
  <1> SUFFICES ASSUME IInv, MemoryInv', miscounted' = {}, Program PROVE Abstract!Next
    BY DEF MemoryInv
  <1>1. ASSUME NEW o \in Objs, NEW k \in Kinds, NEW with \in Ref, NEW r \in Roots,
               New(o, k, with, r)
        PROVE  Abstract!Next
    BY <1>1, NewMemory
  <1>2. ASSUME NEW o \in Objs, NEW super \in Objs, SetSuper(o, super) PROVE Abstract!Next
    <2>1. /\ Running /\ Held(o) /\ Held(super) /\ UNCHANGED <<status, storing>>
          /\ cell' = [cell EXCEPT ![<<o, "link">>] = super]
          /\ cell \in [Cells -> Ref] /\ storing = NoStore
      BY <1>2, RunningFacts DEF SetSuper
    <2>2. Live' = Live
      BY <2>1 DEF Live
    <2>3. o \in Abstract!Known /\ super \in Abstract!Known
      BY <2>1, InHandIsKnown
    <2>4. HeldObjs' \subseteq Abstract!Known
      <3>1. \A s \in Roots : cell'[s] = cell[s]
        BY <2>1, FieldCells
      <3> QED
        BY <2>1, <3>1, InHandIsKnown DEF HeldObjs, Held, Refers
    <2>5. \A x \in Objs, n \in Fields :
            Current(<<x, n>>)' = IF x = o /\ n = "link" THEN super ELSE Current(<<x, n>>)
      BY <2>1, FieldCells DEF Current
    <2>6. \A n \in Fields : Current(<<o, n>>) \in Abstract!Known \cup {NULL}
      <3>1. \A n \in Fields : Current(<<o, n>>) = cell[<<o, n>>]
        BY <2>1 DEF Current
      <3> QED
        BY <2>1, <3>1, InHandIsKnown DEF InHand
    <2>7. ASSUME NEW x \in Live'
          PROVE  \/ x \in Live /\ \A n \in Fields : Current(<<x, n>>)' = Current(<<x, n>>)
                 \/ /\ x \in Abstract!Known
                    /\ \A n \in Fields : Current(<<x, n>>)' \in Abstract!Known \cup {NULL}
      <3>1. x \in Live /\ x \in Objs
        BY <2>2 DEF Live
      <3> QED
        BY <2>3, <2>5, <2>6, <3>1
    <2> QED
      BY <2>2, <2>4, <2>7, MemoryStep
  <1>3. ASSUME NEW o \in Objs, NEW super \in Objs, NEW n \in Names, Super(o, n, super)
        PROVE  Abstract!Next
    <2>1. PICK cells : cells = [cell EXCEPT ![<<o, "link">>] = super]
      OBVIOUS
    <2>2. /\ Running /\ Held(o) /\ Held(super) /\ cell \in [Cells -> Ref]
          /\ SetField(o, n, super, CountsForStore(o, Inc(ref_count, super), super), cells)
      BY <1>3, <2>1, RunningFacts DEF Super
    <2>3. InHand(o) /\ super \in Abstract!Known \cup {NULL}
      BY <2>2, InHandIsKnown DEF InHand
    <2>4. /\ cells \in [Cells -> Ref]
          /\ \A s \in Roots : cells[s] \in {cell[s], NULL}
          /\ \A x \in Objs, m \in Fields :
                \/ cells[<<x, m>>] = cell[<<x, m>>]
                \/ x = o /\ cells[<<x, m>>] \in Abstract!Known
      BY <2>1, <2>2, <2>3, FieldCells
    <2> QED
      BY <2>2, <2>3, <2>4, SetFieldMemory
  <1>4. ASSUME NEW r \in Roots, NEW s \in Roots, Dup(r, s) PROVE Abstract!Next
    <2>1. Running /\ Held(cell[r]) /\ Take(cell[r], s)
      BY <1>4, RunningFacts, FieldCells DEF Dup, Held, Refers
    <2> QED
      BY <2>1, InHandIsKnown, TakeMemory
  <1>5. ASSUME NEW o \in Objs, NEW n \in Names, NEW r \in Roots, Load(o, n, r)
        PROVE  Abstract!Next
    <2>1. Running /\ InHand(o) /\ cell[<<o, n>>] # NULL /\ Take(cell[<<o, n>>], r)
      BY <1>5 DEF Load
    <2> QED
      BY <2>1, InHandIsKnown, TakeMemory, FieldCells
  <1>6. ASSUME NEW o \in Objs, NEW n \in Names, NEW r \in Roots, Store(o, n, r)
        PROVE  Abstract!Next
    <2>1. PICK cells : cells = IF kind[o] = "frame" THEN [cell EXCEPT ![r] = NULL] ELSE cell
      OBVIOUS
    <2>2. /\ Running /\ InHand(o) /\ Held(cell[r]) /\ cell \in [Cells -> Ref]
          /\ SetField(o, n, cell[r], CountsForStore(o, ref_count, cell[r]), cells)
      BY <1>6, <2>1, RunningFacts, FieldCells DEF Store, Held, Refers
    <2>3. cell[r] \in Abstract!Known \cup {NULL}
      BY <2>2, InHandIsKnown
    <2>4. /\ cells \in [Cells -> Ref]
          /\ \A s \in Roots : cells[s] \in {cell[s], NULL}
          /\ \A x \in Objs, m \in Fields : cells[<<x, m>>] = cell[<<x, m>>]
      BY <2>1, <2>2, FieldCells
    <2> QED
      BY <2>2, <2>3, <2>4, SetFieldMemory
  <1>7. ASSUME NEW w \in Objs, NEW r \in Roots, LoadWeak(w, r) PROVE Abstract!Next
    BY <1>7, InHandIsKnown, TakeMemory DEF LoadWeak
  <1>8. ASSUME NEW r \in Roots, Drop(r) PROVE Abstract!Next
    <2>1. /\ Running /\ cell[r] # NULL /\ DecRef(ref_count, cell[r])
          /\ cell' = [cell EXCEPT ![r] = NULL] /\ storing' = storing
          /\ cell \in [Cells -> Ref] /\ cell[r] \in Objs
      BY <1>8, RunningFacts, FieldCells DEF Drop
    <2>2. Live' \subseteq Live
      BY <2>1, DecRefLive DEF IInv, LifeInv
    <2>3. HeldObjs' \subseteq HeldObjs
      <3>1. \A s \in Roots : cell'[s] \in {cell[s], NULL}
        BY <2>1, FieldCells
      <3> QED
        BY <3>1, FieldCells DEF HeldObjs, Held, Refers
    <2>4. \A x \in Objs, n \in Fields : Current(<<x, n>>)' = Current(<<x, n>>)
      BY <2>1, FieldCells DEF Current
    <2> QED
      BY <2>2, <2>3, <2>4, ReleasingMemory DEF Live
  <1>9. ASSUME NEW o \in Objs, NEW n \in Names, RemoveElem(o, n) PROVE Abstract!Next
    <2>1. /\ Running /\ InHand(o) /\ cell \in [Cells -> Ref]
          /\ SetField(o, n, NULL, ref_count, cell)
      BY <1>9, RunningFacts DEF RemoveElem, InHand
    <2> QED
      BY <2>1, SetFieldMemory
  <1>10. CASE Collect
    <2>1. UNCHANGED <<status, cell, storing>>
      BY <1>10 DEF Collect
    <2> QED
      BY <2>1, ReleasingMemory DEF Live, HeldObjs, Held, Refers, Current
  <1> QED
    BY <1>1, <1>2, <1>3, <1>4, <1>5, <1>6, <1>7, <1>8, <1>9, <1>10 DEF Program

\* A destruction changes only objects that are gone.
LEMMA CascadeMemory == MemoryInv /\ MemoryInv' /\ miscounted' = {} /\ Cascade => Abstract!Next
  <1> SUFFICES ASSUME IInv, ExactUntil, MemoryInv', miscounted' = {}, Cascade PROVE Abstract!Next
    BY DEF MemoryInv
  <1>1. ASSUME NEW n \in Fields, Release(n) PROVE Abstract!Next
    <2>1. PICK c : c = <<Head(dying), n>>
      OBVIOUS
    <2>2. /\ dying # <<>> /\ cell' = [cell EXCEPT ![c] = NULL] /\ cell[c] # NULL
          /\ DecRef(ref_count, cell[c]) /\ UNCHANGED <<storing, miscounted>>
      BY <1>1, <2>1 DEF Release, gcVars
    <2>3. TypeOK
      BY DEF IInv, LifeInv
    <2>4. Head(dying) \in Objs /\ Head(dying) \notin Live
      <3>1. dying \in Seq(Objs) /\ Len(dying) \in Nat \ {0} /\ Head(dying) = dying[1]
        BY <2>2, <2>3, EmptySeq DEF TypeOK
      <3> QED
        BY <3>1, ElementOfSeq DEF IInv, LifeInv, DyingAreDead, Live
    <2>5. c \notin Roots /\ c \in Cells /\ cell[c] \in Objs
      BY <2>1, <2>2, <2>3, <2>4, FieldCells DEF TypeOK, Ref
    <2>6. Live' \subseteq Live
      BY <2>2, <2>3, <2>5, DecRefLive
    <2>7. HeldObjs' \subseteq HeldObjs
      BY <2>2, <2>3, <2>5, FieldCells DEF HeldObjs, Held, Refers, TypeOK
    <2>8. \A x \in Live', m \in Fields : Current(<<x, m>>)' = Current(<<x, m>>)
      <3> SUFFICES ASSUME NEW x \in Live', NEW m \in Fields
                   PROVE  Current(<<x, m>>)' = Current(<<x, m>>)
        OBVIOUS
      <3>1. x \in Live /\ x \in Objs
        BY <2>6 DEF Live
      <3>2. <<x, m>> # c /\ <<x, m>> \in Cells
        BY <2>1, <2>4, <3>1, FieldCells
      <3> QED
        BY <2>2, <2>3, <3>2 DEF Current, TypeOK
    <2> QED
      BY <2>6, <2>7, <2>8, ReleasingMemory
  <1>2. CASE PutBack
    <2>1. /\ UNCHANGED <<cell, storing>>
          /\ status' = [status EXCEPT ![Head(dying)] = "free"]
      BY <1>2 DEF PutBack
    <2>2. Live' \subseteq Live
      BY <2>1 DEF Live, IInv, LifeInv, TypeOK
    <2> QED
      BY <2>1, <2>2, ReleasingMemory DEF HeldObjs, Held, Refers, Current
  <1>3. CASE Destroyed
    <2>1. UNCHANGED <<status, cell, storing>>
      BY <1>3 DEF Destroyed
    <2> QED
      BY <2>1, ReleasingMemory DEF Live, HeldObjs, Held, Refers, Current
  <1>4. CASE EndStore
    <2>1. /\ storing # NoStore /\ cell' = [cell EXCEPT ![storing.cell] = storing.val]
          /\ storing' = NoStore /\ UNCHANGED status
          /\ cell \in [Cells -> Ref] /\ storing.cell \in Objs \X Names
      BY <1>4 DEF EndStore, IInv, LifeInv, TypeOK, StoreWaits
    <2>2. \A c \in Cells : Current(c)' = Current(c)
      BY <2>1 DEF Current
    <2>3. \A r \in Roots : cell'[r] = cell[r]
      BY <2>1, FieldCells
    <2>4. Live' = Live /\ HeldObjs' = HeldObjs
      BY <2>1, <2>3 DEF Live, HeldObjs, Held, Refers
    <2> QED
      BY <2>2, <2>4, FieldCells, ReleasingMemory DEF Live
  <1>5. CASE DropCandidate
    <2>1. gc_candidates # <<>> /\ gc_candidates \in Seq(Objs) /\ miscounted' = miscounted
      BY <1>5 DEF DropCandidate, IInv, LifeInv, TypeOK
    <2>2. Len(gc_candidates) \in Nat \ {0}
      BY <2>1, EmptySeq
    <2>3. gc_candidates[1] \in miscounted
      BY <2>2 DEF IInv, LifeInv, CandidatesNoted
    <2> QED
      BY <2>1, <2>3
  <1> QED
    BY <1>1, <1>2, <1>3, <1>4, <1>5 DEF Cascade

(***************************************************************************)
(* Reference counting implements a memory from which nothing disappears    *)
(* that the program can still reach, and whose weak references never refer *)
(* to what is gone, as long as no count has been put out.                  *)
(***************************************************************************)
THEOREM ImplementsMemory == Spec => RefinesMemory
  <1>1. Init => Abstract!Init
    <2> SUFFICES ASSUME Init PROVE Abstract!Init
      OBVIOUS
    <2>1. \A c \in Cells : cell[c] = NULL
      BY DEF Init
    <2>2. Live = {}
      BY DEF Init, Live
    <2>3. HeldObjs = {}
      BY <2>1, FieldCells DEF HeldObjs, Held, Refers
    <2> QED
      BY <2>2, <2>3 DEF Abstract!Init, Edges, WeakEdges
  <1>2. MemoryInv /\ MemoryInv' /\ [Next]_vars
        => [miscounted' = {} => Abstract!Next \/ UNCHANGED Abstract!vars]_vars
    BY ProgramMemory, CascadeMemory DEF Next
  <1> QED
    BY <1>1, <1>2, MemoryInvariance, PTL DEF Spec, RefinesMemory

=============================================================================
