-------------------------------- MODULE Heap --------------------------------
(***************************************************************************)
(* Reference counts, weak references, the destruction of objects and the   *)
(* cycle collector (object.h, object.c, weakref.c), together with what     *)
(* shares their rules: the stack frames that closures capture (vm.h).      *)
(*                                                                         *)
(* Every place that owns a reference is a cell.  The cells of the program  *)
(* itself are Roots: entries of value stacks, vm->top, the variables of C  *)
(* code.  The cells of an object are its fields: the entries of its        *)
(* dictionary, the elements of a list, the fast_cells of a frame; `link'   *)
(* is the super object of an instance, or the frame that a frame or a      *)
(* closure has captured.                                                   *)
(*                                                                         *)
(* GaObj_Destroy runs no code of the program, but it is not atomic here:   *)
(* releasing the fields of one object destroys others in the middle of it. *)
(***************************************************************************)
EXTENDS Integers, Sequences, SequencesExt, FiniteSets, Reachability

CONSTANTS
    Objs,       \* the blocks that objects and frames are made in
    NULL,       \* no object; as the value of a weak reference, _GaNull
    Roots,      \* the cells of the program
    Names,      \* the fields of an object besides `link'
    Kinds,      \* the kinds of object the program makes
    MaxMiscounted   \* a bound: the collector runs as long as no more
                    \* objects than these have a count that it has put out

AllKinds ==
    {"instance",    \* an object made by a class: attributes, a super object
     "list",        \* whatever holds references and is not traversed
     "weak",        \* a WeakRef, also the one by which a method is bound
     "closure",     \* a function with a captured frame
     "frame"}       \* a stack frame, counted like an object

ASSUME HeapAssumption ==
    /\ NULL \notin Objs \cup (Objs \X (Names \cup {"link"}))
    /\ IsFiniteSet(Objs) /\ IsFiniteSet(Roots) /\ IsFiniteSet(Names)
    /\ "link" \notin Names
    /\ Roots \cap (Objs \X (Names \cup {"link"})) = {}
    /\ Kinds \subseteq AllKinds
    /\ MaxMiscounted \in Nat

VARIABLES
    status,         \* "free", "live", or "dying" while GaObj_Destroy runs
    kind,           \* what an object is
    ref_count,      \* ref_count of objects and frames
    cell,           \* what each cell refers to
    target,         \* un.statep of a weak reference
    weak_refs,      \* the weak references registered with an object
    dying,          \* the calls of GaObj_Destroy in progress, innermost first
    storing,        \* a store that waits for the value it replaces to be gone
    gc_candidates,  \* what the collector has still to drop a reference to
    miscounted      \* the objects whose count the collector or `super' has put out

weakVars == <<target, weak_refs>>
gcVars == <<gc_candidates, miscounted>>
vars == <<status, kind, ref_count, cell, target, weak_refs, dying, storing,
          gc_candidates, miscounted>>

Fields == Names \cup {"link"}
Cells == Roots \cup (Objs \X Fields)
Ref == Objs \cup {NULL}

Live == {o \in Objs : status[o] = "live"}
HasNames(o) == status[o] = "live" /\ kind[o] \in {"instance", "list", "frame"}

\* No store waits: storing.cell is the cell, storing.val its next value.
NoStore == [cell |-> NULL, val |-> NULL]

Init ==
    /\ status = [o \in Objs |-> "free"]
    /\ kind = [o \in Objs |-> "list"]
    /\ ref_count = [o \in Objs |-> 0]
    /\ cell = [c \in Cells |-> NULL]
    /\ target = [o \in Objs |-> NULL]
    /\ weak_refs = [o \in Objs |-> {}]
    /\ dying = <<>>
    /\ storing = NoStore
    /\ gc_candidates = <<>>
    /\ miscounted = {}

-----------------------------------------------------------------------------
(***************************************************************************)
(* Counting.                                                               *)
(***************************************************************************)
Inc(counts, o) == [counts EXCEPT ![o] = @ + 1]

\* Mutant: GaFrame_NEW and GaClosure_New do not count the frame they capture.
IncForgotten(counts, o) == counts

IncIfAny(counts, o) == IF o = NULL THEN counts ELSE Inc(counts, o)

(***************************************************************************)
(* GaObj_Destroy begins: weak references to the object become null, and a  *)
(* weak reference that dies itself leaves the list it is registered in.    *)
(***************************************************************************)
\* Mutant: a WeakRef that dies stays in the list of the object it refers to.
RegistrationsKept(o) == [weak_refs EXCEPT ![o] = {}]

Registrations(o) ==
    [x \in Objs |->
        IF x = o THEN {}
        ELSE IF kind[o] = "weak" /\ target[o] = x THEN weak_refs[x] \ {o}
        ELSE weak_refs[x]]

Destroy(o) ==
    /\ status' = [status EXCEPT ![o] = "dying"]
    /\ dying' = <<o>> \o dying
    /\ target' = [w \in Objs |-> IF w \in weak_refs[o] THEN NULL ELSE target[w]]
    /\ weak_refs' = Registrations(o)

\* Mutant: an object whose count is already below one is destroyed again.
LastReferenceOrLess(counts, o) == counts[o] <= 1

\* Mutant: the count is tested before it is decremented.
LastReferenceLate(counts, o) == counts[o] = 0

\* GaObj_DEC_REF destroys o when its count, here before the decrement, was one.
LastReference(counts, o) == counts[o] = 1

DecRef(counts, o) ==
    /\ ref_count' = [counts EXCEPT ![o] = @ - 1]
    /\ IF LastReference(counts, o)
       THEN Destroy(o)
       ELSE UNCHANGED <<status, dying, target, weak_refs>>

-----------------------------------------------------------------------------
(***************************************************************************)
(* What the program does.  It runs when no destruction is in progress, and *)
(* the model stops when it could come upon an object that is gone.         *)
(***************************************************************************)
Refers(c, o) == cell[c] = o

Owned(c) == c \notin Roots => status[c[1]] = "live"

Intact ==
    \A c \in Cells : cell[c] # NULL => status[cell[c]] = "live" /\ Owned(c)

Running ==
    /\ dying = <<>> /\ storing = NoStore /\ gc_candidates = <<>>
    /\ Intact

Held(o) == o \in Objs /\ \E r \in Roots : Refers(r, o)

\* A frame that a function or a frame in hand has captured.
Captured(o, by) ==
    o \in Objs /\ \E x \in Objs : kind[x] = by /\ Held(x) /\ Refers(<<x, "link">>, o)

\* Objects in hand, and the frame the running function was made in.
InHand(o) == Held(o) \/ Captured(o, "frame")

(***************************************************************************)
(* GaObj_NewEx, GaFrame_NEW, GaClosure_New and GaWeakRef_New.  `with' is   *)
(* what the object is linked with.                                         *)
(***************************************************************************)
CanLink(k, with) ==
    \/ k \in {"list", "instance", "frame"} /\ with = NULL
    \/ k = "weak" /\ Held(with) /\ kind[with] # "frame"
    \/ k \in {"closure", "frame"} /\ Held(with) /\ kind[with] = "frame"
    \/ k = "frame" /\ Captured(with, "closure")

New(o, k, with, r) ==
    /\ status[o] = "free" /\ cell[r] = NULL /\ CanLink(k, with)
    /\ Running
    /\ LET link == IF k = "weak" THEN NULL ELSE with
       IN  /\ cell' = [cell EXCEPT ![r] = o, ![<<o, "link">>] = link]
           /\ ref_count' = IncIfAny([ref_count EXCEPT ![o] = 1], link)
    /\ status' = [status EXCEPT ![o] = "live"]
    /\ kind' = [kind EXCEPT ![o] = k]
    /\ target' = [target EXCEPT ![o] = IF k = "weak" THEN with ELSE NULL]
    /\ weak_refs' = [x \in Objs |->
                        IF x = o THEN {}
                        ELSE IF k = "weak" /\ x = with THEN weak_refs[x] \cup {o}
                        ELSE weak_refs[x]]
    /\ miscounted' = miscounted \ {o}
    /\ UNCHANGED <<dying, storing, gc_candidates>>

\* class_invoke: an object whose constructor has not called `super' gets the
\* object of its base class.
SetSuper(o, super) ==
    /\ kind[o] = "instance" /\ Held(o)
    /\ Held(super) /\ kind[super] # "frame"
    /\ cell[<<o, "link">>] = NULL
    /\ Running
    /\ ref_count' = Inc(ref_count, super)
    /\ cell' = [cell EXCEPT ![<<o, "link">>] = super]
    /\ UNCHANGED <<status, kind, weakVars, dying, storing, gcVars>>

\* A reference is taken into an empty cell of the program.
Take(o, r) ==
    /\ cell[r] = NULL
    /\ cell' = [cell EXCEPT ![r] = o]
    /\ ref_count' = Inc(ref_count, o)
    /\ UNCHANGED <<status, kind, weakVars, dying, storing, gcVars>>

\* DUP, LOAD_FAST, LOAD_ATTRIBUTE, LOAD_INDEX.
Dup(r, s) ==
    /\ cell[r] # NULL /\ kind[cell[r]] # "frame"
    /\ Running
    /\ Take(cell[r], s)

Load(o, n, r) ==
    /\ HasNames(o) /\ InHand(o) /\ cell[<<o, n>>] # NULL
    /\ Running
    /\ Take(cell[<<o, n>>], r)

\* The attribute `value' of a WeakRef, and the receiver of a bound method.
LoadWeak(w, r) ==
    /\ kind[w] = "weak" /\ target[w] # NULL /\ Held(w)
    /\ Running
    /\ Take(target[w], r)

(***************************************************************************)
(* GaObj_SETATTR, list_setindex and STORE_FAST: the value that is replaced *)
(* loses its reference, and is destroyed if it was the last, before the    *)
(* cell changes.  STORE_FAST moves the reference of the value stack, the   *)
(* others add one.                                                         *)
(***************************************************************************)
\* Mutant: an attribute does not count as a reference to its value.
CountsForStoreNone(o, counts, val) == counts

\* Mutant: STORE_FAST counts the reference that it moves.
CountsForStoreTwice(o, counts, val) == Inc(counts, val)

CountsForStore(o, counts, val) ==
    IF kind[o] = "frame" THEN counts ELSE Inc(counts, val)

\* The field n of o becomes val; counts and cells are those just before.
SetField(o, n, val, counts, cells) ==
    LET old == cell[<<o, n>>]
        waits == old # NULL /\ LastReference(counts, old)
    IN  /\ IF old = NULL
           THEN /\ ref_count' = counts
                /\ UNCHANGED <<status, dying, weakVars>>
           ELSE DecRef(counts, old)
        /\ cell' = IF waits THEN cells ELSE [cells EXCEPT ![<<o, n>>] = val]
        /\ storing' = IF waits THEN [cell |-> <<o, n>>, val |-> val] ELSE NoStore

Store(o, n, r) ==
    LET val == cell[r]
        taken == IF kind[o] = "frame" THEN [cell EXCEPT ![r] = NULL] ELSE cell
    IN  /\ val # NULL /\ kind[val] # "frame"
        /\ HasNames(o) /\ InHand(o)
        /\ Running
        /\ SetField(o, n, val, CountsForStore(o, ref_count, val), taken)
        /\ UNCHANGED <<kind, gcVars>>

(***************************************************************************)
(* The builtin `super': the object of the base class is linked and stored  *)
(* as an attribute.  Nothing drops the link that was there before, when    *)
(* `super' is called twice (here only while all counts are right: they     *)
(* could grow for ever).                                                   *)
(***************************************************************************)
Super(o, n, super) ==
    LET before == cell[<<o, "link">>]
    IN  /\ kind[o] = "instance" /\ Held(o)
        /\ Held(super) /\ kind[super] # "frame"
        /\ before # NULL => miscounted = {}
        /\ Running
        /\ SetField(o, n, super, CountsForStore(o, Inc(ref_count, super), super),
                    [cell EXCEPT ![<<o, "link">>] = super])
        /\ miscounted' = miscounted \cup ({before} \ {NULL})
        /\ UNCHANGED <<kind, gc_candidates>>

EndStore ==
    /\ storing # NoStore /\ dying = <<>>
    /\ cell' = [cell EXCEPT ![storing.cell] = storing.val]
    /\ storing' = NoStore
    /\ UNCHANGED <<status, kind, ref_count, weakVars, dying, gcVars>>

\* GaList_Remove: the element goes, then its cell.
RemoveElem(o, n) ==
    /\ kind[o] = "list" /\ Held(o)
    /\ cell[<<o, n>>] # NULL
    /\ Running
    /\ SetField(o, n, NULL, ref_count, cell)
    /\ UNCHANGED <<kind, gcVars>>

\* A cell of the program lets go: POP, operands, the locals of C code.
Drop(r) ==
    /\ cell[r] # NULL
    /\ Running
    /\ cell' = [cell EXCEPT ![r] = NULL]
    /\ DecRef(ref_count, cell[r])
    /\ UNCHANGED <<kind, storing, gcVars>>

-----------------------------------------------------------------------------
(***************************************************************************)
(* GaObj_Destroy and GaFrame_DESTROY after Destroy(o): the innermost       *)
(* destruction drops the fields one by one, puts the block back, then      *)
(* drops the link and returns.  A closure drops its frame before.          *)
(***************************************************************************)
BeforePut(o) == IF kind[o] = "closure" THEN Fields ELSE Names

Release(n) ==
    LET o == Head(dying)
    IN  /\ dying # <<>>
        /\ status[o] = "free" \/ n \in BeforePut(o)
        /\ cell[<<o, n>>] # NULL
        /\ cell' = [cell EXCEPT ![<<o, n>>] = NULL]
        /\ DecRef(ref_count, cell[<<o, n>>])
        /\ UNCHANGED <<kind, storing, gcVars>>

PutBack ==
    LET o == Head(dying)
    IN  /\ dying # <<>> /\ status[o] = "dying"
        /\ \A n \in BeforePut(o) : cell[<<o, n>>] = NULL
        /\ status' = [status EXCEPT ![o] = "free"]
        /\ UNCHANGED <<kind, ref_count, cell, weakVars, dying, storing, gcVars>>

Destroyed ==
    LET o == Head(dying)
    IN  /\ dying # <<>> /\ status[o] = "free"
        /\ \A n \in Fields : cell[<<o, n>>] = NULL
        /\ dying' = Tail(dying)
        /\ UNCHANGED <<status, kind, ref_count, cell, weakVars, storing, gcVars>>

-----------------------------------------------------------------------------
(***************************************************************************)
(* GaObj_CollectGarbage.  gc_cb goes down every path of objects that can   *)
(* be traversed, starting at every object of the pool, and notes the ones  *)
(* it meets again on the path it is on: those on a cycle.  gc_ref_count is *)
(* then two, so that an object with more references is passed over.  The   *)
(* order of the candidates is that of the dictionaries: any.               *)
(***************************************************************************)
FieldsOf(o) == {cell[<<o, n>>] : n \in Names} \ {NULL}

\* class_transverse and func_transverse: what gc_cb is called on.
Transversed(o) ==
    CASE kind[o] = "instance" -> FieldsOf(o)
      [] kind[o] = "closure"  -> FieldsOf(cell[<<o, "link">>])
      [] OTHER                -> {}

Paths == UNION {{<<o, x>> : x \in Transversed(o)} : o \in Live}

Candidates ==
    {o \in Live : OnCycle(o, Paths, Objs) /\ ref_count[o] <= 2}

Collect ==
    /\ Running
    /\ Candidates # {} /\ Cardinality(miscounted) <= MaxMiscounted
    /\ gc_candidates' \in SetToSeqs(Candidates)
    /\ miscounted' = miscounted \cup Candidates
    /\ UNCHANGED <<status, kind, ref_count, cell, weakVars, dying, storing>>

\* One reference less for each candidate, also for one that is gone by then.
DropCandidate ==
    /\ gc_candidates # <<>> /\ dying = <<>>
    /\ gc_candidates' = Tail(gc_candidates)
    /\ DecRef(ref_count, Head(gc_candidates))
    /\ UNCHANGED <<kind, cell, storing, miscounted>>

Program ==
    \/ \E o \in Objs, k \in Kinds, with \in Ref, r \in Roots : New(o, k, with, r)
    \/ \E o, super \in Objs :
          SetSuper(o, super) \/ \E n \in Names : Super(o, n, super)
    \/ \E r, s \in Roots : Dup(r, s)
    \/ \E o \in Objs, n \in Names, r \in Roots : Load(o, n, r) \/ Store(o, n, r)
    \/ \E w \in Objs, r \in Roots : LoadWeak(w, r)
    \/ \E r \in Roots : Drop(r)
    \/ \E o \in Objs, n \in Names : RemoveElem(o, n)
    \/ Collect

Cascade ==
    \/ \E n \in Fields : Release(n)
    \/ PutBack
    \/ Destroyed
    \/ EndStore
    \/ DropCandidate

Next == Program \/ Cascade

Spec == Init /\ [][Next]_vars

-----------------------------------------------------------------------------
(***************************************************************************)
(* Types.  The calls of GaObj_Destroy in progress are for different        *)
(* objects.                                                                *)
(***************************************************************************)
TypeOK ==
    /\ status \in [Objs -> {"free", "live", "dying"}]
    /\ kind \in [Objs -> AllKinds]
    /\ ref_count \in [Objs -> Int]
    /\ cell \in [Cells -> Ref]
    /\ target \in [Objs -> Ref]
    /\ weak_refs \in [Objs -> SUBSET Objs]
    /\ dying \in Seq(Objs)
    /\ \A i, j \in 1..Len(dying) : dying[i] = dying[j] => i = j
    /\ storing \in {NoStore} \cup [cell : Cells, val : Ref]
    /\ gc_candidates \in Seq(Objs)
    /\ miscounted \subseteq Objs

\* What a cell will hold once a store that waits has ended.
Current(c) == IF storing # NoStore /\ c = storing.cell THEN storing.val ELSE cell[c]

Edges ==
    LET fields == {c \in Live \X Fields : Current(c) # NULL}
    IN  {<<c[1], Current(c)>> : c \in fields}

HeldObjs == {o \in Objs : Held(o)}

(***************************************************************************)
(* "List of objects that may be removed by the garbage collector"          *)
(* (object.c): no object that the program reaches is destroyed.            *)
(***************************************************************************)
CollectorSparesReachable == ReachedFrom(HeldObjs, Edges, Objs) \subseteq Live

(***************************************************************************)
(* The count of an object is the number of cells that refer to it, at      *)
(* every step of every cascade of destructions (GaObj_INC_REF, DEC_REF),   *)
(* unless the collector has taken one from it or destroyed an object in    *)
(* use, or it was a super object that was replaced.  A store that waits    *)
(* has counted its new value already and the old one no more.              *)
(***************************************************************************)
References(o) == {c \in Cells : Current(c) = o}

CountsMatchReferences ==
    CollectorSparesReachable =>
        \A o \in Objs \ miscounted : ref_count[o] = Cardinality(References(o))

(***************************************************************************)
(* An object is destroyed when its count becomes zero and only then, and   *)
(* once: a candidate that has gone with an earlier one of the same         *)
(* collection is not destroyed again (object.c, GaObj_CollectGarbage).     *)
(***************************************************************************)
LiveWhileCounted == \A o \in Objs : o \in Live <=> ref_count[o] > 0

(***************************************************************************)
(* A weak reference that refers to an object is registered with it, and    *)
(* only those are: none outlives its object, and no object writes into a   *)
(* weak reference that is gone (GaObj_Destroy, weakref_destroy).           *)
(***************************************************************************)
WeakReferencesFollow ==
    /\ \A w \in Live : kind[w] = "weak" /\ target[w] # NULL =>
          target[w] \in Live /\ w \in weak_refs[target[w]]
    /\ \A o \in Live : \A w \in weak_refs[o] :
          w \in Live /\ kind[w] = "weak" /\ target[w] = o

(***************************************************************************)
(* When no destruction is in progress, only cycles keep what the program   *)
(* has lost: every object out of reach is reached from a cycle of such, or *)
(* from a super object that was replaced.                                  *)
(***************************************************************************)
Garbage == Live \ ReachedFrom(HeldObjs, Edges, Objs)

OnlyCyclesLeak ==
    dying = <<>> /\ storing = NoStore =>
        LET garbage == Garbage
            origins == {x \in garbage : OnCycle(x, Edges, Objs) \/ x \in miscounted}
        IN  garbage \subseteq ReachedFrom(origins, Edges, Objs)

(***************************************************************************)
(* The counts implement a memory that keeps what the program can reach, as *)
(* long as the collector has found no candidate and all counts are right.  *)
(***************************************************************************)
WeakEdges ==
    {e \in Live \X Objs : kind[e[1]] = "weak" /\ target[e[1]] = e[2]}

Abstract == INSTANCE Memory
    WITH alive <- Live, held <- HeldObjs, edges <- Edges, weak <- WeakEdges

RefinesMemory ==
    /\ Abstract!Init
    /\ [][miscounted' = {} => Abstract!Next \/ UNCHANGED Abstract!vars]_vars

=============================================================================
