------------------------------ MODULE Iteration ------------------------------
(***************************************************************************)
(* Iteration: the loops that ask an iterator for its next element and for  *)
(* the current one, and what they iterate over.                            *)
(*                                                                         *)
(* The drivers are the for statement (ITER_NEXT and ITER_CUR of vm.c), the *)
(* unpacking of an argument (INVOKE_AND_UNPACK), map, filter and count of  *)
(* builtins/enumerable.c and String.join.  The sources are lists, which    *)
(* the code that is called may change meanwhile, ranges, whose iterator    *)
(* takes the position -1 for not having begun, and objects with a          *)
(* __next__ and a __cur__ of their own, each of which may raise.  The      *)
(* answer of a __next__ that raised is the C NULL, which counts as true.   *)
(***************************************************************************)
EXTENDS Integers, Sequences, SequencesExt

CONSTANTS
    Drivers,    \* among "for", "unpack", "map", "filter", "count", "join"
    Sources,    \* among "list", "range", "class"
    CellVals,   \* elements of lists
    Ranges,     \* ranges: records of start, end, stride
    Width,      \* the bits of an integer: 64 in the code
    MaxCells,   \* elements of a list
    MaxVisits   \* elements met, after which the model does not look further; not
                \* more than the 16 arguments a call has room for

VARIABLES
    driver, source, range,
    cells,      \* the elements of the list
    pos,        \* list_iter_state.index, range_iter_state.pos, or the number of
                \* elements an object has given
    pc,         \* "next", "cur", "body", "done"
    cur,        \* the current element
    visited,    \* ghost: the elements the body, or the callback, has seen
    kept,       \* what map, filter, join and unpack have gathered: elements of
                \* the source by their place in visited
    thrown,     \* an exception is pending
    outcome,    \* "none" yet; "value"; "NULL"; "crash"
    strayed     \* ghost: __next__ raised in a C loop, the list lost or replaced
                \* an element

iterationVars == <<driver, source, range, cells, pos, pc, cur, visited, kept,
                   thrown, outcome, strayed>>

Ints == (0 - 2^(Width - 1))..(2^(Width - 1) - 1)

\* An integer has a sign; the length of a list is an integer.  What is said of
\* the powers is arithmetic, and true of every width.
ASSUME IterationAssumption ==
    /\ Width \in Nat \ {0}
    /\ 2^(Width - 1) \in Nat \ {0} /\ 2^Width = 2 * 2^(Width - 1)
    /\ Sources \subseteq {"list", "range", "class"}
    /\ Ranges # {} /\ Ranges \subseteq [start : Ints, end : Ints, stride : Ints]
    /\ MaxCells \in Nat /\ MaxCells \in Ints
    /\ MaxVisits \in Nat

\* Types of the state; what has been gathered was visited.
IterationTypeOK ==
    /\ driver \in Drivers /\ source \in Sources /\ range \in Ranges
    /\ cells \in BoundedSeq(CellVals, MaxCells)
    /\ pos \in Ints
    /\ pc \in {"next", "cur", "body", "done"}
    /\ Len(visited) <= MaxVisits
    /\ ToSet(kept) \subseteq DOMAIN visited
    /\ outcome \in {"none", "value", "NULL", "crash"}
    /\ (outcome = "none") = (pc # "done")
    /\ strayed \subseteq {"next raised", "lost", "replaced"}

\* The iterator has just been made: GET_ITER, list_iter_new, range_iter_new.
IterationInit ==
    /\ driver \in Drivers
    /\ source \in Sources
    /\ range \in IF source = "range" THEN Ranges ELSE {CHOOSE r \in Ranges : TRUE}
    /\ cells \in IF source = "list" THEN BoundedSeq(CellVals, MaxCells) ELSE {<<>>}
    /\ pos = IF source = "class" THEN 0 ELSE -1
    /\ pc = "next"
    /\ cur = <<>> /\ visited = <<>> /\ kept = <<>>
    /\ thrown = FALSE /\ outcome = "none" /\ strayed = {}

-----------------------------------------------------------------------------
setup == <<driver, source, range>>

\* The drivers that are loops in C: they do not look whether an exception is
\* pending.
InC == driver # "for"

Wrapped(n) == ((n + 2^(Width - 1)) % 2^Width) - 2^(Width - 1)

Ends(result) == pc' = "done" /\ outcome' = result

\* The loop is over: a value, which an exception that is pending makes useless.
Answers(more) ==
    IF more THEN pc' = "cur" /\ UNCHANGED outcome ELSE Ends("value")

\* list_iter_next, tuple_iter_next: the index of the next element.
ListPosition == pos + 1

ListAnswers ==
    /\ source = "list"
    /\ pos' = ListPosition
    /\ Answers(pos' < Len(cells))
    /\ UNCHANGED <<thrown, strayed>>

\* Mutant: the first element of a range is skipped.
RangePositionSkips == Wrapped((IF pos = -1 THEN range.start ELSE pos) + range.stride)

\* Mutant: an iterator that has begun stays where it is.
RangePositionStays == IF pos = -1 THEN range.start ELSE pos

\* Mutant: the position is not kept within an integer.
RangePositionWide == IF pos = -1 THEN range.start ELSE pos + range.stride

\* range_iter_next: the sum wraps, as it does in what the compiler makes of it.
RangePosition == IF pos = -1 THEN range.start ELSE Wrapped(pos + range.stride)

RangeAnswers ==
    /\ source = "range"
    /\ pos' = RangePosition
    /\ Answers(pos' < range.end)
    /\ UNCHANGED <<thrown, strayed>>

\* GaObj_ITER_NEXT calls __next__, which answers.
ClassAnswers ==
    /\ source = "class"
    /\ \E more \in BOOLEAN :
        /\ more => pos < MaxCells
        /\ pos' = IF more THEN pos + 1 ELSE pos
        /\ Answers(more)
    /\ UNCHANGED <<thrown, strayed>>

\* __next__ raises.  The for statement is left; a loop in C takes the NULL it
\* gets for true and goes on to the current element.
NextRaises ==
    /\ source = "class"
    /\ thrown' = TRUE
    /\ IF InC
       THEN pc' = "cur" /\ strayed' = strayed \cup {"next raised"} /\ UNCHANGED outcome
       ELSE Ends("NULL") /\ UNCHANGED strayed
    /\ UNCHANGED pos

AskNext ==
    /\ pc = "next"
    /\ ListAnswers \/ RangeAnswers \/ ClassAnswers \/ NextRaises
    /\ UNCHANGED <<setup, cells, cur, visited, kept>>

Current ==
    CASE source = "list" -> cells[pos + 1]
      [] OTHER -> pos

\* GaObj_ITER_CUR gives the element, and the body or the callback begins.
AskCur ==
    /\ pc = "cur"
    /\ Len(visited) < MaxVisits
    /\ cur' = <<Current>>
    /\ visited' = Append(visited, Current)
    /\ pc' = "body"
    /\ UNCHANGED <<setup, cells, pos, kept, thrown, outcome, strayed>>

\* __cur__ raises.  map, filter and count count a reference to the NULL.
CurRaises ==
    /\ pc = "cur" /\ source = "class"
    /\ thrown' = TRUE
    /\ Ends(IF driver \in {"map", "filter", "count"} THEN "crash" ELSE "NULL")
    /\ UNCHANGED <<setup, cells, pos, cur, visited, kept, strayed>>

\* What is gathered of an element: the result of the callback (map), the
\* element if the callback says so (filter), its text (join), itself (unpack).
Gathers ==
    IF driver \in {"map", "join", "unpack"} THEN {Append(kept, Len(visited))}
    ELSE IF driver = "filter" THEN {kept, Append(kept, Len(visited))}
    ELSE {kept}

\* The body, or the callback, is over.
BodyEnds ==
    /\ pc = "body"
    /\ kept' \in Gathers
    /\ pc' = "next"
    /\ UNCHANGED <<setup, cells, pos, cur, visited, thrown, outcome, strayed>>

\* A callback that raises ends a loop in C, except that join counts a
\* reference to the text it did not get.
AfterRaise == Ends(IF driver = "join" THEN "crash" ELSE "NULL")

\* The code that is called raises; unpacking and counting call none.
BodyRaises ==
    /\ pc = "body" /\ driver \notin {"unpack", "count"}
    /\ thrown' = TRUE
    /\ AfterRaise
    /\ UNCHANGED <<setup, cells, pos, cur, visited, kept, strayed>>

\* A break, return or continue that leaves the body of a for statement.
Break ==
    /\ pc = "body" /\ driver = "for"
    /\ Ends("value")
    /\ UNCHANGED <<setup, cells, pos, cur, visited, kept, thrown, strayed>>

\* The code that is called changes the list it was called for.
ChangesList(new) ==
    /\ pc = "body" /\ source = "list" /\ driver \notin {"unpack", "count"}
    /\ cells' = new
    /\ UNCHANGED <<setup, pos, pc, cur, visited, kept, thrown, outcome>>

\* GaList_Append
AppendsCell(v) ==
    /\ Len(cells) < MaxCells
    /\ ChangesList(Append(cells, v))
    /\ UNCHANGED strayed

\* GaList_Remove: the elements after the first one that is equal move up.
RemovesCell(v) ==
    /\ v \in ToSet(cells)
    /\ ChangesList(RemoveAt(cells, CHOOSE i \in DOMAIN cells :
                        cells[i] = v /\ \A j \in 1..(i - 1) : cells[j] # v))
    /\ strayed' = strayed \cup {"lost"}

\* list_setindex
ReplacesCell(i, v) ==
    /\ ChangesList([cells EXCEPT ![i] = v])
    /\ strayed' = strayed \cup {"replaced"}

IterationNext ==
    \/ AskNext \/ AskCur \/ CurRaises
    \/ BodyEnds \/ BodyRaises \/ Break
    \/ \E v \in CellVals : AppendsCell(v) \/ RemovesCell(v)
    \/ \E v \in CellVals : \E i \in DOMAIN cells : ReplacesCell(i, v)

\* One thread runs the loop, and the code it calls comes to an end, after
\* finitely many changes of the list: whatever is called returns or raises.
Returns == AskNext \/ AskCur \/ CurRaises \/ BodyEnds \/ BodyRaises \/ Break

IterationSpecification == IterationInit /\ [][IterationNext]_iterationVars

-----------------------------------------------------------------------------
(***************************************************************************)
(* What a source holds, in order.  A range does if its stride is positive, *)
(* no element is -1, and the last position is an integer.                  *)
(***************************************************************************)
RangeElements ==
    LET size == IF range.start >= range.end THEN 0
                ELSE (range.end - range.start - 1) \div range.stride + 1
    IN  [i \in 1..size |-> range.start + (i - 1) * range.stride]

PlainRange ==
    \/ range.start >= range.end
    \/ /\ range.stride > 0
       /\ -1 \notin ToSet(RangeElements)
       /\ range.start + Len(RangeElements) * range.stride \in Ints

Orderly ==
    /\ source = "range" => PlainRange
    /\ strayed = {}

Elements ==
    CASE source = "list" -> cells
      [] source = "range" -> RangeElements
      [] OTHER -> [i \in 1..pos |-> i]

(***************************************************************************)
(* Each element is visited once and in order, those that are appended      *)
(* meanwhile too, and a loop that is over without an exception, unless by  *)
(* a break, has missed none; the results are those of the elements.        *)
(***************************************************************************)
VisitsInOrder ==
    Orderly =>
        /\ IsPrefix(visited, Elements)
        /\ pc = "done" /\ ~thrown /\ driver # "for" => visited = Elements
        /\ \A i, j \in DOMAIN kept : i < j => kept[i] < kept[j]
        /\ pc = "done" /\ ~thrown /\ driver \in {"map", "join", "unpack"} =>
            kept = [i \in DOMAIN Elements |-> i]

=============================================================================
