---------------------------- MODULE ParserShapes ----------------------------
(***************************************************************************)
(* What the parsing functions hold, instruction by instruction.            *)
(*                                                                         *)
(* The code of the parser is fixed, so the places where a call may be and  *)
(* the shapes of the values it holds there are a finite table.  A point of *)
(* it says in which mode the parser is, whether the call waits for one it  *)
(* has made, what is left of its function, the shapes of what it holds,    *)
(* and what it returns: a node or something plain.                         *)
(*                                                                         *)
(* The modes: "none" where there are no tokens, "unread" before the first  *)
(* is read, "read" after it, and "failed" once something has gone wrong.   *)
(*                                                                         *)
(* The shapes: "plain" is anything but nodes, "null" is NULL or no nodes,  *)
(* "some" is one node, "nodes" is a list of them, "maybe" is one or NULL.  *)
(* "fresh" is one node, of a tree that was made by the call that has just  *)
(* returned and that nothing else holds; "dead" is one that was destroyed. *)
(***************************************************************************)
EXTENDS Parser

Modes == {"none", "unread", "read", "failed"}
Shapes == {"plain", "null", "nodes", "some", "fresh", "maybe", "dead"}
ListShapes == {"null", "nodes", "some", "fresh", "maybe"}
NodeShapes == {"some", "fresh"}

Point(mode, waits, rest, shapes, gives) ==
    [mode |-> mode, waits |-> waits, rest |-> rest, shapes |-> shapes, gives |-> gives]

GivesBack(fn) == IF fn = "module path" THEN "plain" ELSE "node"
Reading(mode) == IF mode = "unread" THEN "read" ELSE mode
Settled(shapes) == [i \in DOMAIN shapes |-> IF shapes[i] = "fresh" THEN "some" ELSE shapes[i]]

\* What kind of token may be next.
MayBeIn(mode, kinds) ==
    CASE mode = "none" -> "eof" \in kinds
      [] mode = "unread" -> kinds \ {"eof"} # {}
      [] OTHER -> TRUE
MayBeOutside(mode, kinds) == mode = "none" => "eof" \notin kinds

Entry(mode) == Point(mode, FALSE, ParseAll, <<>>, "node")

-----------------------------------------------------------------------------
(***************************************************************************)
(* The points that come after one.                                         *)
(***************************************************************************)
Goes(p, rest, shapes) == Point(p.mode, FALSE, rest, shapes, p.gives)
Past(p, shapes) == Goes(p, Tail(p.rest), shapes)
InMode(mode, p) == Point(mode, p.waits, p.rest, p.shapes, p.gives)
HasRead(p) == InMode(Reading(p.mode), p)
Holds(p, shape) == Past(p, Append(Settled(p.shapes), shape))
FirstShapes(p, k) == SubSeq(Settled(p.shapes), 1, Len(p.shapes) - k)
LastShapes(p, k) == SubSeq(Settled(p.shapes), Len(p.shapes) - k + 1, Len(p.shapes))

AfterTake(p) == {HasRead(Past(p, p.shapes))}
AfterTakeValue(p) == {HasRead(Holds(p, "plain"))}
AfterTakeComponent(p) == {HasRead(Past(p, Append(FirstShapes(p, 1), "plain")))}
AfterTakeInteger(p) == {HasRead(Holds(p, "plain")), HasRead(Goes(p, Error({}), Settled(p.shapes)))}
AfterPut(p) == {Holds(p, "plain")}
AfterPutNodes(p) == {Holds(p, IF Head(p.rest).list = Null THEN "null" ELSE "some")}
AfterCopy(p) == {Holds(p, Settled(p.shapes)[Head(p.rest).at])}
AfterMove(p) == {Past(p, [FirstShapes(p, 1) EXCEPT ![Head(p.rest).at] = Settled(p.shapes)[Len(p.shapes)]])}
AfterPush(p) == {Past(p, [FirstShapes(p, 1) EXCEPT ![Head(p.rest).at] = "nodes"])}
AfterForget(p) == {Past(p, RemoveAt(Settled(p.shapes), Head(p.rest).at))}

\* A choice leaves what is held alone.
Through(p, code) == {Goes(p, code \o Tail(p.rest), p.shapes)}
Where(condition, points) == IF condition THEN points ELSE {}
AfterCase(p) ==
    LET cases == Head(p.rest).cases
    IN  UNION {Where(MayBeIn(p.mode, {k}), Through(p, cases[k])) : k \in DOMAIN cases}
AfterOtherwise(p) ==
    LET now == Head(p.rest)
    IN  Where(MayBeOutside(p.mode, DOMAIN now.cases), Through(p, now.otherwise))
AfterSwitch(p) == AfterCase(p) \cup AfterOtherwise(p)
AfterTest(p) == Through(p, Head(p.rest).yes) \cup Through(p, Head(p.rest).no)
AfterNull(p) ==
    LET now == Head(p.rest)
        shape == p.shapes[now.at]
    IN  Where(shape \notin NodeShapes, Through(p, now.yes)) \cup Where(shape # "null", Through(p, now.no))
AfterLoop(p) ==
    LET now == Head(p.rest)
    IN  Where(MayBeIn(p.mode, now.kinds), {Goes(p, now.body \o p.rest, p.shapes)})
          \cup Where(MayBeOutside(p.mode, now.kinds), {Past(p, p.shapes)})
AfterUntil(p) ==
    LET now == Head(p.rest)
    IN  Where(MayBeIn(p.mode, now.kinds), {Past(p, p.shapes)})
          \cup Where(MayBeOutside(p.mode, now.kinds), {Goes(p, now.body \o p.rest, p.shapes)})
AfterItems(p) ==
    LET now == Head(p.rest)
    IN  Where(MayBeIn(p.mode, now.stop), {Past(p, p.shapes)})
          \cup Where(MayBeOutside(p.mode, now.stop), Through(p, now.body \o <<Once({","}, <<Take, now>>)>>))

\* A call, and the one that waits for it; a call that takes the place of one.
Called(p) ==
    LET now == Head(p.rest)
    IN  Point(p.mode, FALSE, Function[now.fn], LastShapes(p, now.args), GivesBack(now.fn))
Waiting(p) == Point(p.mode, TRUE, p.rest, FirstShapes(p, Head(p.rest).args), p.gives)
AfterCall(p) == {Called(p), Waiting(p)}
AfterReturn(p) == {Called(p)}

AfterNode(p) == {Past(p, Append(FirstShapes(p, Len(Head(p.rest).fields)), "some"))}
AfterUnwrap(p) == {Past(p, Settled(p.shapes))}
AfterDestroy(p) ==
    {Past(p, IF p.mode = "failed" THEN Settled(p.shapes)
           ELSE [i \in DOMAIN p.shapes |-> IF i \in Head(p.rest).frees THEN "dead" ELSE p.shapes[i]])}
AfterComplain(p) == {InMode("failed", Past(p, Settled(p.shapes)))}

\* A call that waits: the mode may change, and then it gets a result, or
\* goes on with what it does about NULL.
ResultShape(p) ==
    LET now == Head(p.rest)
    IN  IF GivesBack(now.fn) = "plain" THEN "plain"
        ELSE IF p.mode = "failed" THEN "maybe"
        ELSE IF now.args = 0 THEN "fresh" ELSE "some"
Resumed(p) == Past(p, Append(p.shapes, ResultShape(p)))
Checked(p) == Goes(p, Head(p.rest).check \o Tail(p.rest), p.shapes)
AfterWaiting(p) ==
    {Resumed(p)} \cup Where(p.mode = "failed" /\ Head(p.rest).check # <<>>, {Checked(p)})
      \cup Where(p.mode = "unread", {InMode("read", p)})
      \cup Where(p.mode = "read", {InMode("failed", p)})

PointsAfter(p) ==
    LET do == Head(p.rest).do
    IN  IF p.waits THEN AfterWaiting(p)
        ELSE CASE do = "take"           -> AfterTake(p)
               [] do \in {"take name", "take op", "take macro"} -> AfterTakeValue(p)
               [] do = "take component" -> AfterTakeComponent(p)
               [] do = "take integer"   -> AfterTakeInteger(p)
               [] do \in {"put", "put flag"} -> AfterPut(p)
               [] do = "put nodes"      -> AfterPutNodes(p)
               [] do = "copy"           -> AfterCopy(p)
               [] do = "move"           -> AfterMove(p)
               [] do \in {"push", "unshift"} -> AfterPush(p)
               [] do = "forget"         -> AfterForget(p)
               [] do = "switch"         -> AfterSwitch(p)
               [] do \in {"second", "held"} -> AfterTest(p)
               [] do = "null"           -> AfterNull(p)
               [] do = "loop"           -> AfterLoop(p)
               [] do = "until"          -> AfterUntil(p)
               [] do = "items"          -> AfterItems(p)
               [] do = "call"           -> AfterCall(p)
               [] do = "return"         -> AfterReturn(p)
               [] do = "node"           -> AfterNode(p)
               [] do = "unwrap"         -> AfterUnwrap(p)
               [] do = "destroy"        -> AfterDestroy(p)
               [] do = "complain"       -> AfterComplain(p)
               [] OTHER                 -> {}

\* The table, one more instruction at a time.
Length == 200
Table ==
    LET explored[n \in 0 .. Length] ==
            IF n = 0 THEN [seen |-> {Entry("none"), Entry("unread")}, last |-> {Entry("none"), Entry("unread")}]
            ELSE LET known == explored[n - 1]
                     new == UNION {PointsAfter(p) : p \in known.last} \ known.seen
                 IN  [seen |-> known.seen \cup new, last |-> new]
    IN  explored[Length].seen

-----------------------------------------------------------------------------
(***************************************************************************)
(* What an instruction expects to find at a point.                         *)
(***************************************************************************)
\* A result: one node, unless something has failed.
Returns(p, shape) == p.gives = "plain" \/ shape \in NodeShapes \/ (p.mode = "failed" /\ shape \in {"maybe", "null"})
FieldShape(p, i) == p.shapes[Len(p.shapes) - Len(Head(p.rest).fields) + i]

FitsTakeComponent(p) == p.shapes # <<>> /\ p.shapes[Len(p.shapes)] = "plain"
FitsMove(p) == Head(p.rest).at \in 1 .. Len(p.shapes) - 1
FitsPush(p) == FitsMove(p) /\ p.shapes[Head(p.rest).at] \in ListShapes /\ p.shapes[Len(p.shapes)] \in ListShapes
FitsForget(p) == Head(p.rest).at \in 1 .. Len(p.shapes)
FitsNull(p) == FitsForget(p) /\ p.shapes[Head(p.rest).at] \in ListShapes
FitsPutNodes(p) == Head(p.rest).list \in {Null, Empty}
FitsCall(p) == Head(p.rest).fn \in DOMAIN Function /\ Head(p.rest).args \in 0 .. Len(p.shapes)
FitsReturn(p) == FitsCall(p) /\ GivesBack(Head(p.rest).fn) = p.gives
FitsWaiting(p) ==
    LET now == Head(p.rest)
    IN  /\ now.do = "call" /\ now.fn \in DOMAIN Function
        /\ \A i \in DOMAIN p.shapes : p.shapes[i] \notin {"fresh", "dead"}
        /\ GivesBack(now.fn) = "plain" => now.check = <<>>

\* A node has the fields that are walked and followed, each with nodes in it.
FitsNode(p) ==
    LET now == Head(p.rest)
        k == Len(now.fields)
    IN  /\ now.fields \in Seq(STRING) /\ k <= Len(p.shapes) /\ now.type # "empty" /\ "t" \notin ToSet(now.fields)
        /\ \A i, j \in 1 .. k : now.fields[i] = now.fields[j] => i = j
        /\ WalkedFields(now.type) \cup Required(now.type) \subseteq ToSet(now.fields) \ Plain
        /\ \A i \in 1 .. k :
              /\ now.fields[i] \notin Plain => FieldShape(p, i) \in ListShapes
              /\ now.fields[i] \in Required(now.type) /\ p.mode # "failed" => FieldShape(p, i) \in NodeShapes

FitsQuit(p) == p.shapes # <<>> /\ Returns(p, p.shapes[Len(p.shapes)])
FitsAnswer(p) ==
    /\ p.shapes # <<>> /\ p.gives = "node" /\ Returns(p, p.shapes[1])
    /\ p.shapes[Len(p.shapes)] = "null" \/ Returns(p, p.shapes[Len(p.shapes)])
FitsUnwrap(p) == p.shapes # <<>> /\ p.gives = "node" /\ p.shapes[Len(p.shapes)] \in ListShapes
FitsFree(p) == \A i \in Head(p.rest).frees : i \in 1 .. Len(p.shapes) /\ p.shapes[i] \in ListShapes
\* While all is well what is destroyed has just been made.
FitsDestroy(p) ==
    /\ FitsFree(p)
    /\ p.mode # "failed" => \A i \in 1 .. Len(p.shapes) : p.shapes[i] = "fresh" <=> i \in Head(p.rest).frees
FitsFail(p) == FitsFree(p) /\ p.mode = "failed" /\ p.gives = "node"
FitsGiveUp(p) == FitsFree(p) /\ p.mode \in {"read", "failed"} /\ p.gives = "node"
FitsComplain(p) == p.mode \in {"read", "failed"}

Fits(p) ==
    LET do == Head(p.rest).do
    IN  /\ p.rest # <<>> /\ p.mode \in Modes /\ p.waits \in BOOLEAN /\ p.shapes \in Seq(Shapes)
        /\ p.waits => FitsWaiting(p)
        /\ ~p.waits => /\ do \notin {"take", "forget"} => \A i \in DOMAIN p.shapes : p.shapes[i] # "dead"
                       /\ do = "take component" => FitsTakeComponent(p)
                       /\ do = "take macro" => p.mode \in {"read", "failed"}
                       /\ do = "move" => FitsMove(p)
                       /\ do \in {"push", "unshift"} => FitsPush(p)
                       /\ do \in {"copy", "forget", "held"} => FitsForget(p)
                       /\ do = "null" => FitsNull(p)
                       /\ do = "put nodes" => FitsPutNodes(p)
                       /\ do = "call" => FitsCall(p)
                       /\ do = "return" => FitsReturn(p)
                       /\ do = "node" => FitsNode(p)
                       /\ do = "quit" => FitsQuit(p)
                       /\ do = "answer" => FitsAnswer(p)
                       /\ do = "unwrap" => FitsUnwrap(p)
                       /\ do = "destroy" => FitsDestroy(p)
                       /\ do = "fail" => FitsFail(p)
                       /\ do = "give up" => FitsGiveUp(p)
                       /\ do = "complain" => FitsComplain(p)

\* The table holds for the code of the parser: from where it begins, each
\* instruction finds what it expects, and leads to points of the table.
CodeFits ==
    /\ Entry("none") \in Table /\ Entry("unread") \in Table
    /\ \A p \in Table : Fits(p) /\ PointsAfter(p) \subseteq Table

-----------------------------------------------------------------------------
(***************************************************************************)
(* The calls in progress and the points where they are.                    *)
(***************************************************************************)
Broken == error # 0 \/ quiet
Mode ==
    IF Broken THEN "failed"
    ELSE IF tokens = <<>> THEN "none"
    ELSE IF next = 0 THEN "unread" ELSE "read"

=============================================================================
