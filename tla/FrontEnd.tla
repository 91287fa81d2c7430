----------------------------- MODULE FrontEnd ------------------------------
(***************************************************************************)
(* The front end: GaParser_ParseString, the lexer and then the parser.     *)
(*                                                                         *)
(* A source is a text with the tokens it is made of, what the C library    *)
(* has left in errno, and, where sound holds, the tree it is written from. *)
(***************************************************************************)
EXTENDS ParserShapes

CONSTANT Sources

ASSUME SourcesAssumption == \A s \in Sources : Len(s.text) \in Nat /\ s.errno \in BOOLEAN

VARIABLE source

frontEnd == <<source, text, lexer, parser>>

Init ==
    /\ source \in Sources
    /\ InitLexer(source.text)
    /\ InitParser /\ errno = source.errno

Lex == NextToken /\ UNCHANGED <<source, parser>>

StartParser ==
    /\ scanning = "done" /\ parsing = "no"
    /\ stack' = <<[rest |-> ParseAll, held |-> <<>>]>>
    /\ parsing' = "on"
    /\ UNCHANGED <<source, text, lexer, next, errno, error, quiet, nodes, freed, root>>

\* The error of the lexer is the one of the parser.
RejectText ==
    /\ scanning = "error" /\ parsing = "no"
    /\ error' = Len(tokens) + 1
    /\ parsing' = "done"
    /\ UNCHANGED <<source, text, lexer, next, errno, quiet, stack, nodes, freed, root>>

Parse == NextStep /\ UNCHANGED <<source, text, lexer>>

Next == Lex \/ StartParser \/ RejectText \/ Parse

Spec == Init /\ [][Next]_frontEnd /\ WF_frontEnd(Next)

-----------------------------------------------------------------------------
(***************************************************************************)
(* The tree: a node with trees in the place of nodes.  A node is built     *)
(* after its children.                                                     *)
(***************************************************************************)
Trees ==
    FoldLeft(LAMBDA trees, node :
        Append(trees, [f \in DOMAIN node |->
            IF f = "tokens" THEN [i \in DOMAIN node[f] |->
                [t |-> "word", type |-> tokens[node[f][i]].type, val |-> tokens[node[f][i]].val]]
            ELSE IF f \in Plain THEN node[f]
            ELSE [i \in DOMAIN node[f] |-> trees[node[f][i]]]]),
        <<>>, nodes)

Ended == parsing \in {"done", "crashed"}
Accepted == parsing = "done" /\ root # Null

\* The nodes of the result.
Children == [n \in DOMAIN nodes |-> UNION {ToSet(nodes[n][f]) : f \in DOMAIN nodes[n] \ Plain}]
Result == UNION {Reached(Children, n) : n \in ToSet(root)}

-----------------------------------------------------------------------------
(***************************************************************************)
(* Properties.                                                             *)
(***************************************************************************)

\* The values that are held by the calls in progress have the shapes the
\* instructions expect, and a node is built from nodes there already are:
\* there are no cycles for the compiler to run into.
TypeOK ==
    /\ scanning \in {"on", "done", "error", "comment"}
    /\ parsing \in {"no", "on", "done", "crashed"}
    /\ position \in 0 .. Len(text) /\ next \in 0 .. Len(tokens) /\ error \in 0 .. Len(tokens) + 1
    /\ quiet \in BOOLEAN /\ errno \in BOOLEAN
    /\ freed \subseteq 2 .. Len(nodes) /\ root \in {Null} \cup {<<n>> : n \in 1 .. Len(nodes)}
    /\ \A n \in DOMAIN nodes : \A f \in DOMAIN nodes[n] \ Plain :
            ToSet(nodes[n][f]) \subseteq 1 .. n - 1
    /\ CodeFits

\* The lexer gives the tokens a text is written from, each with the row and
\* the column where it begins, whatever stands between them.
TokensAreWhereWritten ==
    /\ IsPrefix(tokens, source.tokens)
    /\ scanning = "done" => tokens = source.tokens

\* What is written from a tree is read as that tree: precedence, the side to
\* which operators lead, the order of lists, what belongs to which statement.
\* None of its nodes was destroyed on the way.
RoundTrip ==
    source.sound /\ Ended =>
        /\ Accepted /\ error = 0 /\ ~quiet
        /\ Trees[root[1]] = source.tree
        /\ Result \cap freed = {}

\* A text that is accepted without complaint, sound or not, gives a tree the
\* compiler can walk: nothing it needs is NULL or was destroyed.
AcceptedIsWhole ==
    Accepted /\ error = 0 /\ ~quiet =>
        /\ Result \cap freed = {}
        /\ \A n \in Result : \A f \in Required(nodes[n].t) : nodes[n][f] # Null

\* A text that is rejected is rejected for a reason that was reported at a
\* token that was read, unless a when had no else or a parameter list was
\* not in order.
RejectedWithReason ==
    parsing = "done" /\ root = Null => error \in 1 .. Len(tokens) + 1 \/ quiet

\* Every text is accepted or rejected in the end, but one whose last line is
\* a comment that no new line ends, for which the lexer looks forever.
ParsingEnds == <>(Ended \/ scanning = "comment")

=============================================================================
