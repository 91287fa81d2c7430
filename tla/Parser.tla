------------------------------ MODULE Parser -------------------------------
(***************************************************************************)
(* The parser (parser.c, ast.c): from tokens to a syntax tree.             *)
(*                                                                         *)
(* Each function of parser.c is a sequence of instructions, for a machine  *)
(* whose stack has a frame for every call: the instructions that are left  *)
(* (rest), and the values of the local variables in the order they got     *)
(* them (held).  A value is a list of nodes, a name, a flag or a number; a *)
(* single node is a list of one, and NULL the list of none.  Nodes are the *)
(* indices of nodes; the first is the empty statement, of which there is   *)
(* only one.                                                               *)
(*                                                                         *)
(* What a function destroys when it gives up is part of the instruction    *)
(* that makes it give up: the places in held of what it destroys.          *)
(***************************************************************************)
EXTENDS Lexer, TLC

CONSTANT IntMax     \* the largest integer

VARIABLES
    next,       \* how many tokens were read
    errno,      \* whether the C library's errno is not 0
    error,      \* the last token read when the first error was reported, or 0
    quiet,      \* a function has given up without reporting an error
    stack,      \* the calls in progress
    nodes,      \* the nodes there are: their type t and fields
    freed,      \* those that were destroyed
    root,       \* the result, NULL if there is none (yet)
    parsing     \* "no", "on", "done", or "crashed"

parser == <<next, errno, error, quiet, stack, nodes, freed, root, parsing>>

Null == <<>>
Empty == <<1>>

\* GaParser_MatchTokClass and ...Val look at the kind of a token: its type,
\* or which keyword it is.
Kind(token) == IF token.type = "keyword" THEN token.val ELSE token.type
KindAt(i) == IF i <= Len(tokens) THEN Kind(tokens[i]) ELSE "eof"
Ahead == KindAt(next + 1)

\* The number that digits are, or one more than the largest.
Digit(c) == CHOOSE d \in 0 .. 9 : ToString(d) = c
IntegerOf(digits) ==
    FoldSeq(LAMBDA i, n : IF n > (IntMax - Digit(SubSeq(digits, i, i))) \div 10 THEN IntMax + 1
                          ELSE 10 * n + Digit(SubSeq(digits, i, i)),
            0, Reverse([i \in 1 .. Len(digits) |-> i]))

\* Of the tokens from one on: where its parenthesis may be closed, and the
\* last token of the braces of a macro call.
Count(kind, from, to) == Cardinality({i \in from .. to : KindAt(i) = kind})
Closing(from) == {i \in from .. Len(tokens) : Count("(", from, i) = Count(")", from, i)}
LastOfBraces(from) ==
    LET below == {i \in from .. Len(tokens) : tokens[i].row # tokens[from].row}
        ends == {i \in from .. Len(tokens) : /\ KindAt(i) = "}"
                                             /\ below # {} /\ i >= Minimum(below)
                                             /\ tokens[i].col <= tokens[Minimum(below)].col}
    IN  Minimum(ends \cup {Len(tokens)})

-----------------------------------------------------------------------------
(***************************************************************************)
(* The instructions.                                                       *)
(***************************************************************************)
Take == [do |-> "take"]                     \* read a token
TakeName == [do |-> "take name"]            \* read it and hold its text
TakeOp == [do |-> "take op"]                \* read it and hold the operation
TakeInteger == [do |-> "take integer"]
TakeComponent == [do |-> "take component"]  \* read it and add it to a path
TakeMacro == [do |-> "take macro"]          \* read the tokens of a macro call
Put(name) == [do |-> "put", name |-> name]
PutFlag(flag) == [do |-> "put flag", flag |-> flag]
PutNodes(list) == [do |-> "put nodes", list |-> list]
Copy(i) == [do |-> "copy", at |-> i]        \* hold what is held at i once more
Move(i) == [do |-> "move", at |-> i]        \* the last value held to i
Push(i) == [do |-> "push", at |-> i]        \* to the end of the list at i
Unshift(i) == [do |-> "unshift", at |-> i]  \* to its front
Forget(i) == [do |-> "forget", at |-> i]
Destroy(i) == [do |-> "destroy", frees |-> {i}]
Complain == [do |-> "complain"]             \* report an error
Fail(places) == [do |-> "fail", frees |-> places]   \* return NULL
GiveUp(places) == [do |-> "give up", frees |-> places]  \* without a report
Quit == [do |-> "quit"]                     \* return what is held last
Crash == [do |-> "crash"]

\* Instructions by the kind of the next token, of the one behind it, or by
\* what is held somewhere.
Switch(cases, otherwise) == [do |-> "switch", cases |-> cases, otherwise |-> otherwise]
Branch(kinds, yes, no) == Switch([k \in kinds |-> yes], no)
Once(kinds, yes) == Branch(kinds, yes, <<>>)
OnSecond(kinds, yes, no) == [do |-> "second", kinds |-> kinds, yes |-> yes, no |-> no]
IfHeld(i, name, yes, no) == [do |-> "held", at |-> i, name |-> name, yes |-> yes, no |-> no]
IfNull(i, yes, no) == [do |-> "null", at |-> i, yes |-> yes, no |-> no]

Loop(kinds, body) == [do |-> "loop", kinds |-> kinds, body |-> body]
Until(kinds, body) == [do |-> "until", kinds |-> kinds, body |-> body]

\* Call a function with the last k values, and what to do if it returns NULL.
CallChecked(fn, k, check) == [do |-> "call", fn |-> fn, args |-> k, check |-> check]
Call(fn, k, places) == CallChecked(fn, k, <<Fail(places)>>)
CallOrError(fn, k, places) == CallChecked(fn, k, <<Complain, Fail(places)>>)
CallAnyway(fn, k) == CallChecked(fn, k, <<>>)
Return(fn, k) == <<[do |-> "return", fn |-> fn, args |-> k]>>

\* Read a token of one kind, or give up.
Error(places) == <<Complain, Fail(places)>>
\* Mutant: it gives up and says nothing.
ExpectSilently(kind, places) == Branch({kind}, <<Take>>, <<Fail(places)>>)
Expect(kind, places) == Branch({kind}, <<Take>>, Error(places))
ExpectName(places) == Branch({"ident"}, <<TakeName>>, Error(places))
ExpectQuietly(kind, places) == Branch({kind}, <<Take>>, <<GiveUp(places)>>)

\* Things with a token in between; or with commas in between, up to a token
\* that stops them or the first thing without a comma behind it.
List == PutNodes(<<>>)
Repeated(kind, body) == body \o <<Loop({kind}, <<Take>> \o body)>>
Separated(stop, body) == [do |-> "items", stop |-> stop, body |-> body]

-----------------------------------------------------------------------------
(***************************************************************************)
(* Nodes (ast.c): the type and the fields, for the values held last.       *)
(***************************************************************************)
Node(type, fields) == [do |-> "node", type |-> type, fields |-> fields]

\* The fields that hold no nodes.
Plain == {"t", "name", "op", "packed", "kind", "path", "b", "f", "n", "s", "tokens"}

NewCodeBlock == Node("block", <<"body">>)
NewClass == Node("class", <<"name", "base", "mixins", "methods">>)
NewEnum == Node("enum", <<"name", "values">>)
NewMixin == Node("mixin", <<"name", "methods">>)
NewFunc == Node("func", <<"name", "params", "body">>)
NewAnonymousFunc == Node("lambda", <<"params", "body">>)
NewFuncParam == Node("param", <<"name", "kind">>)
NewBreak == Node("break", <<>>)
NewContinue == Node("continue", <<>>)
NewFor == Node("for", <<"name", "expr", "body">>)
NewIf == Node("if", <<"cond", "yes", "no">>)
NewReturn == Node("return", <<"expr">>)
NewTry == Node("try", <<"body", "name", "handler">>)
NewUse == Node("use", <<"imports", "path">>)
NewWhile == Node("while", <<"cond", "body">>)
NewWith == Node("with", <<"expr", "body">>)
NewCall == Node("call", <<"target", "args", "packed">>)
NewMacro == Node("macro", <<"target", "tokens">>)
NewExpr == Node("assign", <<"left", "right">>)
NewBinOp == Node("bin", <<"left", "op", "right">>)
NewDict == Node("dict", <<"pairs">>)
NewKeyValuePair == Node("pair", <<"key", "val">>)
NewUnaryOp == Node("unary", <<"op", "expr">>)
NewBool == Node("bool", <<"b">>)
NewFloat == Node("float", <<"f">>)
NewInteger == Node("int", <<"n">>)
NewString == Node("string", <<"s">>)
NewSymbol == Node("symbol", <<"name">>)
NewIndexer == Node("index", <<"expr", "key">>)
NewList == Node("list", <<"items">>)
NewMatch == Node("match", <<"expr", "cases", "default">>)
NewCase == Node("case", <<"pattern", "value", "cond">>)
NewListPattern == Node("list pattern", <<"items">>)
NewOrPattern == Node("or pattern", <<"items">>)
NewMemberAccess == Node("member", <<"expr", "name">>)
NewQuote == Node("quote", <<"children">>)
NewTuple == Node("tuple", <<"items">>)
NewWhen == Node("when", <<"yes", "cond", "no">>)
NewRaise == Node("raise", <<"expr">>)
NewLet == Node("let", <<"name", "right">>)
NewDeclarationDecorator == Node("decorated", <<"decorator", "decl">>)

\* GaAst_Walk, which GaAst_Destroy frees with.  It only knows some types, and
\* not all the parts of those; a pair is walked without end.
WalkedFields(type) ==
    CASE type = "block"     -> {"body"}
      [] type = "if"        -> {"cond", "yes", "no"}
      [] type = "while"     -> {"cond", "body"}
      [] type = "decorated" -> {"decorator", "decl"}
      [] type = "bin"       -> {"left", "right"}
      [] type = "call"      -> {"args"}
      [] type = "dict"      -> {"pairs"}
      [] type = "pair"      -> {"key", "val"}
      [] OTHER              -> {}

\* The nodes that the compiler follows without a look: they may not be NULL.
Required(type) ==
    CASE type \in {"unary", "return", "raise", "member", "match"} -> {"expr"}
      [] type \in {"for", "with"}    -> {"expr", "body"}
      [] type \in {"func", "lambda"} -> {"body"}
      [] type \in {"bin", "assign"}  -> {"left", "right"}
      [] type \in {"call", "macro"}  -> {"target"}
      [] type = "index"     -> {"expr", "key"}
      [] type = "pair"      -> {"key", "val"}
      [] type = "case"      -> {"pattern", "value"}
      [] type = "when"      -> {"yes", "cond", "no"}
      [] type = "if"        -> {"cond", "yes"}
      [] type = "while"     -> {"cond", "body"}
      [] type = "try"       -> {"body", "handler"}
      [] type = "let"       -> {"right"}
      [] type = "decorated" -> {"decorator", "decl"}
      [] OTHER              -> {}

\* Where one gets to, from part to part.
Reached(parts, n) ==
    LET reached[m \in DOMAIN parts] == {m} \cup UNION {reached[k] : k \in parts[m]}
    IN  reached[n]
WalkedParts == [n \in DOMAIN nodes |-> UNION {ToSet(nodes[n][f]) : f \in WalkedFields(nodes[n].t)}]
Walked(n) == Reached(WalkedParts, n)

\* Mutant: whatever is walked is freed.
FreesAll(walked) == walked
Frees(walked) ==
    {n \in walked : nodes[n].t \in {"block", "if", "while", "func", "int", "string", "symbol",
                                    "bin", "call", "dict"}}

\* Destroying what is held at some places.
AllWalked(held, places) == UNION {Walked(n) : n \in UNION {ToSet(held[i]) : i \in places}}
Breaks(walked) ==
    \E n \in walked :
        \/ n \in freed
        \/ nodes[n].t = "pair"
        \/ \E f \in Required(nodes[n].t) \cap WalkedFields(nodes[n].t) : nodes[n][f] = Null

-----------------------------------------------------------------------------
(***************************************************************************)
(* Terms.                                                                  *)
(***************************************************************************)
ParseTerm ==
    <<Switch("true"   :> <<Take, PutFlag(TRUE), NewBool, Quit>>
          @@ "false"  :> <<Take, PutFlag(FALSE), NewBool, Quit>>
          @@ "eof"    :> Error({})
          @@ "string" :> <<TakeName, NewString, Quit>>
          @@ "int"    :> <<TakeInteger, NewInteger, Quit>>
          @@ "float"  :> <<TakeName, NewFloat, Quit>>
          @@ "ident"  :> <<TakeName, NewSymbol, Quit>>,
             <<Take>> \o Error({}))>>

ParseQuote ==
    <<Branch({"'"}, <<Take>>, Return("term", 0)), List,
      Until({"'", "eof"}, <<Call("decl", 0, {1}), Push(1)>>),
      Branch({"eof"}, Error({1}), <<Take>>), NewQuote, Quit>>

ParseAnonymousFunc == <<Branch({"func", "macro"}, Return("func expr", 0), Return("quote", 0))>>

ParseDictExpr ==
    <<Branch({"{"}, <<Take>>, Return("anonymous func", 0)), List,
      Separated({"}"}, <<Call("expr", 0, {1}), Expect(":", {1, 2}), Call("expr", 0, {1, 2}),
                         NewKeyValuePair, Push(1)>>),
      Expect("}", {1}), NewDict, Quit>>

\* The items are put in front of each other.
ParseListExpr ==
    <<Branch({"["}, <<Take>>, Return("dict", 0)), List,
      Separated({"]"}, <<Call("expr", 0, {1}), Unshift(1)>>),
      Expect("]", {1}), NewList, Quit>>

\* With the first item, which becomes a list of one.
ParseTuple ==
    Repeated(",", <<Call("expr", 0, {1}), Push(1)>>) \o <<Expect(")", {1}), NewTuple, Quit>>

ParseGrouping ==
    <<Branch({"("}, <<Take>>, Return("list", 0)), CallOrError("expr", 0, {}),
      Once({","}, <<Take>> \o Return("tuple", 1)), Expect(")", {1}), Quit>>

-----------------------------------------------------------------------------
(***************************************************************************)
(* What may follow a term.  The frame of parse_call_expr holds left, then  *)
(* left once more, to put it in a node.                                    *)
(***************************************************************************)
\* The end of parse_call_expr: left if there is neither a result nor an error.
Answer == [do |-> "answer"]

ParseIndexExpr ==
    <<Take, CallAnyway("expr", 0),
      IfNull(3, <<Destroy(2), Answer>>, <<Expect("]", {2, 3}), NewIndexer>>)>>

ParseMemberAccess == <<Take, ExpectName({2}), NewMemberAccess>>

\* Null once the flag, then the list of arguments.
ParseArglist ==
    <<Take, List, PutFlag(FALSE),
      Separated({")"}, <<Once({"*"}, <<Take, PutFlag(TRUE), Move(4)>>),
                         CallOrError("expr", 0, {3}), Push(3)>>),
      Expect(")", {3})>>

ParseCallMacroExpr == <<Take, TakeMacro, NewMacro, Answer>>

ParseCallExpr ==
    <<IfNull(1, <<Quit>>, <<Copy(1)>>),
      Switch("'" :> ParseCallMacroExpr
          @@ "(" :> ParseArglist \o <<NewCall, CallAnyway("call", 1), Answer>>
          @@ "." :> ParseMemberAccess \o <<CallAnyway("call", 1), Answer>>
          @@ "[" :> ParseIndexExpr \o <<CallAnyway("call", 1), Answer>>,
             <<PutNodes(Null), Answer>>)>>

-----------------------------------------------------------------------------
(***************************************************************************)
(* Operators, the ones that bind strongest first.                          *)
(***************************************************************************)
Operand == <<Call("grouping", 0, {}), Call("call", 1, {})>>

ParseUnary ==
    <<Switch("!" :> <<Take, Put("LOGICAL_NOT")>> @@ "~" :> <<Take, Put("NOT")>>
          @@ "-" :> <<Take, Put("NEGATE")>>, Operand \o <<Quit>>)>>
      \o Operand \o <<NewUnaryOp, Quit>>

\* The operation of a binary operator, or of an assignment with one.
Operation ==
    "*" :> "MUL" @@ "/" :> "DIV" @@ "%" :> "MOD" @@ "+" :> "ADD" @@ "-" :> "SUB"
      @@ "<<" :> "SHL" @@ ">>" :> "SHR" @@ "<" :> "LESS_THAN" @@ ">" :> "GREATER_THAN"
      @@ "<=" :> "LESS_THAN_OR_EQU" @@ ">=" :> "GREATER_THAN_OR_EQU"
      @@ "==" :> "EQUALS" @@ "!=" :> "NOT_EQUALS" @@ "&" :> "AND" @@ "^" :> "XOR" @@ "|" :> "OR"
      @@ "&&" :> "LOGICAL_AND" @@ "||" :> "LOGICAL_OR"
      @@ ".." :> "BUILD_RANGE_HALF" @@ "..." :> "BUILD_RANGE_CLOSED"
      @@ "*=" :> "MUL" @@ "/=" :> "DIV" @@ "%=" :> "MOD" @@ "+=" :> "ADD" @@ "-=" :> "SUB"
      @@ "<<=" :> "SHL" @@ ">>=" :> "SHR" @@ "&=" :> "AND" @@ "^=" :> "XOR" @@ "|=" :> "OR"

\* Operators of one level, between operands of the next one.
Level(operand, operators, right) ==
    <<Call(operand, 0, {}), Loop(operators, <<TakeOp>> \o right), Quit>>
LeftToRight(operand, operators) ==
    Level(operand, operators, <<Call(operand, 0, {1}), NewBinOp>>)

ParseDivMul == LeftToRight("unary", {"/", "*", "%"})
ParseAddSub == LeftToRight("div mul", {"+", "-"})
ParseBitshift == LeftToRight("add sub", {"<<", ">>"})

\* Mutant: the call's target is destroyed, and not the type.
ParseGenericDestroyingLeft ==
    LET generic == <<Destroy(1), Take, Forget(3), Forget(2)>> \o Return("call", 1)
    IN  Level("bitshift", {">", "<", ">=", "<="},
              <<Call("bitshift", 0, {}),
                IfHeld(2, "LESS_THAN",
                       <<Once({">"}, <<OnSecond({"("}, generic, <<>>)>>)>>, <<>>),
                NewBinOp>>)

\* "f<t>(": the type is dropped, and this is a call.
ParseRelationalOrGeneric ==
    LET generic == <<Destroy(3), Take, Forget(3), Forget(2)>> \o Return("call", 1)
    IN  Level("bitshift", {">", "<", ">=", "<="},
              <<Call("bitshift", 0, {}),
                IfHeld(2, "LESS_THAN",
                       <<Once({">"}, <<OnSecond({"("}, generic, <<>>)>>)>>, <<>>),
                NewBinOp>>)

ParseEquality == LeftToRight("relational", {"==", "!="})
ParseAnd == LeftToRight("equality", {"&"})
ParseXor == LeftToRight("and", {"^"})
ParseOr == LeftToRight("xor", {"|"})
ParseLogicalAnd == LeftToRight("or", {"&&"})
ParseLogicalOr == LeftToRight("logical and", {"||"})

\* A range goes on without its right side.
ParseRange ==
    Level("logical or", {"..", "..."},
          <<CallAnyway("logical or", 0), IfNull(3, <<Destroy(1)>>, <<>>), NewBinOp>>)

InplaceAssignments == {"+=", "-=", "*=", "/=", "%=", "&=", "^=", "|=", "<<=", ">>="}

\* Mutant: they lead from left to right.
ParseAssignLeftToRight ==
    <<Call("range", 0, {}),
      Loop({"="} \cup InplaceAssignments,
           <<Branch({"="}, <<Take, Call("range", 0, {1})>>,
                    <<Copy(1), TakeOp, Call("range", 0, {1}), NewBinOp>>), NewExpr>>),
      Quit>>

\* Assignments lead from right to left; left is part of two nodes.
ParseAssign ==
    <<Call("range", 0, {}),
      Loop({"="} \cup InplaceAssignments,
           <<Branch({"="}, <<Take, Call("assign", 0, {1})>>,
                    <<Copy(1), TakeOp, Call("assign", 0, {1}), NewBinOp>>), NewExpr>>),
      Quit>>

-----------------------------------------------------------------------------
(***************************************************************************)
(* Match, when, and expressions.                                           *)
(***************************************************************************)
ParsePatternTerm == Operand \o <<Quit>>

ParsePatternCollection ==
    <<List, Separated({"]"}, <<Call("pattern", 0, {1}), Push(1)>>),
      Expect("]", {1}), NewListPattern, Quit>>

ParsePatternOr ==
    <<List>> \o Repeated("|", <<Call("pattern", 0, {1}), Push(1)>>)
      \o <<Expect(")", {1}), NewOrPattern, Quit>>

ParsePattern ==
    <<Switch("(" :> <<Take>> \o Return("pattern or", 0)
          @@ "[" :> <<Take>> \o Return("pattern collection", 0), Return("pattern term", 0))>>

\* What is held: the expression, the cases, the condition, which stays for
\* the cases that follow, and then the pattern and the value of one case.
ParseMatch ==
    <<Branch({"match"}, <<Take>>, Return("assign", 0)), Call("expr", 0, {}), List, PutNodes(Null),
      Expect("{", {1}),
      Loop({"case"},
           <<Take, Call("pattern", 0, {1}),
             Once({"when"}, <<Take, Call("expr", 0, {1, 4}), Move(3)>>),
             Branch({"=>"}, <<Take, Call("expr", 0, {1, 3, 4})>>, <<Call("block", 0, {1, 3, 4})>>),
             Copy(3), NewCase, Push(2)>>),
      Forget(3),
      Branch({"default"}, <<Take, Branch({"=>"}, <<Take, Call("expr", 0, {1})>>,
                                                 <<Call("block", 0, {1})>>)>>, <<PutNodes(Null)>>),
      Expect("}", {1}), NewMatch, Quit>>

\* Without its else a when gives up silently.
ParseWhen ==
    <<CallAnyway("match", 0), Branch({"when"}, <<Take>>, <<Quit>>), Call("expr", 0, {1}),
      ExpectQuietly("else", {1, 2}), Call("expr", 0, {1, 2}), NewWhen, Quit>>

ParseExpr == Return("when", 0)

-----------------------------------------------------------------------------
(***************************************************************************)
(* Statements.                                                             *)
(***************************************************************************)
\* A list of one node becomes that node.
Unwrap == [do |-> "unwrap"]

\* Whatever the first token is, and a block of one statement is none.
ParseCodeBlock ==
    <<Take, List, Until({"}", "eof"}, <<Call("decl", 0, {1}), Push(1)>>),
      Branch({"eof"}, Error({1}), <<Take>>), Unwrap, NewCodeBlock, Quit>>

ParseFor ==
    <<Take, ExpectName({}), Expect("in", {}), Call("expr", 0, {}), Call("stmt", 0, {2}), NewFor, Quit>>

ParseIf ==
    <<Take, Call("expr", 0, {}), Call("stmt", 0, {1}),
      Branch({"else"}, <<Take, Call("stmt", 0, {1, 2})>>, <<PutNodes(Null)>>), NewIf, Quit>>

ParseReturn == <<Take, Call("expr", 0, {}), NewReturn, Quit>>
ParseRaise == <<Take, Call("expr", 0, {}), NewRaise, Quit>>

ParseTry ==
    <<Take, Call("stmt", 0, {}), Expect("except", {}), Branch({"ident"}, <<TakeName>>, <<Put("")>>),
      Call("stmt", 0, {}), NewTry, Quit>>

ParseLet == <<Take, ExpectName({}), Expect("=", {}), Call("expr", 0, {}), NewLet, Quit>>

\* parse_use does not ask whether its path was right.
ParseModulePath ==
    <<Branch({"."}, <<Take, Put("./")>>, <<Put("")>>)>>
      \o Repeated(".", <<Switch("eof" :> <<Complain, Quit>> @@ "ident" :> <<TakeComponent>>,
                                <<Take, Complain, Quit>>)>>)
      \o <<Quit>>

\* Any token will do for the name of an import, but one without a text.
NamedKinds == {"ident", "string", "int", "float"} \cup Keywords

ParseUse ==
    LET Import == Switch([k \in NamedKinds |-> <<TakeName, NewSymbol, Push(1)>>] @@ "eof" :> Error({1}),
                         <<Crash>>)
        Imports == <<List>> \o Repeated(",", <<Import>>) \o <<Expect("from", {1})>>
    IN  <<Take,
          Branch({"ident"}, <<OnSecond({",", "from"}, Imports, <<PutNodes(Null)>>)>>, <<PutNodes(Null)>>),
          CallAnyway("module path", 0), NewUse, Quit>>

ParseWhile == <<Take, Call("expr", 0, {}), Call("stmt", 0, {1}), NewWhile, Quit>>
ParseWith == <<Take, Call("expr", 0, {}), Call("stmt", 0, {1}), NewWith, Quit>>

\* Mutant: the semicolons are looked at and not read.
EmptyStmtMatching == <<Loop({";"}, <<>>), PutNodes(Empty), Quit>>
EmptyStmt == <<Loop({";"}, <<Take>>), PutNodes(Empty), Quit>>

ParseStmt ==
    <<Switch(";"        :> EmptyStmt
          @@ "if"       :> Return("if", 0)
          @@ "return"   :> Return("return", 0)
          @@ "try"      :> Return("try", 0)
          @@ "use"      :> Return("use", 0)
          @@ "while"    :> Return("while", 0)
          @@ "with"     :> Return("with", 0)
          @@ "for"      :> Return("for", 0)
          @@ "break"    :> <<Take, NewBreak, Quit>>
          @@ "continue" :> <<Take, NewContinue, Quit>>
          @@ "raise"    :> Return("raise", 0)
          @@ "let"      :> Return("let", 0)
          @@ "{"        :> Return("block", 0), Return("expr", 0))>>

-----------------------------------------------------------------------------
(***************************************************************************)
(* Declarations.                                                           *)
(***************************************************************************)
ParseMixinInclusion == <<Expect("use", {})>> \o Return("expr", 0)

ParseClass ==
    <<Take, ExpectName({}), Branch({"extends"}, <<Take, Call("expr", 0, {})>>, <<PutNodes(Null)>>),
      Expect("{", {}), List, List,
      Until({"}"}, <<Branch({"use"}, <<Call("mixin inclusion", 0, {2, 4}), Push(3)>>,
                                     <<Call("decl", 0, {2, 4}), Push(4)>>)>>),
      Take, NewClass, Quit>>

ParseEnum ==
    <<Take, ExpectName({}), Expect("{", {}), List>>
      \o Repeated(",", <<Switch("ident" :> <<TakeName, NewSymbol, Push(2)>> @@ "eof" :> <<Crash>>,
                                <<Take>> \o Error({2}))>>)
      \o <<Expect("}", {2}), NewEnum, Quit>>

ParseMixin ==
    <<Take, ExpectName({}), Expect("{", {}), List,
      Until({"}"}, <<Call("decl", 0, {2}), Push(2)>>), Take, NewMixin, Quit>>

\* The type of a parameter or a result is parsed and destroyed.
TypeHint(symbol, at) ==
    Once({symbol}, <<Take, Call("expr", 0, {2, 3}), Destroy(at), Forget(at)>>)

\* What is held: the name, the parameters, the statements, and the kind of
\* the last parameter; then the name of a parameter.
ParseFunc(isExpr) ==
    LET Param ==
            <<IfHeld(4, "variadic", Error({2, 3}), <<>>),
              Once({"*"}, <<Take, Put("variadic"), Move(4)>>),
              Branch({"ident"}, <<TakeName>>, <<GiveUp({2, 3})>>),
              TypeHint(":", 6), Copy(4), NewFuncParam, Push(2)>>
        Body == <<Take, Until({"}", "eof"}, <<Call("decl", 0, {2, 3}), Push(3)>>),
                  Branch({"eof"}, Error({2, 3}), <<Take>>)>>
    IN  <<Take, IF isExpr THEN Put("__anonymous__") ELSE ExpectName({}), Expect("(", {}),
          List, List, Put("positional"), Separated({")"}, Param), ExpectQuietly(")", {2, 3}),
          Forget(4), TypeHint("->", 4),
          Switch("{" :> Body @@ "=>" :> <<Take, Call("expr", 0, {2, 3}), NewReturn, Push(3)>>, <<>>),
          NewCodeBlock, IF isExpr THEN NewAnonymousFunc ELSE NewFunc, Quit>>

\* A decorator of a declaration that is NULL makes a tree all the same.
ParseDecl ==
    LET Decorate(fn) ==
            <<CallAnyway(fn, 0), IfNull(1, <<Quit>>, <<NewDeclarationDecorator, Quit>>)>>
    IN  <<Branch({"@"}, <<Take, Call("expr", 0, {})>>, <<PutNodes(Null)>>),
          Switch("macro" :> Decorate("func") @@ "func" :> Decorate("func")
              @@ "class" :> Decorate("class") @@ "enum" :> Decorate("enum")
              @@ "mixin" :> Decorate("mixin") @@ "@" :> Decorate("decl"),
                 <<IfNull(1, Return("stmt", 0), Error({1}))>>)>>

ParseAll == <<List, Until({"eof"}, <<Call("decl", 0, {1}), Push(1)>>), NewCodeBlock, Quit>>

Function ==
    "all" :> ParseAll @@ "decl" :> ParseDecl @@ "stmt" :> ParseStmt @@ "expr" :> ParseExpr
      @@ "func" :> ParseFunc(FALSE) @@ "func expr" :> ParseFunc(TRUE) @@ "class" :> ParseClass
      @@ "mixin inclusion" :> ParseMixinInclusion @@ "enum" :> ParseEnum @@ "mixin" :> ParseMixin
      @@ "block" :> ParseCodeBlock @@ "for" :> ParseFor @@ "if" :> ParseIf @@ "return" :> ParseReturn
      @@ "raise" :> ParseRaise @@ "try" :> ParseTry @@ "let" :> ParseLet @@ "use" :> ParseUse
      @@ "module path" :> ParseModulePath @@ "while" :> ParseWhile @@ "with" :> ParseWith
      @@ "when" :> ParseWhen @@ "match" :> ParseMatch @@ "pattern" :> ParsePattern
      @@ "pattern or" :> ParsePatternOr @@ "pattern collection" :> ParsePatternCollection
      @@ "pattern term" :> ParsePatternTerm @@ "assign" :> ParseAssign @@ "range" :> ParseRange
      @@ "logical or" :> ParseLogicalOr @@ "logical and" :> ParseLogicalAnd @@ "or" :> ParseOr
      @@ "xor" :> ParseXor @@ "and" :> ParseAnd @@ "equality" :> ParseEquality
      @@ "relational" :> ParseRelationalOrGeneric @@ "bitshift" :> ParseBitshift
      @@ "add sub" :> ParseAddSub @@ "div mul" :> ParseDivMul @@ "unary" :> ParseUnary
      @@ "call" :> ParseCallExpr @@ "grouping" :> ParseGrouping @@ "tuple" :> ParseTuple
      @@ "list" :> ParseListExpr @@ "dict" :> ParseDictExpr @@ "anonymous func" :> ParseAnonymousFunc
      @@ "quote" :> ParseQuote @@ "term" :> ParseTerm

-----------------------------------------------------------------------------
(***************************************************************************)
(* The machine.                                                            *)
(***************************************************************************)
InitParser ==
    /\ next = 0 /\ error = 0 /\ quiet = FALSE
    /\ stack = <<>> /\ nodes = <<[t |-> "empty"]>> /\ freed = {}
    /\ root = Null /\ parsing = "no"

Top == Head(stack)
Held == Top.held
Now == Head(Top.rest)
Later == Tail(Top.rest)
Does(kinds) == parsing = "on" /\ Now.do \in kinds

Continue(rest, held) == stack' = <<[rest |-> rest, held |-> held]>> \o Tail(stack)
GoOn(rest) == Continue(rest, Held)
Hold(value) == Continue(Later, Append(Held, value))
LastHeld(k) == SubSeq(Held, Len(Held) - k + 1, Len(Held))
Without(k) == SubSeq(Held, 1, Len(Held) - k)

\* GaParser_ReadTok: at the end of the tokens nothing is read.
ReadTok == next' = IF next < Len(tokens) THEN next + 1 ELSE next
Val == tokens[next + 1].val

\* The function returns: what its caller does with NULL comes first.
Give(value) ==
    IF Len(stack) = 1
    THEN root' = value /\ parsing' = "done" /\ stack' = <<>>
    ELSE LET caller == stack[2]
             call == Head(caller.rest)
             checked == call.check # <<>> /\ value = Null
         IN  /\ stack' = <<IF checked
                           THEN [caller EXCEPT !.rest = call.check \o Tail(@)]
                           ELSE [rest |-> Tail(caller.rest), held |-> Append(caller.held, value)]>>
                         \o Tail(Tail(stack))
             /\ UNCHANGED <<root, parsing>>

-----------------------------------------------------------------------------
ReadToken ==
    /\ Does({"take"})
    /\ ReadTok /\ GoOn(Later)
    /\ UNCHANGED <<errno, error, quiet, nodes, freed, root, parsing>>

\* The first component of a path has nothing in front of it but "./".
ReadValue ==
    /\ Does({"take name", "take op", "take component"})
    /\ ReadTok
    /\ CASE Now.do = "take name" -> Hold(Val)
         [] Now.do = "take op"   -> Hold(Operation[Ahead])
         [] OTHER -> LET path == Last(Held)
                     IN  Continue(Later, Append(Without(1),
                             path \o (IF path \in {"", "./"} THEN "" ELSE "/") \o Val))
    /\ UNCHANGED <<errno, error, quiet, nodes, freed, root, parsing>>

\* strtoll leaves errno as it was, unless the number is too large.
ReadInteger ==
    /\ Does({"take integer"})
    /\ ReadTok
    /\ LET n == IntegerOf(Val)
       IN  /\ errno' = (errno \/ n > IntMax)
           /\ IF errno' THEN GoOn(Error({})) ELSE Hold(n)
    /\ UNCHANGED <<error, quiet, nodes, freed, root, parsing>>

\* parse_call_macro_expr: up to the parenthesis that closes the first one, and
\* up to a brace that is indented no more than the first token of another line.
ReadMacro ==
    /\ Does({"take macro"})
    /\ LET from == next + 1
           parens == IF Ahead = "(" THEN Closing(from) ELSE {next}
           end == Minimum(parens)
           last == IF KindAt(end + 1) = "{" THEN LastOfBraces(end + 1) ELSE end
       IN  IF parens = {} THEN parsing' = "crashed" /\ UNCHANGED <<next, stack>>
           ELSE next' = last /\ Hold([i \in 1 .. last - next |-> next + i]) /\ UNCHANGED parsing
    /\ UNCHANGED <<errno, error, quiet, nodes, freed, root>>

Arrange ==
    /\ Does({"put", "put flag", "put nodes", "copy", "move", "push", "unshift", "forget"})
    /\ LET i == Now.at
           list == Held[i]
       IN  CASE Now.do = "put"     -> Hold(Now.name)
             [] Now.do = "put flag"  -> Hold(Now.flag)
             [] Now.do = "put nodes" -> Hold(Now.list)
             [] Now.do = "copy"    -> Hold(Held[i])
             [] Now.do = "move"    -> Continue(Later, [Without(1) EXCEPT ![i] = Last(Held)])
             [] Now.do = "push"    -> Continue(Later, [Without(1) EXCEPT ![i] = @ \o Last(Held)])
             [] Now.do = "unshift" -> Continue(Later, [Without(1) EXCEPT ![i] = Last(Held) \o @])
             [] Now.do = "forget"  -> Continue(Later, RemoveAt(Held, i))
    /\ UNCHANGED <<next, errno, error, quiet, nodes, freed, root, parsing>>

Choose ==
    /\ Does({"switch", "second", "held", "null", "loop", "until", "items"})
    /\ GoOn(CASE Now.do = "switch" ->
                   (IF Ahead \in DOMAIN Now.cases THEN Now.cases[Ahead] ELSE Now.otherwise) \o Later
              [] Now.do = "second" -> (IF KindAt(next + 2) \in Now.kinds THEN Now.yes ELSE Now.no) \o Later
              [] Now.do = "held" -> (IF Held[Now.at] = Now.name THEN Now.yes ELSE Now.no) \o Later
              [] Now.do = "null" -> (IF Held[Now.at] = Null THEN Now.yes ELSE Now.no) \o Later
              [] Now.do = "loop" -> IF Ahead \in Now.kinds THEN Now.body \o Top.rest ELSE Later
              [] Now.do = "until" -> IF Ahead \in Now.kinds THEN Later ELSE Now.body \o Top.rest
              [] Now.do = "items" ->
                   IF Ahead \in Now.stop THEN Later
                   ELSE Now.body \o <<Once({","}, <<Take, Now>>)>> \o Later)
    /\ UNCHANGED <<next, errno, error, quiet, nodes, freed, root, parsing>>

CallFunction ==
    /\ Does({"call", "return"})
    /\ LET called == [rest |-> Function[Now.fn], held |-> LastHeld(Now.args)]
       IN  stack' = (IF Now.do = "call" THEN <<called, [Top EXCEPT !.held = Without(Now.args)]>>
                                        ELSE <<called>>) \o Tail(stack)
    /\ UNCHANGED <<next, errno, error, quiet, nodes, freed, root, parsing>>

\* The values held last are the fields of a node.
NodeOf(now, last) ==
    [f \in ToSet(now.fields) \cup {"t"} |->
        IF f = "t" THEN now.type ELSE last[CHOOSE i \in 1 .. Len(now.fields) : now.fields[i] = f]]

Build ==
    /\ Does({"node"})
    /\ LET k == Len(Now.fields)
       IN  /\ nodes' = Append(nodes, NodeOf(Now, LastHeld(k)))
           /\ Continue(Later, Append(Without(k), <<Len(nodes) + 1>>))
    /\ UNCHANGED <<next, errno, error, quiet, freed, root, parsing>>

\* Answer is left, freed or not, where there is neither a result nor an error.
Finish ==
    /\ Does({"quit", "answer"})
    /\ Give(IF Now.do = "answer" /\ Last(Held) = Null /\ error = 0 THEN Held[1] ELSE Last(Held))
    /\ UNCHANGED <<next, errno, error, quiet, nodes, freed>>

UnwrapBlock ==
    /\ Does({"unwrap"})
    /\ IF Len(Last(Held)) = 1 THEN Give(Last(Held)) ELSE GoOn(Later) /\ UNCHANGED <<root, parsing>>
    /\ UNCHANGED <<next, errno, error, quiet, nodes, freed>>

\* GaAst_Destroy of some of what is held, and then perhaps return NULL.
Free ==
    /\ Does({"destroy", "fail", "give up"})
    /\ LET walked == AllWalked(Held, Now.frees)
       IN  /\ freed' = freed \cup Frees(walked)
           /\ IF Breaks(walked) THEN parsing' = "crashed" /\ UNCHANGED <<stack, root>>
              ELSE IF Now.do = "destroy" THEN GoOn(Later) /\ UNCHANGED <<root, parsing>>
              ELSE Give(Null)
    /\ quiet' = (quiet \/ Now.do = "give up")
    /\ UNCHANGED <<next, errno, error, nodes>>

\* parser_error keeps the first error.
ReportError ==
    /\ Does({"complain"})
    /\ error' = IF error = 0 THEN next ELSE error
    /\ GoOn(Later)
    /\ UNCHANGED <<next, errno, quiet, nodes, freed, root, parsing>>

DereferenceNull ==
    /\ Does({"crash"})
    /\ parsing' = "crashed"
    /\ UNCHANGED <<next, errno, error, quiet, stack, nodes, freed, root>>

NextStep ==
    \/ ReadToken \/ ReadValue \/ ReadInteger \/ ReadMacro \/ Arrange \/ Choose \/ CallFunction
    \/ Build \/ Finish \/ UnwrapBlock \/ Free \/ ReportError \/ DereferenceNull

=============================================================================
