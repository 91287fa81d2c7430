---------------------------- MODULE MCFrontEnd ----------------------------
(***************************************************************************)
(* Texts for TLC: written from trees in three styles, and damaged.         *)
(***************************************************************************)
EXTENDS FrontEnd, Printer

Sym(x) == [t |-> "symbol", name |-> x]
Num(n) == [t |-> "int", n |-> n]
Str(s) == [t |-> "string", s |-> s]
Set(l, r) == [t |-> "assign", left |-> <<l>>, right |-> <<r>>]
Bin(op, l, r) == [t |-> "bin", op |-> op, left |-> <<l>>, right |-> <<r>>]
Unary(op, e) == [t |-> "unary", op |-> op, expr |-> <<e>>]
To(e, args, packed) == [t |-> "call", target |-> <<e>>, args |-> args, packed |-> packed]
Index(e, key) == [t |-> "index", expr |-> <<e>>, key |-> <<key>>]
Member(e) == [t |-> "member", expr |-> <<e>>, name |-> "m"]
Macro(e, words) == [t |-> "macro", target |-> <<e>>, tokens |-> words]
WhenElse(e, c, d) == [t |-> "when", yes |-> <<e>>, cond |-> <<c>>, no |-> <<d>>]
Lists(es) == [t |-> "list", items |-> es]
Tuple(es) == [t |-> "tuple", items |-> es]
Dict(pairs) == [t |-> "dict", pairs |-> [i \in DOMAIN pairs |-> [t |-> "pair", key |-> <<pairs[i][1]>>, val |-> <<pairs[i][2]>>]]]
Block(ss) == [t |-> "block", body |-> ss]
Lambda(params, ss) == [t |-> "lambda", params |-> params, body |-> <<Block(ss)>>]
Param(x) == [t |-> "param", name |-> x, kind |-> "positional"]
Rest(x) == [t |-> "param", name |-> x, kind |-> "variadic"]
Quoted(ss) == [t |-> "quote", children |-> ss]
Case(p, c, v) == [t |-> "case", pattern |-> <<p>>, cond |-> c, value |-> <<v>>]
Match(e, cases, d) == [t |-> "match", expr |-> <<e>>, cases |-> cases, default |-> d]
AnyOf(ps) == [t |-> "or pattern", items |-> ps]
Each(ps) == [t |-> "list pattern", items |-> ps]

Nothing == [t |-> "empty"]
If(c, s, r) == [t |-> "if", cond |-> <<c>>, yes |-> <<s>>, no |-> r]
While(c, s) == [t |-> "while", cond |-> <<c>>, body |-> <<s>>]
With(e, s) == [t |-> "with", expr |-> <<e>>, body |-> <<s>>]
For(x, e, s) == [t |-> "for", name |-> x, expr |-> <<e>>, body |-> <<s>>]
Try(s, x, h) == [t |-> "try", body |-> <<s>>, name |-> x, handler |-> <<h>>]
Gives(e) == [t |-> "return", expr |-> <<e>>]
Raises(e) == [t |-> "raise", expr |-> <<e>>]
Let(x, e) == [t |-> "let", name |-> x, right |-> <<e>>]
Use(imports, path) == [t |-> "use", imports |-> imports, path |-> path]
Func(params, ss) == [t |-> "func", name |-> "f", params |-> params, body |-> <<Block(ss)>>]
Class(base, mixins, methods) == [t |-> "class", name |-> "K", base |-> base, mixins |-> mixins, methods |-> methods]
Enum(es) == [t |-> "enum", name |-> "E", values |-> es]
Mixin(methods) == [t |-> "mixin", name |-> "M", methods |-> methods]
Decorated(e, d) == [t |-> "decorated", decorator |-> <<e>>, decl |-> <<d>>]

A == Sym("a")
B == Sym("b")
C == Sym("c")

-----------------------------------------------------------------------------
(***************************************************************************)
(* Expressions: two operators, of any two levels; what may follow a term  *)
(* after each kind of expression; and the others inside each other.        *)
(* (The text of a < b > (c) is the one of a call.)                         *)
(***************************************************************************)
Ops == {"BUILD_RANGE_HALF", "LOGICAL_OR", "LOGICAL_AND", "OR", "EQUALS", "LESS_THAN", "SUB", "DIV"}
Twice ==
    {Bin(o, Bin(p, A, B), C) : o \in Ops, p \in Ops} \cup {Bin(o, A, Bin(p, B, C)) : o \in Ops, p \in Ops}
      \cup {Bin(o, A, B) : o \in DOMAIN Spelling \ {"XOR"}}
Inner == {A, Num(20), [t |-> "float", f |-> "1.5"], Str("a \"b\"\n\\"), Set(A, B),
    Bin("SUB", A, B), Unary("NEGATE", A), WhenElse(A, B, C), Lists(<<A, B, C>>), Tuple(<<A, B>>),
    Dict(<<<<A, Num(1)>>, <<Str("k"), B>>>>), Lambda(<<Param("x"), Rest("y")>>, <<Gives(A)>>),
    Quoted(<<Set(A, B), Nothing>>), Match(A, <<Case(Num(1), <<>>, B)>>, <<C>>), To(A, <<>>, FALSE), Member(A)}
Around(e) == {To(e, <<e, B>>, FALSE), To(B, <<A, e>>, TRUE), Index(e, e), Member(e),
    Macro(e, <<Mark("("), Name("x"), Mark("("), Mark(")"), Mark("}"), Mark(")")>>),
    Unary("NOT", e), Set(Member(A), e), WhenElse(e, A, e), WhenElse(A, e, B), Lists(<<e, A>>),
    Tuple(<<e, e>>), Dict(<<<<e, e>>>>), Bin("ADD", e, A), Bin("LESS_THAN", A, e)}
Patterns == {Num(1), Member(A), AnyOf(<<Num(1), Str("s")>>), Each(<<>>), Each(<<A, AnyOf(<<B, Each(<<C>>)>>)>>)}
Matches == {Match(A, <<Case(p, <<>>, B), Case(p, c, Block(<<A, B>>))>>, d) :
    p \in Patterns, c \in {<<>>, <<B>>}, d \in {<<>>, <<Block(<<>>)>>}}
Expressions == Twice \cup UNION {Around(e) : e \in Inner} \cup Matches
    \cup {Set(A, Set(B, C)), Unary("LOGICAL_NOT", [t |-> "bool", b |-> FALSE]), Lists(<<>>)}

(***************************************************************************)
(* Statements and declarations.                                            *)
(***************************************************************************)
Bodies == {A, Block(<<>>), Block(<<A, B>>), If(B, C, <<>>), Nothing}
Methods == <<Func(<<Param("x")>>, <<Gives(A)>>), Func(<<>>, <<>>), Set(A, B)>>
Statements ==
    {If(A, s, r) : s \in Bodies, r \in {<<>>} \cup {<<s>> : s \in Bodies}}
      \cup {While(A, s) : s \in Bodies} \cup {With(A, s) : s \in Bodies} \cup {For("x", A, s) : s \in Bodies}
      \cup {Try(s, x, B) : s \in Bodies, x \in {"", "e"}} \cup {While(A, [t |-> k]) : k \in {"break", "continue"}}
      \cup {Raises(A), Let("x", Set(A, B)), Enum(<<A>>), Enum(<<A, B>>), Mixin(<<>>), Mixin(Methods)}
      \cup {Use(imports, path) : imports \in {<<>>, <<A>>, <<A, B>>}, path \in DOMAIN PathWords}
      \cup {Func(<<Param("x"), Param("y"), Rest("z")>>, <<While(A, B), C>>), Func(<<>>, <<Dict(<<>>)>>)}
      \cup {Class(base, mixins, methods) :
               base \in {<<>>, <<Member(A)>>}, mixins \in {<<>>, <<A, B>>}, methods \in {<<>>, Methods}}
      \cup {Decorated(A, Decorated(To(A, <<B>>, FALSE), d)) : d \in {Func(<<>>, <<>>), Class(<<>>, <<>>, <<>>), Mixin(<<>>)}}

-----------------------------------------------------------------------------
Source(page, tree, sound) ==
    [text |-> page.text, tokens |-> page.tokens, tree |-> tree, sound |-> sound, errno |-> FALSE]
Program(stmt) == Block(<<stmt, A>>)
Of(tree, style) == Source(Laid(WordsOf(tree), style), tree, TRUE)

Words(spellings) == [i \in DOMAIN spellings |->
    IF spellings[i] \in Keywords THEN [type |-> "keyword", val |-> spellings[i]]
    ELSE IF spellings[i] \in {"a", "b", "c", "T"} THEN [type |-> "ident", val |-> spellings[i]]
    ELSE [type |-> spellings[i], val |-> spellings[i]]]

\* Texts that are not how the printer writes a tree.
InPlace == {Source(Laid(Words(<<"a", op, "b", "=", "c">>), "spaced"),
                   Block(<<Set(A, Bin(Operation[op], A, Set(B, C)))>>), TRUE) :
               op \in InplaceAssignments \ {"<<=", ">>="}}
Generic == {Source(Laid(Words(<<"a", "<", "T", ">", "(", "b", ")", ".", "c">>), "tight"),
                   Block(<<[Member(To(A, <<B>>, FALSE)) EXCEPT !.name = "c"]>>), TRUE)}
\* A macro call takes the lines that are indented further than its closing brace.
Indented == {Of(Block(<<Macro(A, <<Mark("{"), Name("x"), Mark("}")>>), B>>), "lines")}

Compact == Twice \cup {Let("x", Bin("BUILD_RANGE_CLOSED", Index(A, Num(1)), Num(2))), While(A, Block(<<Dict(<<>>), Gives(Str("s"))>>))}
Sound == {Of(Program(e), "spaced") : e \in Expressions \ Twice}
    \cup {Of(Program(s), "lines") : s \in Statements} \cup {Of(Program(s), "tight") : s \in Compact}
    \cup InPlace \cup Generic \cup Indented \cup {Of(Block(<<>>), "spaced")}

(***************************************************************************)
(* Damage: a token that is missing; a text that ends too soon, or has a    *)
(* character that belongs nowhere; a number that is too large, or an errno *)
(* that someone has left.                                                  *)
(***************************************************************************)
Damaged(words) ==
    {Source(Laid(ws, "spaced"), <<>>, FALSE) :
        ws \in {RemoveAt(words, i) : i \in DOMAIN words}
                 \cup {SubSeq(words, 1, i) : i \in DOMAIN words}}
ToDamage == {Bin("MUL", Bin("BUILD_RANGE_HALF", A, B), Index(A, WhenElse(A, B, C))),
    Dict(<<<<Num(1), To(A, <<B>>, TRUE)>>, <<B, Str("s")>>>>), Lists(<<Tuple(<<A, B>>), Lambda(<<Param("x")>>, <<A>>)>>),
    Match(A, <<Case(Each(<<A, AnyOf(<<B>>)>>), <<B>>, C)>>, <<Block(<<A, B>>)>>), Macro(A, <<Mark("("), Mark(")")>>),
    Set(Member(A), Quoted(<<If(A, B, <<C>>), Nothing>>)), For("x", A, While(A, With(B, C))), Let("x", A),
    Try(Raises(A), "e", B), Use(<<A, B>>, "./a/b"), Func(<<Param("x"), Rest("y")>>, <<Gives(A)>>),
    Class(<<A>>, <<B>>, <<Mixin(<<Enum(<<A, B>>)>>)>>), Decorated(A, Func(<<Param("x")>>, <<B>>))}
Unread == {[Of(Block(<<A>>), "spaced") EXCEPT !.text = @ \o rest, !.sound = FALSE] : rest \in {"\"b\\\"", "$", " # b"}}
Numbers == {[Of(Block(<<Set(A, Num(n))>>), "spaced") EXCEPT !.errno = late, !.sound = FALSE] :
               n \in {999, 1000}, late \in BOOLEAN}
Spoilt == UNION {Damaged(WordsOf(Block(<<s>>))) : s \in ToDamage} \cup Unread \cup Numbers

MCSources == Sound \cup Spoilt
=============================================================================
