----------------------------- MODULE MCMachine -----------------------------
(***************************************************************************)
(* Programs for TLC.                                                       *)
(***************************************************************************)
EXTENDS Machine

Sym(x) == [t |-> "symbol", name |-> x]
Num(n) == [t |-> "int", n |-> n]
Str(s) == [t |-> "string", s |-> s]
Yes == [t |-> "bool", b |-> TRUE]
Set(x, e) == [t |-> "assign", left |-> Sym(x), right |-> e]
Bin(op, l, r) == [t |-> "bin", op |-> op, left |-> l, right |-> r]
Call(e, args) == [t |-> "call", target |-> e, args |-> args, packed |-> FALSE]
Puts(e) == Call(Sym("puts"), <<e>>)
Positional(names) == [i \in DOMAIN names |-> [name |-> names[i], kind |-> "positional"]]
Lambda(names, body) == [t |-> "lambda", params |-> Positional(names), body |-> body]
Func(f, names, body) == [t |-> "func", name |-> f, params |-> Positional(names), body |-> body]
Block(ss) == [t |-> "block", body |-> ss]
If(c, s) == [t |-> "if", cond |-> c, yes |-> s, no |-> <<>>]
IfElse(c, s, r) == [t |-> "if", cond |-> c, yes |-> s, no |-> <<r>>]
While(c, s) == [t |-> "while", cond |-> c, body |-> s]
For(x, e, s) == [t |-> "for", name |-> x, expr |-> e, body |-> s]
On(p, v) == [pattern |-> p, value |-> v]
Match(e, cases, d) == [t |-> "match", expr |-> e, cases |-> cases, default |-> d]
Fold(op, e) == [t |-> "unary", op |-> op, expr |-> e]
Lists(es) == [t |-> "list", items |-> es]
Index(e, key) == [t |-> "index", expr |-> e, key |-> key]
Member(e) == [t |-> "member", expr |-> e, name |-> "m"]
Break == [t |-> "break"]
Continue == [t |-> "continue"]
Gives(e) == [t |-> "return", expr |-> e]
More(x) == Bin("GREATER_THAN", Sym(x), Num(0))
Less(x) == Set(x, Bin("SUB", Sym(x), Num(1)))

\* A module that declares f and calls it with 2.
Module(body) == Block(<<Func("f", <<"n">>, body), Call(Sym("f"), <<Num(2)>>)>>)
Runs(body) == [tree |-> Module(Block(body)), runs |-> TRUE]
Static(body) == [tree |-> Module(Block(body)), runs |-> FALSE]

-----------------------------------------------------------------------------
(***************************************************************************)
(* Variables and functions inside functions, in a few orders, and branches *)
(* and loops between stores and loads.  These programs are run.            *)
(***************************************************************************)
Makes ==    \* closures that read, write or declare variables
    {Set("g", Lambda(<<>>, Block(<<b>>))) :
        b \in {Puts(Sym("x")), Set("x", Num(5)), Block(<<Set("y", Num(3)), Puts(Sym("y")), Set("y", Num(4))>>),
               Match(Num(1), <<On(Num(1), Num(7))>>, <<>>),
               Set("h", Lambda(<<>>, Puts(Sym("x"))))}}
First == {Set("x", Num(1)), If(More("n"), Set("x", Num(1)))}
Later == {Puts(Sym("x")), Set("y", Sym("x")), Set("x", Num(4))}
Loops ==
    {While(More("n"), Block(<<a, Less("n")>>)) : a \in {Puts(Sym("n")), Set("x", Sym("n"))}}
      \cup {While(More("x"), Less("x"))}
      \cup {For("i", Bin("BUILD_RANGE_HALF", Num(0), Num(2)), Block(<<a>>)) :
               a \in {If(Sym("i"), Break), Set("x", Sym("i")), Gives(Sym("i"))}}
Middle == Loops \cup {Less("n"), Puts(Sym("n")), Puts(Bin("LOGICAL_OR", Sym("n"), Yes)),
    Bin("LOGICAL_OR", Sym("n"), Set("x", Num(5))), Bin("LOGICAL_AND", Sym("n"), Set("x", Num(5))),
    Set("y", Match(Sym("n"), <<On(Num(3), Num(1)), On(Sym("k"), Sym("k"))>>, <<>>))}

Scoping ==
    {Runs(<<a, g, Call(Sym("g"), <<>>), b, Puts(Sym("x"))>>) :
        a \in First, g \in Makes, b \in Later \cup {Call(Sym("g"), <<>>), Puts(Sym("g")), Puts(Call(Sym("g"), <<>>))}}
      \cup {Runs(<<g, a, Call(Sym("g"), <<>>), b, Puts(Sym("x"))>>) :
        a \in First, g \in Makes, b \in Later}
      \cup {Runs(<<Call(Lambda(<<>>, Block(<<g.right.body.body[1]>>)), <<>>)>>) : g \in Makes}

Branching == {Runs(<<a, b, c>>) : a \in First, b \in Middle, c \in Middle \cup Later}

-----------------------------------------------------------------------------
(***************************************************************************)
(* Loops, and breaks and continues at every place in them.  From here on   *)
(* programs are only compiled.                                             *)
(***************************************************************************)
Leaving == {Break, Continue, If(Sym("n"), Break), Puts(Num(1)),
            Set("y", Match(Sym("n"), <<On(Num(1), Block(<<Break>>))>>, <<>>))}
Bodies == {Block(<<a, b>>) : a, b \in Leaving}
Around(s) == {While(Sym("n"), s), For("i", Sym("n"), s), If(Sym("n"), While(Yes, s))}
Nested == {While(Sym("n"), Block(<<a, w, b>>)) :
              a, b \in {Break, Continue, Puts(Num(1))},
              w \in Around(Break) \cup Around(Continue) \cup Around(Puts(Num(2)))
                     \cup {Set("g", Lambda(<<>>, While(Yes, Break)))}}
Leaping ==
    {Static(<<s>>) : s \in UNION {Around(b) : b \in Bodies} \cup Nested}
      \cup {Static(<<While(Yes, Break), Break>>), Static(<<Continue>>)}

-----------------------------------------------------------------------------
(***************************************************************************)
(* Expressions as operands of every kind of expression and in every kind   *)
(* of statement; and the declarations.                                     *)
(***************************************************************************)
X == Sym("x")
Among(ps, t) == [t |-> t, items |-> ps]
Cases ==
    <<On(Among(<<Num(1), Sym("a")>>, "list pattern"), Sym("a")),
      On(Among(<<Num(1), Among(<<Num(2), Str("s")>>, "or pattern")>>, "or pattern"), Block(<<Puts(X)>>)),
      On(Among(<<Among(<<>>, "list pattern")>>, "list pattern"), If(X, Puts(X)))>>
When(c, a, b) == [t |-> "when", cond |-> c, yes |-> a, no |-> b]
Packed(e, args) == [t |-> "call", target |-> e, args |-> args, packed |-> TRUE]

Holding(e) ==
    {Lists(<<e, X, e>>), [t |-> "tuple", items |-> <<X, e>>], Index(X, e), Index(e, X), Member(e),
     [t |-> "dict", pairs |-> <<[key |-> X, val |-> e], [key |-> e, val |-> X]>>],
     Call(e, <<X, e>>), Call(Member(e), <<e>>), Packed(X, <<e>>), Packed(Member(X), <<e>>),
     Fold("NEGATE", e), Bin("ADD", e, e), Bin("LOGICAL_AND", e, e), Bin("LOGICAL_OR", X, e),
     When(e, X, e), Match(e, Cases, <<e>>), Set("z", e),
     [t |-> "assign", left |-> Index(X, e), right |-> e], [t |-> "assign", left |-> Member(e), right |-> X],
     [t |-> "macro", target |-> e], [t |-> "quote"], Lambda(<<"a">>, e)}
Operands == {X, Bin("LOGICAL_AND", X, Yes), When(X, X, X), Match(X, Cases, <<>>),
             Lists(<<Match(X, Cases, <<>>)>>), Call(Member(X), <<X>>)}

Catch(name, s, handler) == [t |-> "try", body |-> s, name |-> name, handler |-> handler]
Statements(e) ==
    {Set("x", e), [t |-> "let", name |-> "w", right |-> e], IfElse(e, e, Gives(e)), While(e, Break),
      For("i", e, Continue), [t |-> "with", expr |-> e, body |-> e],
      Catch("err", [t |-> "raise", expr |-> e], e), Catch("", e, [t |-> "empty"]), Gives(e)}

Use(names) == [t |-> "use", path |-> "os", imports |-> names]
Method(f, s) == Func(f, <<"self">>, s)
Class(base, mixins) == [t |-> "class", name |-> "C", base |-> base, mixins |-> mixins,
                        methods |-> <<Method("m", Gives(X)), Method("k", While(X, Break))>>]
Enum == [t |-> "enum", name |-> "E", values |-> <<"red", "blue">>]
Mixin == [t |-> "mixin", name |-> "M", methods |-> <<Method("m", X)>>]
Twice(name) == <<[t |-> "let", name |-> name, right |-> X], [t |-> "let", name |-> name, right |-> X]>>
Decorated(d) == [t |-> "decorated", decorator |-> X, decl |-> d]
AllParams == [t |-> "func", name |-> "v", body |-> X, params |->
    <<[name |-> "a", kind |-> "positional"], [name |-> "b", kind |-> "keyword"], [name |-> "c", kind |-> "variadic"]>>]
Declaring1 == {Class(<<>>, <<>>), Class(<<X>>, <<X, X>>), Enum, Mixin, AllParams, Func("v", <<>>, Enum)}
Declarations == Declaring1 \cup {Decorated(d) : d \in Declaring1}
                  \cup {Use(<<>>), Use(<<"a">>), Use(<<"a", "b", "c">>), Decorated(Decorated(Enum))}

Building ==
    {Static(<<s>>) : s \in UNION {Statements(o) \cup Holding(o) : o \in Operands}}
      \cup {Static(<<d>>) : d \in Declarations}
      \cup {[tree |-> Block(<<d>>), runs |-> FALSE] : d \in Declarations}
      \cup {Static(Twice("w")), Static(Twice("n"))}

MCPrograms == Scoping \cup Branching \cup Leaping \cup Building

=============================================================================
