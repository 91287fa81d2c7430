------------------------------ MODULE Printer ------------------------------
(***************************************************************************)
(* How a syntax tree is written: a reference for the front end.            *)
(*                                                                         *)
(* A tree is a node with its fields (see Parser); a field that holds nodes *)
(* is a sequence of trees.  A word is a token without its place.  The      *)
(* agenda of the printer holds words, sequences of words and trees, and    *)
(* trees with the least level they may have without parentheses.           *)
(***************************************************************************)
EXTENDS Integers, Sequences, SequencesExt, TLC

\* The binary operators, weakest first, as in C; the levels around them.
Spelling ==
    "BUILD_RANGE_HALF" :> <<3, "..">> @@ "BUILD_RANGE_CLOSED" :> <<3, "...">>
      @@ "LOGICAL_OR" :> <<4, "||">> @@ "LOGICAL_AND" :> <<5, "&&">>
      @@ "OR" :> <<6, "|">> @@ "XOR" :> <<7, "^">> @@ "AND" :> <<8, "&">>
      @@ "EQUALS" :> <<9, "==">> @@ "NOT_EQUALS" :> <<9, "!=">>
      @@ "LESS_THAN" :> <<10, "<">> @@ "GREATER_THAN" :> <<10, ">">>
      @@ "LESS_THAN_OR_EQU" :> <<10, "<=">> @@ "GREATER_THAN_OR_EQU" :> <<10, ">=">>
      @@ "SHL" :> <<11, "<<">> @@ "SHR" :> <<11, ">>">>
      @@ "ADD" :> <<12, "+">> @@ "SUB" :> <<12, "-">>
      @@ "MUL" :> <<13, "*">> @@ "DIV" :> <<13, "/">> @@ "MOD" :> <<13, "%">>
Prefix == "LOGICAL_NOT" :> "!" @@ "NOT" :> "~" @@ "NEGATE" :> "-"

LevelOf(tree) ==
    CASE tree.t = "when"   -> 0
      [] tree.t = "match"  -> 1
      [] tree.t = "assign" -> 2
      [] tree.t = "bin"    -> Spelling[tree.op][1]
      [] tree.t = "unary"  -> 14
      [] tree.t \in {"call", "macro", "index", "member"} -> 15
      [] OTHER             -> 16

-----------------------------------------------------------------------------
Word(type, val) == [t |-> "word", type |-> type, val |-> val]
Mark(s) == Word(s, s)
Key(s) == Word("keyword", s)
Name(s) == Word("ident", s)
Above(level, tree) == [t |-> "above", level |-> level, tree |-> tree]
Expr(tree) == Above(0, tree)
Braced(trees) == [t |-> "braced", trees |-> trees]      \* a block or a single statement
Stmt(tree) == [t |-> "stmt", tree |-> tree]
Stmts(trees) == [i \in DOMAIN trees |-> Stmt(trees[i])]

\* Lists with something in between.
Joined(items, between) ==
    FoldSeq(LAMBDA i, js : IF js = <<>> THEN <<i>> ELSE <<i, between>> \o js, <<>>, items)
Listed(open, items, close) == <<Mark(open)>> \o Joined(items, Mark(",")) \o <<Mark(close)>>
Exprs(trees) == [i \in DOMAIN trees |-> Expr(trees[i])]

Stars(param) == IF param.kind = "variadic" THEN <<Mark("*")>> ELSE <<>>
Params(params, hint) ==
    Listed("(", [i \in DOMAIN params |-> [t |-> "param", param |-> params[i], hint |-> hint]], ")")
Value(tree) == IF tree.t = "block" THEN <<Braced(<<tree>>)>> ELSE <<Mark("=>"), Expr(tree)>>

\* The paths of modules, as they are written.
PathWords ==
    "a" :> <<Name("a")>> @@ "a/b" :> <<Name("a"), Mark("."), Name("b")>>
      @@ "./a" :> <<Mark("."), Name("a")>> @@ "./a/b" :> <<Mark("."), Name("a"), Mark("."), Name("b")>>

\* The words of a statement that is only one.
Simple(tree) ==
    CASE tree.t = "empty"    -> <<Mark(";")>>
      [] tree.t = "break"    -> <<Key("break")>>
      [] tree.t = "continue" -> <<Key("continue")>>
      [] tree.t = "block"    -> <<Braced(<<tree>>)>>
      [] tree.t = "for"      -> <<Key("for"), Name(tree.name), Key("in"), Expr(tree.expr[1]), Braced(tree.body)>>
      [] tree.t = "if"       -> <<Key("if"), Expr(tree.cond[1]), Braced(tree.yes)>>
                                   \o (IF tree.no = <<>> THEN <<>> ELSE <<Key("else"), Braced(tree.no)>>)
      [] tree.t \in {"return", "raise"} -> <<Key(tree.t), Expr(tree.expr[1])>>
      [] tree.t = "let"      -> <<Key("let"), Name(tree.name), Mark("="), Expr(tree.right[1])>>
      [] tree.t = "while"    -> <<Key("while"), Expr(tree.cond[1]), Braced(tree.body)>>
      [] tree.t = "with"     -> <<Key("with"), Expr(tree.expr[1]), Braced(tree.body)>>
      [] tree.t = "try"      -> <<Key("try"), Braced(tree.body), Key("except")>>
                                   \o (IF tree.name = "" THEN <<>> ELSE <<Name(tree.name)>>)
                                   \o <<Braced(tree.handler)>>
      [] tree.t = "use"      -> <<Key("use")>>
                                   \o (IF tree.imports = <<>> THEN <<>>
                                       ELSE Joined(Exprs(tree.imports), Mark(",")) \o <<Key("from")>>)
                                   \o PathWords[tree.path]
      [] tree.t = "func"     -> <<Key("func"), Name(tree.name)>> \o Params(tree.params, TRUE)
                                   \o <<Mark("->"), Name("Hint")>>
                                   \o (IF Len(tree.body[1].body) = 1 /\ tree.body[1].body[1].t = "return"
                                       THEN <<Mark("=>"), Expr(tree.body[1].body[1].expr[1])>>
                                       ELSE <<Mark("{")>> \o Stmts(tree.body[1].body) \o <<Mark("}")>>)
      [] tree.t = "class"    -> <<Key("class"), Name(tree.name)>>
                                   \o (IF tree.base = <<>> THEN <<>> ELSE <<Key("extends"), Expr(tree.base[1])>>)
                                   \o <<Mark("{")>>
                                   \o FlattenSeq([i \in DOMAIN tree.mixins |-> <<Key("use"), Expr(tree.mixins[i])>>])
                                   \o Stmts(tree.methods) \o <<Mark("}")>>
      [] tree.t = "enum"     -> <<Key("enum"), Name(tree.name)>> \o Listed("{", Exprs(tree.values), "}")
      [] tree.t = "mixin"    -> <<Key("mixin"), Name(tree.name), Mark("{")>> \o Stmts(tree.methods) \o <<Mark("}")>>
      [] tree.t = "decorated" -> <<Mark("@"), Expr(tree.decorator[1]), Stmt(tree.decl[1])>>
      [] OTHER -> <<>>

\* The words of an expression, without parentheses around it.
Bare(tree) ==
    CASE tree.t = "when"   -> <<Above(1, tree.yes[1]), Key("when"), Expr(tree.cond[1]), Key("else"), Expr(tree.no[1])>>
      [] tree.t = "match"  -> <<Key("match"), Expr(tree.expr[1]), Mark("{")>> \o tree.cases
                                 \o (IF tree.default = <<>> THEN <<>> ELSE <<Key("default")>> \o Value(tree.default[1]))
                                 \o <<Mark("}")>>
      [] tree.t = "case"   -> <<Key("case"), Above(15, tree.pattern[1])>>
                                 \o (IF tree.cond = <<>> THEN <<>> ELSE <<Key("when"), Expr(tree.cond[1])>>)
                                 \o Value(tree.value[1])
      [] tree.t = "list pattern" -> Listed("[", tree.items, "]")
      [] tree.t = "or pattern"   -> <<Mark("(")>> \o Joined(tree.items, Mark("|")) \o <<Mark(")")>>
      [] tree.t = "assign" -> <<Above(3, tree.left[1]), Mark("="), Above(2, tree.right[1])>>
      [] tree.t = "bin"    -> LET l == LevelOf(tree)
                              IN  <<Above(l, tree.left[1]), Mark(Spelling[tree.op][2]), Above(l + 1, tree.right[1])>>
      [] tree.t = "unary"  -> <<Mark(Prefix[tree.op]), Above(15, tree.expr[1])>>
      [] tree.t = "call"   -> <<Above(15, tree.target[1])>>
                                 \o Listed("(", [i \in DOMAIN tree.args |->
                                       IF tree.packed /\ i = Len(tree.args) THEN [t |-> "packed", tree |-> tree.args[i]]
                                       ELSE Expr(tree.args[i])], ")")
      [] tree.t = "macro"  -> <<Above(15, tree.target[1]), Mark("'")>> \o tree.tokens
      [] tree.t = "index"  -> <<Above(15, tree.expr[1]), Mark("["), Expr(tree.key[1]), Mark("]")>>
      [] tree.t = "member" -> <<Above(15, tree.expr[1]), Mark("."), Name(tree.name)>>
      [] tree.t = "dict"   -> Listed("{", tree.pairs, "}")
      [] tree.t = "pair"   -> <<Expr(tree.key[1]), Mark(":"), Expr(tree.val[1])>>
      [] tree.t = "list"   -> Listed("[", Exprs(Reverse(tree.items)), "]")
      [] tree.t = "tuple"  -> Listed("(", Exprs(tree.items), ")")
      [] tree.t = "lambda" -> <<Key("func")>> \o Params(tree.params, FALSE)
                                 \o <<Mark("{")>> \o Stmts(tree.body[1].body) \o <<Mark("}")>>
      [] tree.t = "quote"  -> <<Mark("'")>> \o Stmts(tree.children) \o <<Mark("'")>>
      [] tree.t = "bool"   -> <<Key(IF tree.b THEN "true" ELSE "false")>>
      [] tree.t = "int"    -> <<Word("int", ToString(tree.n))>>
      [] tree.t = "float"  -> <<Word("float", tree.f)>>
      [] tree.t = "string" -> <<Word("string", tree.s)>>
      [] tree.t = "symbol" -> <<Name(tree.name)>>

\* The kind of expression that comes first in the text of another.
RECURSIVE First(_)
First(tree) ==
    CASE tree.t \in {"bin", "assign"}   -> First(tree.left[1])
      [] tree.t \in {"call", "macro"}   -> First(tree.target[1])
      [] tree.t \in {"index", "member"} -> First(tree.expr[1])
      [] tree.t = "when"                -> First(tree.yes[1])
      [] OTHER                          -> tree.t

\* What an item of the agenda stands for.
Expanded(item) ==
    CASE item.t = "above"  -> IF LevelOf(item.tree) < item.level
                              THEN <<Mark("(")>> \o Bare(item.tree) \o <<Mark(")")>> ELSE Bare(item.tree)
      [] item.t = "packed" -> <<Mark("*"), Expr(item.tree)>>
      [] item.t = "param"  -> Stars(item.param) \o <<Name(item.param.name)>>
                                 \o (IF item.hint THEN <<Mark(":"), Name("Hint")>> ELSE <<>>)
      [] item.t = "braced" -> <<Mark("{")>>
                                 \o Stmts(IF item.trees[1].t = "block" THEN item.trees[1].body ELSE item.trees)
                                 \o <<Mark("}")>>
      [] item.t = "stmt"   -> LET simple == Simple(item.tree)
                              IN  IF simple # <<>> THEN simple
                                  ELSE IF First(item.tree) \in {"dict", "lambda"}
                                       THEN <<Mark("("), Expr(item.tree), Mark(")")>> ELSE <<Expr(item.tree)>>
      [] OTHER -> Bare(item)

RECURSIVE Printed(_, _)
Printed(agenda, words) ==
    IF agenda = <<>> THEN words
    ELSE IF Head(agenda).t = "word"
         THEN Printed(Tail(agenda), Append(words, [type |-> Head(agenda).type, val |-> Head(agenda).val]))
    ELSE Printed(Expanded(Head(agenda)) \o Tail(agenda), words)

\* The words of a program: a block without its braces.
WordsOf(tree) == Printed(Stmts(tree.body), <<>>)

-----------------------------------------------------------------------------
(***************************************************************************)
(* Layout: the text of words, and the tokens it should give, with the rows *)
(* and columns of their first characters.  What stands between two words   *)
(* is a blank, as little as possible, or a comment and a new line.         *)
(***************************************************************************)
InQuotes(s) ==
    "\"" \o FoldSeq(LAMBDA i, t : (CASE SubSeq(s, i, i) = "\n" -> "\\n" [] SubSeq(s, i, i) = "\t" -> "\\t"
                                     [] SubSeq(s, i, i) = "\r" -> "\\r"
                                     [] SubSeq(s, i, i) \in {"\"", "\\"} -> "\\" \o SubSeq(s, i, i)
                                     [] OTHER -> SubSeq(s, i, i)) \o t,
                    "", [i \in 1 .. Len(s) |-> i]) \o "\""
Written(word) == IF word.type = "string" THEN InQuotes(word.val) ELSE word.val

\* Words that may touch: a number would take a dot, and most symbols a symbol.
IsWord(word) == word.type \in {"ident", "keyword", "int", "float"}
Brackets == {"(", ")", "[", "]", "{", "}", ",", ";", "'"}
MayTouch(a, b) ==
    IF {a.type, b.type} \cap Brackets # {} THEN TRUE
    ELSE /\ IsWord(a) # IsWord(b)
         /\ ~(a.type \in {"int", "float"} /\ b.type \in {".", "..", "..."})

Gap(style, a, b) ==
    CASE style = "lines" -> [text |-> "# note\n  ", rows |-> 1, col |-> 2]
      [] style = "tight" /\ MayTouch(a, b) -> [text |-> "", rows |-> 0, col |-> 0]
      [] OTHER -> [text |-> " ", rows |-> 0, col |-> 1]

Laid(words, style) ==
    FoldLeft(LAMBDA page, i :
        LET gap == IF i = 1 THEN [text |-> "", rows |-> 0, col |-> 0] ELSE Gap(style, words[i - 1], words[i])
            col == gap.col + (IF gap.rows = 0 THEN page.col ELSE 0)
        IN  [text |-> page.text \o gap.text \o Written(words[i]),
             row |-> page.row + gap.rows, col |-> col + Len(Written(words[i])),
             tokens |-> Append(page.tokens,
                            [type |-> words[i].type, val |-> words[i].val,
                             row |-> page.row + gap.rows, col |-> col])],
        [text |-> "", row |-> 0, col |-> 0, tokens |-> <<>>], [i \in DOMAIN words |-> i])

=============================================================================
