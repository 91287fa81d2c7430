------------------------------ MODULE Compile ------------------------------
(***************************************************************************)
(* The code generator (compiler.c): from syntax trees to the code of each  *)
(* function.                                                               *)
(*                                                                         *)
(* A node of the tree is a record whose field t names its type.  The       *)
(* compilation in progress is a record cs: cur is the builder of the       *)
(* function being compiled, outer has those of the functions around it,    *)
(* the module's first, built the code objects that are finished.  The C    *)
(* functions call each other; here each of them puts what it would do      *)
(* after its own first steps in front of the agenda todo: nodes to         *)
(* compile, instructions to emit, labels to mark.                          *)
(*                                                                         *)
(* An instruction has an operation, an immediate n (a slot, a label or     *)
(* address, a number of operands, a code object, a constant), a name s,    *)
(* and owner, which is not in the program: for a load or store of a slot,  *)
(* the builder that gave the slot its meaning.                             *)
(*                                                                         *)
(* temps and loops are not in the program either: how many temporaries     *)
(* were reserved, and the labels of the loops around the statement.        *)
(* wrong collects the break and continue statements that were given a      *)
(* label of another loop than the innermost one around them.               *)
(***************************************************************************)
EXTENDS Optimizer, FiniteSets, FiniteSetsExt, TLC

Global == -1    \* info->global

Instruction(op, n, s, owner) == [op |-> op, n |-> n, s |-> s, owner |-> owner]

\* What the agenda may hold.
Emit(instruction) == [do |-> "emit", instruction |-> instruction]
Op(op) == Emit(Instruction(op, 0, "", 0))
OpN(op, n) == Emit(Instruction(op, n, "", 0))
OpName(op, s) == Emit(Instruction(op, 0, s, 0))
Constant(n) == OpN("LOAD_CONST", n)
String(s) == OpName("LOAD_CONST", s)
Null == OpName("LOAD_CONST", "null")

Expr(e) == [do |-> "expr", node |-> e]
Stmt(s) == [do |-> "stmt", node |-> s]
Pattern(p, matchee) == [do |-> "pattern", node |-> p, matchee |-> matchee]
MatchValue(v) == [do |-> "value", node |-> v]
Case(case, matchee, end) == [do |-> "case", node |-> case, matchee |-> matchee, end |-> end]
Mark(label) == [do |-> "mark", label |-> label]
Declare(name) == [do |-> "declare", name |-> name]
Store(name) == [do |-> "store", name |-> name]
Assign(name) == [do |-> "assign", name |-> name]
Let(name) == [do |-> "let", name |-> name]
Enter(begin, end) == [do |-> "enter", begin |-> begin, end |-> end]
Leave == [do |-> "leave"]
Open(params) == [do |-> "open", params |-> params]
Close == [do |-> "close"]
Declaration(d) == [do |-> "declaration", node |-> d]

Exprs(es) == [i \in DOMAIN es |-> Expr(es[i])]
Stmts(ss) == [i \in DOMAIN ss |-> Stmt(ss[i])]
Strings(names) == [i \in DOMAIN names |-> String(names[i])]
Plan(cs, tasks) == [cs EXCEPT !.todo = tasks \o @]

-----------------------------------------------------------------------------
(***************************************************************************)
(* Builders.                                                               *)
(***************************************************************************)
Builder(id, slot) ==
    [id |-> id, code |-> <<>>, syms |-> <<>>, start |-> slot, next |-> slot,
     labels |-> <<>>, breaks |-> <<>>, continues |-> <<>>,
     temps |-> 0, vars |-> {}, loops |-> <<>>]

\* builder_new: the slots of a function start where those of the enclosing
\* function have got to.
NewBuilder(cs) ==
    [cs EXCEPT !.count = @ + 1,
               !.outer = Append(@, cs.cur),
               !.cur = Builder(cs.count + 1, cs.cur.next)]

Emitted(cs, instruction) == [cs EXCEPT !.cur.code = Append(@, instruction)]

\* Mutant: the enclosing functions do not skip the slot.
DeclareVarHere(cs, name) ==
    IF cs.outer = <<>> THEN [cs EXCEPT !.cur.syms = (name :> Global) @@ @]
    ELSE [cs EXCEPT !.cur.syms = (name :> cs.cur.next) @@ @,
                    !.cur.vars = @ \cup {cs.cur.next},
                    !.cur.next = @ + 1]

\* builder_declare_var: a slot that all enclosing functions skip as well.
DeclareVar(cs, name) ==
    IF cs.outer = <<>> THEN [cs EXCEPT !.cur.syms = (name :> Global) @@ @]
    ELSE [cs EXCEPT !.cur.syms = (name :> cs.cur.next) @@ @,
                    !.cur.vars = @ \cup {cs.cur.next},
                    !.cur.next = @ + 1,
                    !.outer = [i \in 1 .. Len(cs.outer) |->
                                  IF i = 1 THEN cs.outer[i]
                                  ELSE [cs.outer[i] EXCEPT !.next = @ + 1]]]

\* builder_reserve_temporary, k times: slots only this function skips.
ReserveTemporaries(cs, k) == [cs EXCEPT !.cur.next = @ + k, !.cur.temps = @ + k]

\* builder_has_var, builder_has_local, builder_get_local_slot.
Builders(cs) == Append(cs.outer, cs.cur)
Declaring(bs, name) == {i \in DOMAIN bs : name \in DOMAIN bs[i].syms}
HasVar(cs, name) == Declaring(Builders(cs), name) # {}
HasLocal(bs, name) ==
    \E i \in Declaring(bs, name) : bs[i].syms[name] # Global
LocalOwner(bs, name) == bs[Max(Declaring(bs, name))]
LocalSlot(bs, name) == LocalOwner(bs, name).syms[name]

\* The load or store of a slot of the current function itself.
Fast(cs, op, slot) == Emit(Instruction(op, slot, "", cs.cur.id))

AccessVar(cs, fast, global, name) ==
    LET bs == Builders(cs)
    IN  IF HasLocal(bs, name)
        THEN Instruction(fast, LocalSlot(bs, name), name, LocalOwner(bs, name).id)
        ELSE Instruction(global, 0, name, 0)

\* builder_emit_store and compile_symbol.
EmitStore(cs, name) == Emitted(cs, AccessVar(cs, "STORE_FAST", "STORE_GLOBAL", name))
CompileSymbol(cs, e) == Emitted(cs, AccessVar(cs, "LOAD_FAST", "LOAD_GLOBAL", e.name))

\* builder_reserve_label, k times; the first label is NextLabel(cs).
NextLabel(cs) == Len(cs.cur.labels) + 1
ReserveLabels(cs, k) == [cs EXCEPT !.cur.labels = @ \o [i \in 1..k |-> 0]]
MarkLabel(cs, label) == [cs EXCEPT !.cur.labels[label] = Len(cs.cur.code)]

\* Mutant: a continue goes to the end of the loop.
EnterLoopWithEnd(cs, begin, end) ==
    [cs EXCEPT !.cur.breaks = Append(@, end),
               !.cur.continues = Append(@, end),
               !.cur.loops = Append(@, [break |-> end, continue |-> begin])]

\* The ends of a loop's compilation.  The label stacks are only popped by
\* break and continue; loops is what they would be if the end of the loop
\* popped them.
EnterLoop(cs, begin, end) ==
    [cs EXCEPT !.cur.breaks = Append(@, end),
               !.cur.continues = Append(@, begin),
               !.cur.loops = Append(@, [break |-> end, continue |-> begin])]
LeaveLoop(cs) == [cs EXCEPT !.cur.loops = Front(@)]

\* The labels of a code object become addresses.
Resolved(b) ==
    Fixed([i \in DOMAIN b.code |->
              IF b.code[i].op \in JumpOps
              THEN [b.code[i] EXCEPT !.n = IF @ = 0 THEN 0 ELSE b.labels[@]]
              ELSE b.code[i]])

\* builder_finalize.  raw is the code the passes start from.
Built(cs) ==
    LET b == cs.cur
        raw == Resolved(b)
        code == [chain |-> [i \in 1 .. Len(cs.outer) |-> cs.outer[i].id] \o <<b.id>>,
                 start |-> b.start, end |-> b.next, temps |-> b.temps, vars |-> b.vars,
                 raw |-> raw, optimised |-> Finalized(raw)]
    IN  (b.id :> code) @@ cs.built

Finalize(cs) ==
    [cs EXCEPT !.built = Built(cs), !.cur = Last(cs.outer), !.outer = Front(@)]

-----------------------------------------------------------------------------
(***************************************************************************)
(* Expressions and patterns.                                               *)
(***************************************************************************)
CompileBool(cs, e) == Plan(cs, <<Op(IF e.b THEN "LOAD_TRUE" ELSE "LOAD_FALSE")>>)
CompileInteger(cs, e) == Plan(cs, <<Constant(e.n)>>)
CompileString(cs, e) == Plan(cs, <<String(e.s)>>)

\* The key first, then what is indexed.
CompileIndexAccess(cs, e) == Plan(cs, <<Expr(e.key), Expr(e.expr), Op("LOAD_INDEX")>>)
CompileMemberAccess(cs, e) == Plan(cs, <<Expr(e.expr), OpName("LOAD_ATTRIBUTE", e.name)>>)

CompileListPattern(cs, p, matchee) ==
    LET end == NextLabel(cs)
        iterator == cs.cur.next
        element == iterator + 1
        Item(item) ==
            <<Fast(cs, "LOAD_FAST", iterator), Op("ITER_NEXT"), OpN("JUMP_DUP_IF_FALSE", end),
              Fast(cs, "LOAD_FAST", iterator), Op("ITER_CUR"), Fast(cs, "STORE_FAST", element),
              Pattern(item, element), OpN("JUMP_DUP_IF_FALSE", end)>>
    IN  Plan(ReserveTemporaries(ReserveLabels(cs, 1), 2),
             <<Fast(cs, "LOAD_FAST", matchee), Op("GET_ITER"), Fast(cs, "STORE_FAST", iterator)>>
               \o FlattenSeq([i \in DOMAIN p.items |-> Item(p.items[i])])
               \o <<Op("LOAD_TRUE"), Mark(end)>>)

CompileOrPattern(cs, p, matchee) ==
    LET end == NextLabel(cs)
        Item(item) == <<Pattern(item, matchee), OpN("JUMP_DUP_IF_TRUE", end)>>
    IN  Plan(ReserveLabels(cs, 1),
             FlattenSeq([i \in DOMAIN p.items |-> Item(p.items[i])])
               \o <<Op("LOAD_FALSE"), Mark(end)>>)

\* A symbol as a pattern is a new variable, whatever the name meant before.
CompilePatternCapture(cs, p, matchee) ==
    Plan(cs, <<Declare(p.name), Fast(cs, "LOAD_FAST", matchee), Store(p.name), Op("LOAD_TRUE")>>)

CompilePattern(cs, p, matchee) ==
    CASE p.t = "list pattern" -> CompileListPattern(cs, p, matchee)
      [] p.t = "or pattern"   -> CompileOrPattern(cs, p, matchee)
      [] p.t = "symbol"       -> CompilePatternCapture(cs, p, matchee)
      [] OTHER -> Plan(cs, <<Expr(p), Fast(cs, "LOAD_FAST", matchee), Op("MATCH")>>)

\* A statement as the value of a case yields false.
CompileMatchValue(cs, v) ==
    Plan(cs, IF v.t \in {"return", "if", "for", "while", "block"}
             THEN <<Stmt(v), Op("LOAD_FALSE")>> ELSE <<Expr(v)>>)

CompileCase(cs, case, matchee, end) ==
    LET next == NextLabel(cs)
    IN  Plan(ReserveLabels(cs, 1),
             <<Pattern(case.pattern, matchee), OpN("JUMP_IF_FALSE", next),
               MatchValue(case.value), OpN("JUMP", end), Mark(next)>>)

CompileMatch(cs, e) ==
    LET end == NextLabel(cs)
        matchee == cs.cur.next
    IN  Plan(ReserveTemporaries(ReserveLabels(cs, 1), 1),
             <<Expr(e.expr), Fast(cs, "STORE_FAST", matchee)>>
               \o [i \in DOMAIN e.cases |-> Case(e.cases[i], matchee, end)]
               \o (IF e.default = <<>> THEN <<Null>> ELSE Exprs(e.default))
               \o <<Mark(end)>>)

CompileWhen(cs, e) ==
    LET no == NextLabel(cs)
        end == no + 1
    IN  Plan(ReserveLabels(cs, 2),
             <<Expr(e.cond), OpN("JUMP_IF_FALSE", no), Expr(e.yes), OpN("JUMP", end),
               Mark(no), Expr(e.no), Mark(end)>>)

\* The value stays on the stack for the enclosing expression.  A name that
\* means nothing yet is declared.
CompileAssign(cs, e) ==
    LET d == e.left
    IN  Plan(cs, <<Expr(e.right), Op("DUP")>> \o
             CASE d.t = "symbol" -> <<Assign(d.name)>>
               [] d.t = "index"  -> <<Expr(d.key), Expr(d.expr), Op("STORE_INDEX")>>
               [] d.t = "member" -> <<Expr(d.expr), OpName("STORE_ATTRIBUTE", d.name)>>)

\* Each value before its key.
CompileDict(cs, e) ==
    Plan(cs, FlattenSeq([i \in DOMAIN e.pairs |-> <<Expr(e.pairs[i].val), Expr(e.pairs[i].key)>>])
               \o <<OpN("BUILD_DICT", Len(e.pairs))>>)

CompileList(cs, e) == Plan(cs, Exprs(e.items) \o <<OpN("BUILD_LIST", Len(e.items))>>)
CompileTuple(cs, e) == Plan(cs, Exprs(e.items) \o <<OpN("BUILD_TUPLE", Len(e.items))>>)

CompileLogicalBinop(cs, e) ==
    LET end == NextLabel(cs)
        jump == IF e.op = "LOGICAL_AND" THEN "JUMP_DUP_IF_FALSE" ELSE "JUMP_DUP_IF_TRUE"
    IN  Plan(ReserveLabels(cs, 1), <<Expr(e.left), OpN(jump, end), Expr(e.right), Mark(end)>>)

CompileBinop(cs, e) ==
    IF e.op \in {"LOGICAL_AND", "LOGICAL_OR"} THEN CompileLogicalBinop(cs, e)
    ELSE Plan(cs, <<Expr(e.left), Expr(e.right), Op(e.op)>>)

CompileUnary(cs, e) == Plan(cs, <<Expr(e.expr), Op(e.op)>>)

\* A method call has the receiver as one more argument; the arguments from
\* the last one on are unpacked in a packed call.
CompileCall(cs, e) ==
    LET method == e.target.t = "member"
        target == IF method THEN <<Expr(e.target.expr), OpName("LOAD_METHOD", e.target.name)>>
                  ELSE <<Expr(e.target)>>
        argc == Len(e.args) + (IF method THEN 1 ELSE 0)
    IN  Plan(cs, target \o Exprs(e.args) \o
                   <<IF e.packed THEN OpN("INVOKE_AND_UNPACK", argc - 1) ELSE OpN("INVOKE", argc)>>)

CompileCallMacro(cs, e) ==
    LET label == NextLabel(cs)
    IN  Plan(ReserveLabels(cs, 1),
             <<OpN("JUMP_IF_COMPILED", label), String("tokens"), Expr(e.target),
               Mark(label), Op("COMPILE_MACRO")>>)

CompileQuote(cs, e) == Plan(cs, <<String("ast")>>)

-----------------------------------------------------------------------------
(***************************************************************************)
(* Statements.                                                             *)
(***************************************************************************)
CompileFor(cs, s) ==
    LET begin == NextLabel(cs)
        end == begin + 1
        iterator == cs.cur.next
    IN  Plan(ReserveTemporaries(ReserveLabels(cs, 2), 1),
             <<Declare(s.name), Expr(s.expr), Op("GET_ITER"), Fast(cs, "STORE_FAST", iterator),
               Mark(begin), Fast(cs, "LOAD_FAST", iterator), Op("ITER_NEXT"),
               OpN("JUMP_IF_FALSE", end), Fast(cs, "LOAD_FAST", iterator), Op("ITER_CUR"),
               Store(s.name), Enter(begin, end), Stmt(s.body), Leave,
               OpN("JUMP", begin), Mark(end)>>)

CompileWhile(cs, s) ==
    LET begin == NextLabel(cs)
        end == begin + 1
    IN  Plan(ReserveLabels(cs, 2),
             <<Mark(begin), Expr(s.cond), OpN("JUMP_IF_FALSE", end), Enter(begin, end),
               Stmt(s.body), Leave, OpN("JUMP", begin), Mark(end)>>)

CompileIf(cs, s) ==
    LET end == NextLabel(cs)
        else == end + 1
    IN  Plan(ReserveLabels(cs, 2),
             <<Expr(s.cond), OpN("JUMP_IF_FALSE", else), Stmt(s.yes), OpN("JUMP", end), Mark(else)>>
               \o Stmts(s.no) \o <<Mark(end)>>)

\* A second declaration of a name ends the program: compiler_panic.
CompileLet(cs, s) == Plan(cs, <<Expr(s.right), Let(s.name)>>)

CompileReturn(cs, s) == Plan(cs, <<Expr(s.expr), Op("RET")>>)
CompileRaise(cs, s) == Plan(cs, <<Expr(s.expr), Op("RAISE")>>)

CompileTry(cs, s) ==
    LET except == NextLabel(cs)
        end == except + 1
        catch == IF s.name = "" THEN <<>>
                 ELSE <<Declare(s.name), Op("LOAD_EXCEPTION"), Store(s.name)>>
    IN  Plan(ReserveLabels(cs, 2),
             <<OpN("PUSH_EXCEPTION_HANDLER", except), Stmt(s.body),
               Op("POP_EXCEPTION_HANDLER"), OpN("JUMP", end), Mark(except)>>
               \o catch \o <<Stmt(s.handler), Mark(end)>>)

\* One copy of the module for each name; without names, the module itself.
CompileUse(cs, s) ==
    LET names == s.imports
        Import(name) == <<OpName("LOAD_ATTRIBUTE", name), Store(name)>>
    IN  Plan(cs, <<OpName("OPEN_MODULE", s.path)>> \o
                 IF names = <<>> THEN <<Store(s.path)>>
                 ELSE <<OpN("DUPX", Len(names) - 1)>>
                        \o FlattenSeq([i \in DOMAIN names |-> Import(names[i])]))

CompileWith(cs, s) == Plan(cs, <<Expr(s.expr), Op("BEGIN_WITH"), Stmt(s.body), Op("END_WITH")>>)

\* The label popped for a break or a continue.  With nothing on the stack
\* the program reads outside the array; label 0, with address 0, stands for
\* whatever it finds there.
CompileLeap(cs, which) ==
    LET stack == IF which = "break" THEN cs.cur.breaks ELSE cs.cur.continues
        rest == IF stack = <<>> THEN <<>> ELSE Front(stack)
        label == IF stack = <<>> THEN 0 ELSE Last(stack)
        loops == cs.cur.loops
        right == stack # <<>> /\ loops # <<>> /\ label = Last(loops)[which]
    IN  [cs EXCEPT !.cur.breaks = IF which = "break" THEN rest ELSE @,
                   !.cur.continues = IF which = "break" THEN @ ELSE rest,
                   !.cur.code = Append(@, Instruction("JUMP", label, which, 0)),
                   !.wrong = IF right THEN @ ELSE @ \cup {which}]

-----------------------------------------------------------------------------
(***************************************************************************)
(* Declarations.                                                           *)
(***************************************************************************)
\* compile_func.  The names of the parameters are strings of the enclosing
\* function's code; the parameters themselves are the first variables.
CompileFunc(cs, f) ==
    LET positional == SelectSeq(f.params, LAMBDA p : p.kind = "positional")
        Marker(kind) == IF \E i \in DOMAIN f.params : f.params[i].kind = kind
                        THEN String(Last(f.params).name) ELSE Null
        build == IF cs.outer = <<>> THEN "BUILD_FUNC" ELSE "BUILD_CLOSURE"
    IN  Plan(cs, [i \in DOMAIN positional |-> String(positional[i].name)]
                   \o <<OpN("BUILD_TUPLE", Len(positional)), Marker("variadic"), Marker("keyword"),
                        Open(f.params), Stmt(f.body), Op("RET"), Close, OpN(build, cs.count + 1)>>)

OpenFunc(cs, params) ==
    Plan(NewBuilder(cs), [i \in DOMAIN params |-> Declare(params[i].name)])

Methods(methods) ==
    FlattenSeq([i \in DOMAIN methods |-> <<Declaration(methods[i]), String(methods[i].name)>>])
      \o <<OpN("BUILD_DICT", Len(methods))>>

\* Methods, mixins and the base class, in this order.
CompileClass(cs, d) ==
    Plan(cs, Methods(d.methods) \o Exprs(d.mixins) \o <<OpN("BUILD_LIST", Len(d.mixins))>>
               \o (IF d.base = <<>> THEN <<OpName("LOAD_GLOBAL", "Object")>> ELSE Exprs(d.base))
               \o <<OpName("BUILD_CLASS", d.name)>>)

CompileEnum(cs, d) ==
    Plan(cs, Strings(d.values) \o <<OpN("BUILD_LIST", Len(d.values)), Op("BUILD_ENUM")>>)

CompileMixin(cs, d) == Plan(cs, Methods(d.methods) \o <<Op("BUILD_MIXIN")>>)

CompileDeclaration(cs, d) ==
    CASE d.t = "func"      -> CompileFunc(cs, d)
      [] d.t = "class"     -> CompileClass(cs, d)
      [] d.t = "enum"      -> CompileEnum(cs, d)
      [] d.t = "mixin"     -> CompileMixin(cs, d)
      [] d.t = "decorated" ->
           Plan(cs, <<Expr(d.decorator), Declaration(d.decl), OpN("INVOKE", 1)>>)

RECURSIVE DeclarationName(_)
DeclarationName(d) == IF d.t = "decorated" THEN DeclarationName(d.decl) ELSE d.name

-----------------------------------------------------------------------------
CompileExpr(cs, e) ==
    CASE e.t = "assign" -> CompileAssign(cs, e)
      [] e.t = "bin"    -> CompileBinop(cs, e)
      [] e.t = "unary"  -> CompileUnary(cs, e)
      [] e.t = "call"   -> CompileCall(cs, e)
      [] e.t = "macro"  -> CompileCallMacro(cs, e)
      [] e.t = "dict"   -> CompileDict(cs, e)
      [] e.t = "lambda" -> CompileFunc(cs, e)
      [] e.t = "tuple"  -> CompileTuple(cs, e)
      [] e.t = "index"  -> CompileIndexAccess(cs, e)
      [] e.t = "list"   -> CompileList(cs, e)
      [] e.t = "member" -> CompileMemberAccess(cs, e)
      [] e.t = "quote"  -> CompileQuote(cs, e)
      [] e.t = "bool"   -> CompileBool(cs, e)
      [] e.t = "int"    -> CompileInteger(cs, e)
      [] e.t = "string" -> CompileString(cs, e)
      [] e.t = "symbol" -> CompileSymbol(cs, e)
      [] e.t = "match"  -> CompileMatch(cs, e)
      [] e.t = "when"   -> CompileWhen(cs, e)

\* A declaration is stored under its name, which it does not declare.
CompileStmt(cs, s) ==
    CASE s.t \in {"break", "continue"} -> CompileLeap(cs, s.t)
      [] s.t = "for"    -> CompileFor(cs, s)
      [] s.t = "if"     -> CompileIf(cs, s)
      [] s.t = "return" -> CompileReturn(cs, s)
      [] s.t = "raise"  -> CompileRaise(cs, s)
      [] s.t = "let"    -> CompileLet(cs, s)
      [] s.t = "try"    -> CompileTry(cs, s)
      [] s.t = "use"    -> CompileUse(cs, s)
      [] s.t = "while"  -> CompileWhile(cs, s)
      [] s.t = "with"   -> CompileWith(cs, s)
      [] s.t = "block"  -> Plan(cs, Stmts(s.body))
      [] s.t \in {"func", "class", "enum", "mixin", "decorated"} ->
           Plan(cs, <<Declaration(s), Store(DeclarationName(s))>>)
      [] s.t = "empty"  -> cs
      [] OTHER -> Plan(cs, <<Expr(s), Op("POP")>>)

Do(cs, task) ==
    CASE task.do = "emit"    -> Emitted(cs, task.instruction)
      [] task.do = "expr"    -> CompileExpr(cs, task.node)
      [] task.do = "stmt"    -> CompileStmt(cs, task.node)
      [] task.do = "pattern" -> CompilePattern(cs, task.node, task.matchee)
      [] task.do = "value"   -> CompileMatchValue(cs, task.node)
      [] task.do = "case"    -> CompileCase(cs, task.node, task.matchee, task.end)
      [] task.do = "mark"    -> MarkLabel(cs, task.label)
      [] task.do = "declare" -> DeclareVar(cs, task.name)
      [] task.do = "store"   -> EmitStore(cs, task.name)
      [] task.do = "assign"  ->
           EmitStore(IF HasVar(cs, task.name) THEN cs ELSE DeclareVar(cs, task.name), task.name)
      [] task.do = "let"     ->
           IF HasVar(cs, task.name) THEN [cs EXCEPT !.panic = TRUE, !.todo = <<>>]
           ELSE EmitStore(DeclareVar(cs, task.name), task.name)
      [] task.do = "enter"   -> EnterLoop(cs, task.begin, task.end)
      [] task.do = "leave"   -> LeaveLoop(cs)
      [] task.do = "open"    -> OpenFunc(cs, task.params)
      [] task.do = "close"   -> Finalize(cs)
      [] task.do = "declaration" -> CompileDeclaration(cs, task.node)

\* GaAst_Compile: at first, after the first thing on the agenda, and with
\* nothing left to do.  built has the code objects of all functions; that of
\* the module is number 1.
Uncompiled(root) ==
    [cur |-> Builder(1, 0), outer |-> <<>>, built |-> <<>>, count |-> 1,
     wrong |-> {}, panic |-> FALSE, todo |-> <<Stmt(root), Op("RET")>>]
CompileNext(cs) == Do([cs EXCEPT !.todo = Tail(@)], Head(cs.todo))
Compilation(cs) == [built |-> Built(cs), wrong |-> cs.wrong, panic |-> cs.panic]

=============================================================================
