------------------------------ MODULE Machine ------------------------------
(***************************************************************************)
(* Compiled programs and their execution: slots, frames and the chains of  *)
(* frames that closures capture (vm.c, vm.h), on the code that Compile     *)
(* makes of a program.                                                     *)
(*                                                                         *)
(* A program is compiled, then run twice: first the code as generated,     *)
(* then, from the same initial state, the code as optimised.  Calls that   *)
(* raise end the program: handlers are the subject of Eval.                *)
(*                                                                         *)
(* phase, expected and the owners of cells are not variables of the        *)
(* program: which of the two runs this is, how the first one went, and     *)
(* whose variable the value of a cell was stored for.                      *)
(***************************************************************************)
EXTENDS Compile, Flow

CONSTANTS
    Programs,   \* syntax trees: [tree, runs], runs if it is also executed
    MaxOutput   \* bound on the values a program prints

ASSUME MachineAssumption == MaxOutput \in Nat

VARIABLES
    program, image,     \* a program, and the compilation of it: in
                        \* progress (cs), then its result
    phase,              \* "source", "compiled", "raw", "optimised"
    status,             \* of the run: "running", or how it ended
    frames,             \* every frame there was
    calls,              \* the calls in progress: vm->top and its parents
    globals,            \* the attributes of the module
    iters,              \* the iterators there are, on ranges
    output,             \* what was printed
    expected            \* the output and end of the first run

vars == <<program, image, phase, status, frames, calls, globals, iters,
          output, expected>>
machine == <<status, frames, calls, globals, iters, output>>

Raised == "raised"      \* an exception that nothing handles
Unbound == "unbound"    \* a load of a slot without a value: NULL is used
Stale == "stale"        \* a cell that was not cleared was looked at
Cut == "cut"            \* printed more than MaxOutput values

NullValue == <<"null", 0>>
NoExpectation == [output |-> <<>>, status |-> "none", promised |-> FALSE]

Init ==
    /\ program \in Programs
    /\ image = Uncompiled(program.tree)
    /\ phase = "source" /\ status = "none"
    /\ frames = <<>> /\ calls = <<>> /\ globals = <<>> /\ iters = <<>>
    /\ output = <<>> /\ expected = NoExpectation

-----------------------------------------------------------------------------
(***************************************************************************)
(* Frames.  GaFrame_NEW clears the cells below locals_end; what the others *)
(* hold is what the frame that had the memory before left there.  A call   *)
(* has a frame, its instruction and value stack, and the value of the last *)
(* statement.                                                              *)
(***************************************************************************)
CodeOf(f) == image.built[frames[f].code]
Text(id) == IF phase = "raw" THEN image.built[id].raw ELSE image.built[id].optimised

NewFrame(code, captive, args) ==
    LET start == image.built[code].start
    IN  [code |-> code, captive |-> captive,
         cells |-> [s \in start .. start + Len(args) - 1 |->
                       [val |-> args[s - start + 1], owner |-> code]]]

NewCall(f) == [frame |-> f, pc |-> 0, stack |-> <<>>, ret |-> NullValue]

Top == Last(calls)
Ins == Text(frames[Top.frame].code)[Top.pc + 1]
Fetches(ops) == status = "running" /\ Ins.op \in ops

\* The call goes on with the next instruction, a stack and a return value.
Proceed(stack) ==
    calls' = [calls EXCEPT ![Len(calls)] = [@ EXCEPT !.pc = @ + 1, !.stack = stack]]
Jump(stack, address) ==
    calls' = [calls EXCEPT ![Len(calls)] = [@ EXCEPT !.pc = address, !.stack = stack]]
Stop(how) == status' = how /\ UNCHANGED <<frames, calls, globals, iters, output>>

Popped(n) == SubSeq(Top.stack, 1, Len(Top.stack) - n)
Operand(n) == Top.stack[Len(Top.stack) + 1 - n]     \* the nth from the top

Begin ==
    /\ status' = "running"
    /\ frames' = <<NewFrame(1, 0, <<>>)>>
    /\ calls' = <<NewCall(1)>>
    /\ globals' = ("puts" :> <<"native", 0>>)
    /\ iters' = <<>> /\ output' = <<>>

\* Mutant: a closure's frame captures itself.
NewFramesCapturing(code, captive, args) ==
    /\ frames' = Append(frames, NewFrame(code, IF captive = 0 THEN 0 ELSE Len(frames) + 1, args))
    /\ calls' = Append([calls EXCEPT ![Len(calls)] =
                            [@ EXCEPT !.pc = @ + 1, !.stack = Popped(Len(args) + 1)]],
                       NewCall(Len(frames) + 1))

NewFrames(code, captive, args) ==
    /\ frames' = Append(frames, NewFrame(code, captive, args))
    /\ calls' = Append([calls EXCEPT ![Len(calls)] =
                            [@ EXCEPT !.pc = @ + 1, !.stack = Popped(Len(args) + 1)]],
                       NewCall(Len(frames) + 1))

-----------------------------------------------------------------------------
(***************************************************************************)
(* LOAD_FAST and STORE_FAST look for a cell with a value from the frame    *)
(* along the captured frames.  Holder is where they stop: at such a cell,  *)
(* at one that was never cleared, or nowhere (0).                          *)
(***************************************************************************)
Cleared(f, slot) == slot < CodeOf(f).end

RECURSIVE Holder(_, _)
Holder(f, slot) ==
    IF f = 0 THEN 0
    ELSE IF slot \in DOMAIN frames[f].cells \/ ~Cleared(f, slot) THEN f
    ELSE Holder(frames[f].captive, slot)

Here == Holder(Top.frame, Ins.n)

LoadFast ==
    /\ Fetches({"LOAD_FAST"})
    /\ Here # 0 => Cleared(Here, Ins.n)
    /\ IF Here = 0 THEN Stop(Unbound)
       ELSE /\ Proceed(Append(Top.stack, frames[Here].cells[Ins.n].val))
            /\ UNCHANGED <<status, frames, globals, iters, output>>
    /\ UNCHANGED <<program, image, phase, expected>>

StoreFast ==
    /\ Fetches({"STORE_FAST"})
    /\ Here # 0 => Cleared(Here, Ins.n)
    /\ LET f == IF Here = 0 THEN Top.frame ELSE Here
           cell == [val |-> Operand(1), owner |-> Ins.owner]
       IN  frames' = [frames EXCEPT ![f].cells = (Ins.n :> cell) @@ @]
    /\ Proceed(Popped(1))
    /\ UNCHANGED <<program, image, phase, status, globals, iters, output, expected>>

TouchStale ==
    /\ Fetches({"LOAD_FAST", "STORE_FAST"})
    /\ Here # 0 /\ ~Cleared(Here, Ins.n)
    /\ Stop(Stale)
    /\ UNCHANGED <<program, image, phase, expected>>

LoadGlobal ==
    /\ Fetches({"LOAD_GLOBAL"})
    /\ IF Ins.s \notin DOMAIN globals THEN Stop(Raised)
       ELSE /\ Proceed(Append(Top.stack, globals[Ins.s]))
            /\ UNCHANGED <<status, frames, globals, iters, output>>
    /\ UNCHANGED <<program, image, phase, expected>>

StoreGlobal ==
    /\ Fetches({"STORE_GLOBAL"})
    /\ globals' = (Ins.s :> Operand(1)) @@ globals
    /\ Proceed(Popped(1))
    /\ UNCHANGED <<program, image, phase, status, frames, iters, output, expected>>

-----------------------------------------------------------------------------
Literal(ins) ==
    CASE ins.op = "LOAD_TRUE"  -> <<"bool", TRUE>>
      [] ins.op = "LOAD_FALSE" -> <<"bool", FALSE>>
      [] ins.s = "null"        -> NullValue
      [] ins.s # ""            -> <<"string", ins.s>>
      [] OTHER                 -> <<"int", ins.n>>

\* GaObj_IS_TRUE, of the values there are here.
IsTrue(v) == v # <<"bool", FALSE>> /\ v # <<"int", 0>> /\ v # NullValue

\* The value of an operation on its operands, <<>> if it raises.
Binary(op, x, y) ==
    CASE op \in {"EQUALS", "MATCH"} -> <<"bool", x = y>>
      [] x[1] # "int" \/ y[1] # "int" -> <<>>
      [] op = "SUB"              -> <<"int", x[2] - y[2]>>
      [] op = "GREATER_THAN"     -> <<"bool", x[2] > y[2]>>
      [] op = "BUILD_RANGE_HALF" -> <<"range", x[2], y[2]>>

BinaryOps == {"EQUALS", "MATCH", "SUB", "GREATER_THAN", "BUILD_RANGE_HALF"}

\* Instructions that change nothing but the stack: how many operands they
\* replace and by what.
Stacks(ins) ==
    CASE ins.op \in {"LOAD_CONST", "LOAD_TRUE", "LOAD_FALSE"} -> <<0, <<Literal(ins)>>>>
      [] ins.op = "DUP" -> <<0, <<Operand(1)>>>>
      [] ins.op = "BUILD_TUPLE" -> <<ins.n, <<<<"tuple", ins.n>>>>>>
      [] ins.op = "BUILD_FUNC" -> <<3, <<<<"func", ins.n, 0, Operand(3)[2]>>>>>>
      [] ins.op = "BUILD_CLOSURE" -> <<3, <<<<"func", ins.n, Top.frame, Operand(3)[2]>>>>>>
      [] ins.op = "ITER_CUR" -> <<1, <<<<"int", iters[Operand(1)[2]][1]>>>>>>

StackOps == {"LOAD_CONST", "LOAD_TRUE", "LOAD_FALSE", "DUP", "BUILD_TUPLE",
             "BUILD_FUNC", "BUILD_CLOSURE", "ITER_CUR"}

Operate ==
    /\ Fetches(StackOps)
    /\ Proceed(Popped(Stacks(Ins)[1]) \o Stacks(Ins)[2])
    /\ UNCHANGED <<program, image, phase, status, frames, globals, iters, output, expected>>

Calculate ==
    /\ Fetches(BinaryOps)
    /\ LET v == Binary(Ins.op, Operand(2), Operand(1))
       IN  IF v = <<>> THEN Stop(Raised)
           ELSE /\ Proceed(Append(Popped(2), v))
                /\ UNCHANGED <<status, frames, globals, iters, output>>
    /\ UNCHANGED <<program, image, phase, expected>>

\* POP keeps the value: it is the result of a function that ends here.
PopValue ==
    /\ Fetches({"POP"})
    /\ calls' = [calls EXCEPT ![Len(calls)] =
                    [@ EXCEPT !.pc = @ + 1, !.stack = Popped(1), !.ret = Operand(1)]]
    /\ UNCHANGED <<program, image, phase, status, frames, globals, iters, output, expected>>

GetIter ==
    /\ Fetches({"GET_ITER"})
    /\ IF Operand(1)[1] # "range" THEN Stop(Raised)
       ELSE /\ iters' = Append(iters, <<Operand(1)[2] - 1, Operand(1)[3]>>)
            /\ Proceed(Append(Popped(1), <<"iter", Len(iters) + 1>>))
            /\ UNCHANGED <<status, frames, globals, output>>
    /\ UNCHANGED <<program, image, phase, expected>>

IterNext ==
    /\ Fetches({"ITER_NEXT"})
    /\ LET it == Operand(1)[2]
           more == iters[it][1] + 1 < iters[it][2]
       IN  /\ iters' = IF more THEN [iters EXCEPT ![it][1] = @ + 1] ELSE iters
           /\ Proceed(Append(Popped(1), <<"bool", more>>))
    /\ UNCHANGED <<program, image, phase, status, frames, globals, output, expected>>

-----------------------------------------------------------------------------
\* The jumps: which of them pop, which keep the value they jump on.
TakeJump ==
    /\ Fetches({"JUMP", "JUMP_IF_FALSE", "JUMP_DUP_IF_FALSE", "JUMP_DUP_IF_TRUE"})
    /\ CASE Ins.op = "JUMP" -> Jump(Top.stack, Ins.n)
         [] Ins.op = "JUMP_IF_FALSE" ->
              IF IsTrue(Operand(1)) THEN Proceed(Popped(1)) ELSE Jump(Popped(1), Ins.n)
         [] OTHER ->
              IF IsTrue(Operand(1)) = (Ins.op = "JUMP_DUP_IF_TRUE")
              THEN Jump(Top.stack, Ins.n) ELSE Proceed(Popped(1))
    /\ UNCHANGED <<program, image, phase, status, frames, globals, iters, output, expected>>

Callee == Operand(Ins.n + 1)
Arguments == [i \in 1..Ins.n |-> Operand(Ins.n + 1 - i)]

\* func_invoke, with the right number of arguments.
InvokeFunc ==
    /\ Fetches({"INVOKE"})
    /\ Callee[1] = "func" /\ Callee[4] = Ins.n
    /\ NewFrames(Callee[2], Callee[3], Arguments)
    /\ UNCHANGED <<program, image, phase, status, globals, iters, output, expected>>

\* puts, which stands for all that a program lets the outside see.
InvokeNative ==
    /\ Fetches({"INVOKE"})
    /\ Callee[1] = "native" /\ Ins.n = 1
    /\ IF Len(output) = MaxOutput THEN Stop(Cut)
       ELSE /\ output' = Append(output, Operand(1))
            /\ Proceed(Append(Popped(2), NullValue))
            /\ UNCHANGED <<status, frames, globals, iters>>
    /\ UNCHANGED <<program, image, phase, expected>>

InvokeFails ==
    /\ Fetches({"INVOKE"})
    /\ ~(Callee[1] = "func" /\ Callee[4] = Ins.n)
    /\ ~(Callee[1] = "native" /\ Ins.n = 1)
    /\ Stop(Raised)
    /\ UNCHANGED <<program, image, phase, expected>>

Return ==
    /\ Fetches({"RET"})
    /\ LET result == IF Top.stack = <<>> THEN Top.ret ELSE Operand(1)
           n == Len(calls)
       IN  IF n = 1 THEN Stop("ended")
           ELSE /\ calls' = [Front(calls) EXCEPT ![n - 1].stack = Append(@, result)]
                /\ UNCHANGED <<status, frames, globals, iters, output>>
    /\ UNCHANGED <<program, image, phase, expected>>

-----------------------------------------------------------------------------
(***************************************************************************)
(* What the code generator and the passes do not provide for.              *)
(***************************************************************************)
Codes == DOMAIN image.built

\* For the numbering of slots: a temporary of a function inside another one.
ClosureTemporaries ==
    \E c \in Codes : Len(image.built[c].chain) > 2 /\ image.built[c].temps > 0

\* For remove_unused_variables: a store that it drops although a load of the
\* variable may follow it, or another function has one.
LoadedElsewhere(c, ins) ==
    \E d \in Codes \ {c} : \E j \in DOMAIN image.built[d].raw :
        LET other == image.built[d].raw[j]
        IN  other.op = "LOAD_FAST" /\ other.n = ins.n /\ other.owner = ins.owner

DropsLiveStore ==
    \E c \in Codes : LET code == image.built[c].raw IN
        \E i \in DOMAIN code :
            /\ UnusedStore(code, code[i])
            /\ MayBeLoaded(code, i - 1, code[i].n) \/ LoadedElsewhere(c, code[i])

\* For optimize: a function ends with an assignment, whose value is its
\* result only as long as there is a POP, and some result is used.
LosesResult ==
    /\ \E c \in Codes \ {1} : LET code == image.built[c].raw IN
         \E at \in 0 .. Len(code) - 1 :
            Matches(code, at, <<"DUP", "*", "POP">>) /\ IsResult(code, at + 2)
    /\ \E c \in Codes : LET code == image.built[c].raw IN
         \E i \in DOMAIN code : code[i].op = "INVOKE" /\ code[i + 1].op # "POP"

\* The programs that behave the same after the passes: no store or result
\* that matters is dropped, and the first run did nothing undefined.
Promised ==
    /\ ~DropsLiveStore /\ ~LosesResult /\ ~ClosureTemporaries
    /\ status \in {"ended", Raised}

-----------------------------------------------------------------------------
CompileNode ==
    /\ phase = "source" /\ image.todo # <<>>
    /\ image' = CompileNext(image)
    /\ UNCHANGED <<program, phase, machine, expected>>

FinishCode ==
    /\ phase = "source" /\ image.todo = <<>>
    /\ image' = Compilation(image)
    /\ phase' = "compiled"
    /\ UNCHANGED <<program, machine, expected>>

RunRaw ==
    /\ phase = "compiled" /\ program.runs /\ ~image.panic
    /\ phase' = "raw"
    /\ Begin
    /\ UNCHANGED <<program, image, expected>>

RunOptimised ==
    /\ phase = "raw" /\ status # "running"
    /\ phase' = "optimised"
    /\ expected' = [output |-> output, status |-> status, promised |-> Promised]
    /\ Begin
    /\ UNCHANGED <<program, image>>

Step ==
    \/ LoadFast \/ StoreFast \/ TouchStale \/ LoadGlobal \/ StoreGlobal
    \/ Operate \/ Calculate \/ PopValue \/ GetIter \/ IterNext \/ TakeJump
    \/ InvokeFunc \/ InvokeNative \/ InvokeFails \/ Return

Next == CompileNode \/ FinishCode \/ RunRaw \/ RunOptimised \/ Step

\* The interpreter goes on as long as there is an instruction.
Spec == Init /\ [][Next]_vars /\ WF_vars(Step)

-----------------------------------------------------------------------------
(***************************************************************************)
(* Properties.                                                             *)
(***************************************************************************)
Kinds == {"null", "int", "bool", "string", "func", "native", "iter", "range", "tuple"}

\* Types of the state, and where captured frames are.
TypeOK ==
    /\ phase \in {"source", "compiled", "raw", "optimised"}
    /\ status \in {"none", "running", "ended", Raised, Unbound, Stale, Cut}
    /\ Len(output) <= MaxOutput
    /\ \A f \in DOMAIN frames :
        /\ frames[f].captive \in 0 .. f - 1
        /\ \A s \in DOMAIN frames[f].cells : frames[f].cells[s].val[1] \in Kinds
    /\ \A c \in DOMAIN calls : calls[c].frame \in DOMAIN frames

Compiled == phase = "compiled" /\ ~image.panic

\* The parts of a statement or expression that may hold loops, and the
\* functions in it.
Parts(s) ==
    CASE s.t \in {"for", "while", "with", "func", "lambda"} -> <<s.body>>
      [] s.t = "if"     -> <<s.yes>> \o s.no
      [] s.t = "try"    -> <<s.body, s.handler>>
      [] s.t = "block"  -> s.body
      [] s.t = "match"  -> [i \in DOMAIN s.cases |-> s.cases[i].value]
      [] s.t = "assign" -> <<s.right>>
      [] s.t = "bin"    -> <<s.left, s.right>>
      [] s.t = "call"   -> s.args
      [] OTHER -> <<>>

RECURSIVE Functions(_)
Functions(s) ==
    UNION {Functions(Parts(s)[i]) : i \in DOMAIN Parts(s)}
        \cup (IF s.t \in {"func", "lambda"} THEN {s.body} ELSE {})

\* The loops and leaps of a function in the order of the text.
RECURSIVE Leaps(_, _)
Leaps(s, which) ==
    LET inner == FlattenSeq([i \in DOMAIN Parts(s) |-> Leaps(Parts(s)[i], which)])
    IN  CASE s.t \in {"for", "while"} -> <<"(">> \o inner \o <<")">>
          [] s.t = which -> <<which>>
          [] s.t \in {"func", "lambda"} -> <<>>
          [] OTHER -> inner

\* A leap can only be right if its loop is the innermost one around it, has
\* not been left by a leap of the same sort before, and if no loop inside it
\* ended without such a leap.  open has, for each loop around a place, whether
\* a leap there would be right.
EachLoopLeftOnce(text) ==
    LET Scan(st, x) ==
          CASE x = "(" -> [st EXCEPT !.open = Append(@, TRUE)]
            [] x = ")" -> [st EXCEPT !.open = IF Last(@) THEN [i \in 1..Len(@) - 1 |-> FALSE]
                                              ELSE Front(@)]
            [] OTHER   -> [open |-> IF st.open = <<>> THEN <<>> ELSE Append(Front(st.open), FALSE),
                           ok |-> st.ok /\ st.open # <<>> /\ Last(st.open)]
    IN  FoldLeft(Scan, [open |-> <<>>, ok |-> TRUE], text).ok

\* Each break and continue leads out of, or to the start of, the loop it is
\* in, exactly in the programs in which each loop is left at most once, and
\* the inner ones before the outer ones.  (compile_stmt, with label stacks
\* that loops push and only leaps pop.)
LeapsReachTheirLoop ==
    Compiled => \A which \in {"break", "continue"} :
        which \notin image.wrong <=>
            \A body \in {program.tree} \cup Functions(program.tree) : EachLoopLeftOnce(Leaps(body, which))

\* Before and after the passes of builder_finalize, every path through the
\* code of every function stays inside it, takes only values that are on the
\* stack, and finds as many as on every other path to the same instruction.
CodeIsWellFormed ==
    Compiled => \A c \in Codes :
        WellFormed(image.built[c].raw) /\ WellFormed(image.built[c].optimised)

\* Where the frame that declares the variable of an instruction has a value
\* for it.
OwnerHasIt(f) == frames[f].code = Ins.owner /\ Ins.n \in DOMAIN frames[f].cells

RECURSIVE Chain(_)
Chain(f) == IF f = 0 THEN {} ELSE {f} \cup Chain(frames[f].captive)

\* A load or store of a variable finds the cell of that variable: in the frame
\* of the function that declares it, if it has a value there, and never a
\* value stored for another variable, nor memory that was not cleared.  This
\* is not promised if a function inside another one needs temporaries.
\* (builder_declare_var, builder_new, LOAD_FAST, STORE_FAST, GaFrame_NEW.)
FindsOwnCell ==
    /\ Cleared(Here, Ins.n)
    /\ frames[Here].cells[Ins.n].owner = Ins.owner
    /\ (\E f \in Chain(Top.frame) : OwnerHasIt(f)) => OwnerHasIt(Here)

VariablesApart ==
    (Fetches({"LOAD_FAST", "STORE_FAST"}) /\ ~ClosureTemporaries) => (Here # 0 => FindsOwnCell)

\* The optimised code prints what the generated code printed, and ends the
\* same way.  (optimize, remove_unused_variables, remove_noops.)
OptimisedRunAgrees ==
    phase = "optimised" /\ expected.promised =>
        /\ IsPrefix(output, expected.output)
        /\ status \in {"running", expected.status}
        /\ status # "running" => output = expected.output

\* And it does end.
OptimisedRunEnds ==
    phase = "optimised" /\ expected.promised ~> phase = "optimised" /\ status # "running"

=============================================================================
