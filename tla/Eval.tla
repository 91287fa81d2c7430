-------------------------------- MODULE Eval --------------------------------
(***************************************************************************)
(* The control stack of the bytecode interpreter (vm.c, GaEval_ExecFrame   *)
(* and GaEval_RaiseException): stack frames, calls and their results,      *)
(* exceptions, `with' statements and returns.                              *)
(*                                                                         *)
(* The program that runs is any program the compiler can emit: each frame  *)
(* is somewhere inside a nest of statements, and every instruction that    *)
(* the code generator may place there can come next.  Values are           *)
(* abstracted to what the interpreter tells apart, an object or the C      *)
(* pointer NULL ("null"), which is what a call that raised evaluates to.   *)
(*                                                                         *)
(* nest, depth, leftTry, leftWith and faults are not variables of the      *)
(* program.  nest and depth are what the compiler knew when it placed the  *)
(* instruction: the enclosing statements and how many temporaries are on   *)
(* the value stack.  The others record what has happened on the way.       *)
(***************************************************************************)
EXTENDS Integers, Sequences, SequencesExt, FiniteSets, FiniteSetsExt

CONSTANTS
    HandlerMax,     \* VM_EXCEPTION_HANDLER_MAX
    Kinds,          \* the kinds of instruction that may run other code
    Blocks,         \* the statements a program uses: "try", "with", "loop"
    MaxFrames,      \* bound on the frames alive at once
    MaxNest,        \* bound on the statements nested in one another
    MaxDepth,       \* bound on the temporaries of an expression
    MaxStack,       \* bound on the value stack of a frame
    MaxDispose      \* bound on the disposable stack of a frame

\* The instructions during which other code may run, by what they do with it.
AllKinds ==
    {"invoke",      \* INVOKE of a function, GET_ITER, ITER_CUR, LOAD_INDEX, ...
     "native",      \* INVOKE of C code that may call back any number of times
     "operator",    \* ADD, SUB, ..., BUILD_RANGE_HALF
     "truth",       \* EQUALS, LESS_THAN, MATCH, ITER_NEXT, NOT, NEGATE, ...
     "store",       \* STORE_INDEX, STORE_ATTRIBUTE
     "build",       \* BUILD_DICT, which compares keys
     "enter",       \* BEGIN_WITH
     "exit"}        \* END_WITH

\* The statements that enclose others and leave something to undo.
AllBlocks == {"try", "with", "loop"}

ASSUME EvalAssumption ==
    /\ Kinds \subseteq AllKinds
    /\ Blocks \subseteq AllBlocks
    /\ HandlerMax \in Nat /\ MaxFrames \in Nat \ {0} /\ MaxNest \in Nat
    /\ MaxDepth \in Nat /\ MaxStack \in Nat /\ MaxDispose \in Nat

VARIABLES
    frames,     \* the frames from the first one called to vm->top
    unhandled,  \* vm->unhandled_exception
    faults      \* which of the interpreter's known weak spots were met so far

vars == <<frames, unhandled, faults>>

Values == {"val", "null"}
Nests == Seq(AllBlocks)

(***************************************************************************)
(* A stack frame.  An exception handler is a code address; it is           *)
(* represented by the nest of statements its except clause is in.  An      *)
(* entry of the disposable stack is represented by the nest its `with'     *)
(* statement is in.  pending holds one handler or none.                    *)
(***************************************************************************)
Frame ==
    [stack : Seq(Values), depth : Nat, retval : {"none", "val", "null"},
     nest : Nests, handlers : Seq(Nests), pending : Seq(Nests),
     disposable : Seq(Nests),
     interrupt : {"no", "raise", "return", "panic"},
     fast : BOOLEAN,                \* the next instruction is not guarded
     doing : AllKinds \cup {"run"}, \* the instruction in progress, if any
     got : {"nothing", "val", "null"},   \* what the code it ran returned
     leftTry : BOOLEAN, leftWith : BOOLEAN]

\* GaFrame_NEW and the first lines of GaEval_ExecFrame.
NewFrame ==
    [stack |-> <<>>, depth |-> 0, retval |-> "none", nest |-> <<>>,
     handlers |-> <<>>, pending |-> <<>>, disposable |-> <<>>,
     interrupt |-> "no", fast |-> FALSE, doing |-> "run", got |-> "nothing",
     leftTry |-> FALSE, leftWith |-> FALSE]

Faults == {"panic", "null result", "failed constructor", "missed interrupt"}

\* Types of the state, and the bounds of the stacks that the code does check.
TypeOK ==
    /\ frames \in Seq(Frame)
    /\ unhandled \in BOOLEAN
    /\ faults \subseteq Faults
    /\ \A i \in DOMAIN frames :
        /\ Len(frames[i].handlers) <= HandlerMax
        /\ Len(frames[i].pending) <= 1

Init ==
    /\ frames = <<>>
    /\ unhandled = FALSE
    /\ faults = {}

-----------------------------------------------------------------------------
(***************************************************************************)
(* The running frame and the conditions under which it takes a step.       *)
(***************************************************************************)
Top == frames[Len(frames)]

WithTop(f) == [frames EXCEPT ![Len(frames)] = f]

SetTop(f) == frames' = WithTop(f)

\* The stacks are as deep as the compiler made them for the instruction.
Sound(f) == Len(f.stack) >= f.depth

\* The frame fetches an instruction: its interrupt flag is clear, or the
\* instruction before ended with NEXT_INSTRUCTION_FAST, which does not look.
Fetches ==
    /\ frames # <<>>
    /\ Top.doing = "run"
    /\ Top.interrupt = "no" \/ Top.fast
    /\ Sound(Top)

\* The same, between two statements.
AtStatement == Fetches /\ Top.depth = 0

\* An instruction that runs although an exception is on its way.
NoteMissed ==
    faults' = faults \cup
        (IF Top.interrupt # "no" THEN {"missed interrupt"} ELSE {})

\* Sets the interrupt flag of a frame for a reason, unless it is set already.
Interrupted(f, why) ==
    [f EXCEPT !.interrupt = IF f.interrupt = "no" THEN why ELSE f.interrupt]

Pop(s, n) == SubSeq(s, 1, Len(s) - n)

\* The statements of some kind that are open in a nest, each represented by
\* the nest it is in.
Open(nest, block) ==
    {SubSeq(nest, 1, k - 1) : k \in {l \in DOMAIN nest : nest[l] = block}}

-----------------------------------------------------------------------------
(***************************************************************************)
(* GaEval_RaiseException: every frame from the top down that has no        *)
(* exception handler is interrupted; the first one that has a handler is   *)
(* interrupted too and will jump to it.  If there is none, the exception   *)
(* is reported and the flag unhandled_exception stays set.                 *)
(***************************************************************************)
\* Mutant: the search starts at the frame that was called first.
IsOutermostCatcher(fs, j) ==
    /\ j = 0 => \A i \in DOMAIN fs : fs[i].handlers = <<>>
    /\ j # 0 => fs[j].handlers # <<>>
    /\ \A i \in DOMAIN fs : i < j => fs[i].handlers = <<>>

IsCatcher(fs, j) ==
    /\ j # 0 => fs[j].handlers # <<>>
    /\ \A i \in DOMAIN fs : i > j => fs[i].handlers = <<>>

\* Mutant: frames the exception passes are not interrupted.
PassedUntouched(f) == f

Passed(f) == Interrupted(f, "raise")

\* Mutant: the handler stays on the exception stack.
CatchingKept(f) ==
    [Interrupted(f, "raise") EXCEPT !.pending = <<Last(f.handlers)>>]

Catching(f) ==
    [Interrupted(f, "raise") EXCEPT !.pending = <<Last(f.handlers)>>,
                                    !.handlers = Front(f.handlers)]

\* Mutant: the callers the exception passes are not interrupted.
RaiseThroughTopOnly(fs) ==
    \E j \in 0..Len(fs) :
        /\ IsCatcher(fs, j)
        /\ frames' = [i \in DOMAIN fs |->
                        IF i = j THEN Catching(fs[i])
                        ELSE IF i = Len(fs) THEN Passed(fs[i])
                        ELSE fs[i]]
        /\ unhandled' = (unhandled \/ j = 0)

Raise(fs) ==
    \E j \in 0..Len(fs) :
        /\ IsCatcher(fs, j)
        /\ frames' = [i \in DOMAIN fs |->
                        IF i > j THEN Passed(fs[i])
                        ELSE IF i = j THEN Catching(fs[i])
                        ELSE fs[i]]
        /\ unhandled' = (unhandled \/ j = 0)

-----------------------------------------------------------------------------
(***************************************************************************)
(* Instructions that only move values.  They end with                      *)
(* NEXT_INSTRUCTION_FAST: the flag `fast' stays as it is.                  *)
(***************************************************************************)
\* LOAD_CONST, LOAD_FAST, LOAD_TRUE, BUILD_FUNC, DUP and the like.
Load ==
    /\ Fetches
    /\ Top.depth < MaxDepth /\ Len(Top.stack) < MaxStack
    /\ SetTop([Top EXCEPT !.stack = Append(@, "val"), !.depth = @ + 1])
    /\ NoteMissed
    /\ UNCHANGED unhandled

\* POP ends an expression statement, STORE_FAST and STORE_GLOBAL an assignment.
PopValue(keep) ==
    /\ Fetches
    /\ Top.depth = 1
    /\ SetTop([Top EXCEPT !.stack = Front(@), !.depth = 0,
                          !.retval = IF keep THEN Last(Top.stack) ELSE @])
    /\ NoteMissed
    /\ UNCHANGED unhandled

-----------------------------------------------------------------------------
(***************************************************************************)
(* Instructions that run other code.  Begin takes the operands off the     *)
(* stack; then the code runs; then Finish uses its result.  Some           *)
(* instructions leave an operand when the code fails: the attribute of an  *)
(* object that has none, an INVOKE_AND_UNPACK, which calls several times,  *)
(* NEGATE and NOT.  Those leftovers are left out, so that a stack may be   *)
(* deeper than here after a failure, and never less deep.                  *)
(***************************************************************************)
Operands(kind) ==
    CASE kind \in {"operator", "build"} -> 2
      [] kind = "exit" -> 0
      [] OTHER -> 1

\* What the compiler expects the instruction to leave on the stack.
Yields(kind) == IF kind \in {"store", "enter", "exit"} THEN 0 ELSE 1

\* What it does leave there when the code it ran evaluates to got.
Pushed(kind, got) ==
    CASE kind \in {"store", "enter", "exit"} -> <<>>
      [] kind = "operator" -> <<got>>
      [] kind \in {"truth", "build"} -> <<"val">>
      [] OTHER -> IF got = "null" THEN <<>> ELSE <<"val">>

Begin(kind) ==
    /\ kind \notin {"enter", "exit"}
    /\ Fetches
    /\ Top.depth >= Operands(kind)
    /\ SetTop([Top EXCEPT !.stack = Pop(@, Operands(kind)),
                          !.depth = @ - Operands(kind),
                          !.doing = kind, !.got = "nothing", !.fast = FALSE])
    /\ NoteMissed
    /\ UNCHANGED unhandled

\* C code that may go on calling whatever the last call did.
CallsAgain(kind) == kind \in {"native", "build"}

\* The instruction in progress runs a Gallium function (func_invoke).
CallFunction ==
    /\ frames # <<>> /\ Len(frames) < MaxFrames
    /\ Top.doing # "run"
    /\ Top.got = "nothing" \/ CallsAgain(Top.doing)
    /\ frames' = Append(frames, NewFrame)
    /\ UNCHANGED <<unhandled, faults>>

\* The instruction in progress raises by itself; a C function then returns.
NativeRaises ==
    /\ frames # <<>>
    /\ Top.doing # "run"
    /\ Top.got = "nothing" \/ CallsAgain(Top.doing)
    /\ Raise(WithTop([Top EXCEPT
            !.got = "null",
            !.doing = IF @ = "native" THEN "invoke" ELSE @]))
    /\ UNCHANGED faults

(***************************************************************************)
(* What the C code of the instruction returns: the result of the call it   *)
(* made.  C code that ignores the failure of a call may return an object   *)
(* after all, and the constructor of a class fails whenever an exception   *)
(* has gone unhandled, however long ago (class.c).                         *)
(***************************************************************************)
Results(f) ==
    (IF f.got = "null" THEN {"null"} ELSE {"val"})
    \cup (IF f.doing = "native" THEN {"val"} ELSE {})
    \cup (IF f.doing = "native" /\ unhandled THEN {"null"} ELSE {})

Finish(res) ==
    /\ frames # <<>>
    /\ Top.doing \notin {"run", "enter", "exit"}
    /\ res \in Results(Top)
    /\ SetTop([Top EXCEPT !.stack = @ \o Pushed(Top.doing, res),
                          !.depth = @ + Yields(Top.doing),
                          !.doing = "run", !.got = "nothing",
                          !.fast = Top.doing = "build"
                                   /\ Top.interrupt # "no"])
    /\ faults' = faults \cup
            (IF res = "null" /\ Top.got # "null" THEN {"failed constructor"}
             ELSE {})
    /\ UNCHANGED unhandled

-----------------------------------------------------------------------------
(***************************************************************************)
(* Statements.                                                             *)
(***************************************************************************)
CanNest(block) == block \in Blocks /\ Len(Top.nest) < MaxNest

Innermost(block) == Top.nest # <<>> /\ Last(Top.nest) = block

\* Mutant: the bound of the exception stack is off by one.
HandlerRoomOffByOne(f) == Len(f.handlers) <= HandlerMax

HandlerRoom(f) == Len(f.handlers) < HandlerMax

\* PUSH_EXCEPTION_HANDLER.  The bound is checked: vm_panic interrupts the
\* frame without raising anything.
EnterTry ==
    /\ AtStatement /\ CanNest("try")
    /\ HandlerRoom(Top)
    /\ SetTop([Top EXCEPT !.handlers = Append(@, Top.nest),
                          !.nest = Append(@, "try"), !.fast = FALSE])
    /\ NoteMissed
    /\ UNCHANGED unhandled

EnterTryPanics ==
    /\ AtStatement /\ CanNest("try")
    /\ ~HandlerRoom(Top)
    /\ SetTop([Interrupted(Top, "panic") EXCEPT !.fast = FALSE])
    /\ faults' = faults \cup {"panic"}
    /\ UNCHANGED unhandled

\* POP_EXCEPTION_HANDLER at the end of the protected statements.
LeaveTry ==
    /\ AtStatement /\ Innermost("try")
    /\ Top.handlers # <<>>
    /\ SetTop([Top EXCEPT !.handlers = Front(@), !.nest = Front(@),
                          !.fast = FALSE])
    /\ NoteMissed
    /\ UNCHANGED unhandled

\* RAISE.
RaiseStmt ==
    /\ Fetches
    /\ Top.depth = 1
    /\ NoteMissed
    /\ Raise(WithTop([Top EXCEPT !.stack = Front(@), !.depth = 0,
                                 !.fast = FALSE]))

\* BEGIN_WITH up to its call of GaObj_ENTER, and what follows the call.
BeginWith ==
    /\ Fetches /\ CanNest("with")
    /\ Top.depth = 1
    /\ unhandled \/ Len(Top.disposable) < MaxDispose
    /\ SetTop([Top EXCEPT !.stack = Front(@), !.depth = 0, !.doing = "enter",
                          !.got = "nothing", !.fast = FALSE])
    /\ NoteMissed
    /\ UNCHANGED unhandled

BeginWithEntered ==
    /\ frames # <<>>
    /\ Top.doing = "enter"
    /\ SetTop([Top EXCEPT
            !.disposable = IF unhandled THEN @ ELSE Append(@, Top.nest),
            !.nest = Append(@, "with"), !.doing = "run", !.got = "nothing"])
    /\ UNCHANGED <<unhandled, faults>>

\* Mutant: END_WITH leaves its object on the disposable stack.
DisposedKept(s) == s

Disposed(s) == Front(s)

\* END_WITH up to its call of GaObj_EXIT, and what follows the call.
EndWith ==
    /\ AtStatement /\ Innermost("with")
    /\ Top.disposable # <<>>
    /\ SetTop([Top EXCEPT !.disposable = Disposed(@), !.nest = Front(@),
                          !.doing = "exit", !.got = "nothing", !.fast = FALSE])
    /\ NoteMissed
    /\ UNCHANGED unhandled

EndWithExited ==
    /\ frames # <<>>
    /\ Top.doing = "exit"
    /\ SetTop([Top EXCEPT !.doing = "run", !.got = "nothing"])
    /\ UNCHANGED <<unhandled, faults>>

\* The condition of a loop holds, or fails and the loop is over.
EnterLoop ==
    /\ AtStatement /\ CanNest("loop")
    /\ SetTop([Top EXCEPT !.nest = Append(@, "loop")])
    /\ NoteMissed
    /\ UNCHANGED unhandled

LeaveLoop ==
    /\ AtStatement /\ Innermost("loop")
    /\ SetTop([Top EXCEPT !.nest = Front(@)])
    /\ NoteMissed
    /\ UNCHANGED unhandled

-----------------------------------------------------------------------------
(***************************************************************************)
(* Jumps that leave statements behind.                                     *)
(***************************************************************************)
\* The frame f, moved to the nest at without ending what is open beyond it.
Abandon(f, at) ==
    [f EXCEPT !.nest = at,
              !.leftTry = @ \/ Open(f.nest, "try") # Open(at, "try"),
              !.leftWith = @ \/ Open(f.nest, "with") # Open(at, "with")]

(***************************************************************************)
(* break and continue: a JUMP out of everything inside the innermost loop. *)
(* The handlers and the disposable objects of what is left stay.           *)
(***************************************************************************)
Break(continues) ==
    /\ AtStatement
    /\ \E k \in DOMAIN Top.nest :
        /\ Top.nest[k] = "loop"
        /\ \A l \in DOMAIN Top.nest : l > k => Top.nest[l] # "loop"
        /\ SetTop([Abandon(Top, SubSeq(Top.nest, 1,
                                      IF continues THEN k ELSE k - 1))
                    EXCEPT !.fast = FALSE])
    /\ NoteMissed
    /\ UNCHANGED unhandled

(***************************************************************************)
(* A frame that finds its interrupt flag set with a handler pending clears *)
(* both and jumps there.  The value stack is not cut back to what it was   *)
(* at the try statement.  The handler starts between two statements, where *)
(* the compiler takes the stack to be empty; LOAD_EXCEPTION and the store  *)
(* after it leave it as it was.                                            *)
(***************************************************************************)
Notices == frames # <<>> /\ Top.doing = "run" /\ Top.interrupt # "no" /\ ~Top.fast

Catch ==
    /\ Notices
    /\ Top.pending # <<>>
    /\ SetTop([Abandon(Top, Top.pending[1]) EXCEPT
            !.depth = 0, !.pending = <<>>, !.interrupt = "no",
            !.leftTry = Top.leftTry])
    /\ UNCHANGED <<unhandled, faults>>

(***************************************************************************)
(* RET: at the end of a return statement, where the value is on the stack, *)
(* or of the function, where the stack should be empty and return_val is   *)
(* the value of the last expression statement, if any.                     *)
(***************************************************************************)
\* Mutant: a function without any expression statement returns nothing.
ReturnValueNoDefault(f) == IF f.stack # <<>> THEN Last(f.stack) ELSE f.retval

ReturnValue(f) ==
    IF f.stack # <<>> THEN Last(f.stack)
    ELSE IF f.retval = "none" THEN "val" ELSE f.retval

Return ==
    /\ Fetches
    /\ Top.depth = 1 \/ (Top.depth = 0 /\ Top.nest = <<>>)
    /\ SetTop([Interrupted(Top, "return") EXCEPT
                    !.stack = IF @ = <<>> THEN @ ELSE Front(@), !.depth = 0,
                    !.retval = ReturnValue(Top), !.fast = FALSE])
    /\ faults' = faults
            \cup (IF Top.interrupt # "no" THEN {"missed interrupt"} ELSE {})
            \cup (IF ReturnValue(Top) = "null" THEN {"null result"} ELSE {})
    /\ UNCHANGED unhandled

\* What GaEval_ExecFrame returns: return_val, whatever ended the frame.
Result(f) == IF f.retval = "val" THEN "val" ELSE "null"

(***************************************************************************)
(* A frame that finds its interrupt flag set with no handler pending drops *)
(* its stack and returns to the C code that runs on behalf of its caller.  *)
(***************************************************************************)
Leave ==
    /\ Notices
    /\ Top.pending = <<>>
    /\ frames' = IF Len(frames) = 1 THEN <<>>
                 ELSE [Front(frames) EXCEPT ![Len(frames) - 1].got = Result(Top)]
    /\ UNCHANGED <<unhandled, faults>>

\* The interpreter is asked to run a program: a file, or a line of the REPL.
Start ==
    /\ frames = <<>>
    /\ frames' = <<NewFrame>>
    /\ UNCHANGED <<unhandled, faults>>

(***************************************************************************)
(* The stacks hold less than the instruction takes from them.  What the    *)
(* program does from here on is undefined.                                 *)
(***************************************************************************)
Undefined ==
    /\ frames # <<>>
    /\ Top.doing = "run"
    /\ Top.interrupt = "no" \/ Top.fast
    /\ \/ ~Sound(Top)
       \/ Top.depth = 0 /\ Innermost("try") /\ Top.handlers = <<>>
       \/ Top.depth = 0 /\ Innermost("with") /\ Top.disposable = <<>>
    /\ UNCHANGED vars

Next ==
    \/ Start \/ Load \/ \E keep \in BOOLEAN : PopValue(keep)
    \/ \E kind \in Kinds : Begin(kind)
    \/ CallFunction \/ NativeRaises \/ \E res \in Values : Finish(res)
    \/ EnterTry \/ EnterTryPanics \/ LeaveTry \/ RaiseStmt
    \/ BeginWith \/ BeginWithEntered \/ EndWith \/ EndWithExited
    \/ EnterLoop \/ LeaveLoop \/ \E continues \in BOOLEAN : Break(continues)
    \/ Catch \/ Return \/ Leave \/ Undefined

Spec == Init /\ [][Next]_vars

-----------------------------------------------------------------------------
(***************************************************************************)
(* Properties.                                                             *)
(***************************************************************************)
\* Where the frame is, or will be when the pending exception is caught.
Place(f) == IF f.pending = <<>> THEN f.nest ELSE f.pending[1]

(***************************************************************************)
(* An exception on its way finds the frames below it ready.  The caller of *)
(* a frame that unwinds is interrupted by an exception too, so that it     *)
(* will unwind or jump to its handler when the call returns; and if the    *)
(* first frame unwinds the exception has been reported (vm.c,              *)
(* GaEval_RaiseException).                                                 *)
(***************************************************************************)
UnwindHasTarget ==
    \A i \in DOMAIN frames :
        frames[i].interrupt = "raise" /\ frames[i].pending = <<>>
            => IF i = 1 THEN unhandled ELSE frames[i - 1].interrupt = "raise"

(***************************************************************************)
(* The exception stack of a frame follows its try statements: it holds the *)
(* handlers of those the frame is in, in order, and nothing else unless a  *)
(* break or continue jumped out of one (compile_try_stmt pairs the pushes  *)
(* with the pops, GaEval_RaiseException takes the handler it jumps to).    *)
(***************************************************************************)
\* The entries of a stack at some of its places are the statements of a kind
\* that are open in a nest, outermost first.
Follows(stack, places, nest, block) ==
    /\ {stack[i] : i \in places} = Open(nest, block)
    /\ \A i, j \in places : i < j => Len(stack[i]) < Len(stack[j])

HandlersFollow(f) ==
    \E places \in SUBSET DOMAIN f.handlers :
        /\ Follows(f.handlers, places, Place(f), "try")
        /\ ~f.leftTry => places = DOMAIN f.handlers

TriesMatchHandlers ==
    "missed interrupt" \notin faults =>
        \A i \in DOMAIN frames : HandlersFollow(frames[i])

(***************************************************************************)
(* The disposable stack of a frame follows its with statements, unless one *)
(* was left by a jump or an exception or the interpreter has reported an   *)
(* exception: END_WITH then finds the object BEGIN_WITH put there.         *)
(***************************************************************************)
WithsMatchDisposables ==
    ~unhandled /\ "missed interrupt" \notin faults =>
        \A i \in DOMAIN frames :
            LET f == frames[i]
            IN  ~f.leftWith
                    => Follows(f.disposable, DOMAIN f.disposable, f.nest, "with")

(***************************************************************************)
(* A running frame has on its value stack at least the temporaries that    *)
(* the compiled code will take from it: a call that returned NULL and      *)
(* pushed nothing has interrupted its caller.  That fails only after one   *)
(* of the faults: a frame that panicked, a function that returned the NULL *)
(* a failed operator had left on its stack, a constructor that fails on    *)
(* account of an old exception, an instruction that ran in spite of the    *)
(* interrupt flag.                                                         *)
(***************************************************************************)
StackCoversDepth ==
    faults = {} => \A i \in DOMAIN frames :
        frames[i].interrupt = "no" => Sound(frames[i])

(***************************************************************************)
(* An exception is caught by the youngest frame that is in a try           *)
(* statement, at the innermost one, or else reported: what the raise finds *)
(* by looking at the exception stacks.  Jumps out of try statements apart, *)
(* and unless another exception is on its way already.                     *)
(***************************************************************************)
Longest(nests) == CHOOSE n \in nests : \A o \in nests : Len(o) <= Len(n)

Quiet == \A i \in DOMAIN frames : frames[i].interrupt # "raise"

CaughtByInnermost ==
    LET raised == \E i \in DOMAIN frames' : frames'[i].interrupt = "raise"
        open(i) == Open(frames[i].nest, "try")
        able == {i \in DOMAIN frames : open(i) # {}}
        jumped == \E i \in DOMAIN frames : frames[i].leftTry
    IN  Quiet /\ raised /\ ~jumped /\ "missed interrupt" \notin faults
        => IF able = {} THEN unhandled'
           ELSE frames'[Max(able)].pending = <<Longest(open(Max(able)))>>

ExceptionsCaughtByInnermost == [][CaughtByInnermost]_vars

(***************************************************************************)
(* Unless C code goes on calling after a call has failed (instructions of  *)
(* the kinds "native" and "build"), one exception is on its way at a time: *)
(* no second one overtakes it and takes the handler of an outer try.       *)
(***************************************************************************)
OneExceptionAtATime ==
    \A i, j \in DOMAIN frames :
        frames[i].pending # <<>> /\ frames[j].pending # <<>> => i = j

\* The interpreter keeps executing: GaEval_ExecFrame is a loop that nothing
\* suspends.
FairSpec == Spec /\ WF_vars(Next)

(***************************************************************************)
(* An exception that was raised is settled: the frames it interrupted      *)
(* return one after the other until one has jumped to its handler or the   *)
(* program is over, unless C code keeps calling in between.                *)
(***************************************************************************)
OnItsWay == \E i \in DOMAIN frames : frames[i].interrupt = "raise"

ExceptionsSettle == OnItsWay ~> ~OnItsWay

-----------------------------------------------------------------------------
(***************************************************************************)
(* What comments in the source say of the interpreter.                     *)
(***************************************************************************)
(***************************************************************************)
(* vm.c says of NEXT_INSTRUCTION_FAST, which does not look at the          *)
(* interrupt flag: "Should only be used by instructions that will not      *)
(* raise an exception".                                                    *)
(***************************************************************************)
FastInstructionsDoNotRaise ==
    \A i \in DOMAIN frames : frames[i].fast => frames[i].interrupt = "no"

(***************************************************************************)
(* vm.h says of the disposable stack: "Objects to be disposed at the end   *)
(* of a "with" statement".  The end of a with statement disposes of the    *)
(* object that statement began with.  Once an exception has gone unhandled *)
(* BEGIN_WITH keeps no object at all: that is another matter and is left   *)
(* out here.                                                               *)
(***************************************************************************)
EndOfWithDisposesItsObject ==
    ~unhandled /\ frames # <<>> /\ Fetches /\ Top.depth = 0 /\ Innermost("with")
        => Top.disposable # <<>> /\ Last(Top.disposable) = Front(Top.nest)

(***************************************************************************)
(* class.c says "I want expressions to be implicitly returned", and vm.c   *)
(* gives the case "stack empty" to that: where a function ends without a   *)
(* return statement the value stack is empty, and RET takes the value of   *)
(* the last expression statement.                                          *)
(***************************************************************************)
ImplicitReturnFindsEmptyStack ==
    frames # <<>> /\ Fetches /\ Top.depth = 0 /\ Top.nest = <<>>
        => Top.stack = <<>>

=============================================================================
