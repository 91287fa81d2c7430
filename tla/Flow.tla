------------------------------- MODULE Flow --------------------------------
(***************************************************************************)
(* What can be told from code without running it: how deep the value       *)
(* stack is at each instruction, and which loads a store may reach.  These *)
(* are the definitions the generated and the optimised code is held        *)
(* against; none of this is in the program.                                *)
(***************************************************************************)
EXTENDS Integers, Sequences, FiniteSets

UnaryOps == {"LOGICAL_NOT", "NEGATE", "NOT", "GET_ITER", "ITER_NEXT", "ITER_CUR",
             "LOAD_ATTRIBUTE", "BUILD_ENUM", "BUILD_MIXIN",
             "POP_EXCEPTION_HANDLER", "END_WITH", "NOOP", "JUMP", "JUMP_IF_COMPILED",
             "PUSH_EXCEPTION_HANDLER"}
Pushing == {"LOAD_CONST", "LOAD_TRUE", "LOAD_FALSE", "LOAD_FAST", "LOAD_GLOBAL",
            "LOAD_EXCEPTION", "OPEN_MODULE", "DUP", "LOAD_METHOD"}
Popping == {"POP", "STORE_FAST", "STORE_GLOBAL", "RAISE", "BEGIN_WITH", "LOAD_INDEX",
            "COMPILE_MACRO", "MATCH", "ADD", "SUB", "MUL", "DIV", "MOD", "AND", "OR",
            "XOR", "SHL", "SHR", "EQUALS", "NOT_EQUALS", "GREATER_THAN", "LESS_THAN",
            "GREATER_THAN_OR_EQU", "LESS_THAN_OR_EQU", "BUILD_RANGE_HALF",
            "BUILD_RANGE_CLOSED", "JUMP_IF_FALSE", "JUMP_IF_TRUE",
            "JUMP_DUP_IF_FALSE", "JUMP_DUP_IF_TRUE"}

\* How the instruction changes the depth of the value stack when it does not
\* jump.
Net(ins) ==
    CASE ins.op \in UnaryOps -> 0
      [] ins.op \in Pushing  -> 1
      [] ins.op \in Popping  -> -1
      [] ins.op = "DUPX"     -> ins.n
      [] ins.op = "STORE_INDEX"     -> -3
      [] ins.op \in {"STORE_ATTRIBUTE", "BUILD_FUNC", "BUILD_CLOSURE", "BUILD_CLASS"} -> -2
      [] ins.op \in {"BUILD_TUPLE", "BUILD_LIST"} -> 1 - ins.n
      [] ins.op = "BUILD_DICT" -> 1 - 2 * ins.n
      [] ins.op = "INVOKE"     -> -ins.n
      [] ins.op = "INVOKE_AND_UNPACK" -> -ins.n - 1

\* A jump from inside an expression, by a break or a continue in a case of a
\* match.  It leaves the operands of the expression behind.
LeapsOut(ins, depth) == ins.op = "JUMP" /\ ins.s # "" /\ depth # 0

\* Where the control may be after the instruction at an address, and how
\* deep the stack is then.  A macro that has been expanded before is one
\* instruction, at the target of JUMP_IF_COMPILED, that pushes a value.
Successors(code, at, depth) ==
    LET ins == code[at + 1]
        next == <<at + 1, depth + Net(ins)>>
    IN  CASE ins.op \in {"RET", "RAISE"} \/ LeapsOut(ins, depth) -> {}
          [] ins.op = "JUMP" -> {<<ins.n, depth>>}
          [] ins.op \in {"JUMP_IF_FALSE", "JUMP_IF_TRUE"} -> {next, <<ins.n, depth - 1>>}
          [] ins.op \in {"JUMP_DUP_IF_FALSE", "JUMP_DUP_IF_TRUE", "PUSH_EXCEPTION_HANDLER"} ->
               {next, <<ins.n, depth>>}
          [] ins.op = "JUMP_IF_COMPILED" -> {next, <<ins.n + 1, depth + 1>>}
          [] OTHER -> {next}

\* The places reachable from some others.  Paths end outside the code.
RECURSIVE Explore(_, _, _)
Explore(code, seen, new) ==
    IF new = {} THEN seen
    ELSE LET inside == {p \in new : p[1] \in 0 .. Len(code) - 1 /\ p[2] >= 0}
             next == UNION {Successors(code, p[1], p[2]) : p \in inside}
         IN  Explore(code, seen \cup new, next \ (seen \cup new))

Places(code) == Explore(code, {}, {<<0, 0>>})

\* Every path stays inside the code and never takes more values than there
\* are, and an instruction is always reached with the same number of them.
WellFormed(code) ==
    /\ \A p \in Places(code) : p[1] \in 0 .. Len(code) - 1 /\ p[2] >= 0
    /\ \A p, q \in Places(code) : p[1] = q[1] => p[2] = q[2]

\* Is the value of the POP at an address the result of the function?  It is
\* if a RET can follow with nothing on the stack and no other POP before it.
IsResult(code, at) ==
    LET stops == [i \in DOMAIN code |-> IF code[i].op = "POP" THEN [code[i] EXCEPT !.op = "RAISE"]
                                        ELSE code[i]]
    IN  \E p \in Explore(stops, {}, {<<at + 1, 0>>}) :
            p[2] = 0 /\ p[1] \in 0 .. Len(code) - 1 /\ code[p[1] + 1].op = "RET"

\* Can a load of the slot be reached from the instruction at an address?
\* Only the addresses of the places matter here.
MayBeLoaded(code, at, slot) ==
    \E start \in {p \in Places(code) : p[1] = at} :
        \E p \in Explore(code, {}, Successors(code, at, start[2])) :
            /\ p[1] \in 0 .. Len(code) - 1
            /\ code[p[1] + 1].op = "LOAD_FAST" /\ code[p[1] + 1].n = slot

=============================================================================
