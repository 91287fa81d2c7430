----------------------------- MODULE Optimizer -----------------------------
(***************************************************************************)
(* The passes that builder_finalize (compiler.c) runs over the code of a   *)
(* function: stores to slots that are not loaded later become POP, a few   *)
(* patterns are blanked with NOOP until none is left, and the NOOPs are    *)
(* taken out while the jumps are adjusted.                                 *)
(*                                                                         *)
(* Addresses count from 0, as in the code: the instruction at address a    *)
(* is code[a + 1].  An instruction has an operation and its immediate n.   *)
(***************************************************************************)
EXTENDS Integers, Sequences, SequencesExt

\* The operations whose immediate is an address.
JumpOps ==
    {"JUMP", "JUMP_IF_FALSE", "JUMP_IF_TRUE", "JUMP_DUP_IF_FALSE",
     "JUMP_DUP_IF_TRUE", "JUMP_IF_COMPILED", "PUSH_EXCEPTION_HANDLER"}

Targets(code) == {code[i].n : i \in {k \in DOMAIN code : code[k].op \in JumpOps}}

\* The same sequence.  TLC computes its elements once, not at each use.
Fixed(f) == f \o <<>>

\* The code with NOOP at an address.
Blank(code, at) == [code EXCEPT ![at + 1].op = "NOOP", ![at + 1].n = 0]

-----------------------------------------------------------------------------
(***************************************************************************)
(* remove_unused_variables.  variables[slot] becomes 1 at the first store  *)
(* and 2 at a load after it, in the order of the text.                     *)
(***************************************************************************)
Positions(code, op, slot) ==
    {i \in DOMAIN code : code[i].op = op /\ code[i].n = slot}

LoadedLater(code, slot) ==
    \E load \in Positions(code, "LOAD_FAST", slot) :
        \E store \in Positions(code, "STORE_FAST", slot) : store < load

UnusedStore(code, ins) ==
    ins.op = "STORE_FAST" /\ ~LoadedLater(code, ins.n)

\* Mutant: a load only counts for the stores in front of it.
RemoveStoresUnusedBehind(code) ==
    Fixed([i \in DOMAIN code |->
              IF code[i].op = "STORE_FAST" /\ \A k \in Positions(code, "LOAD_FAST", code[i].n) : k < i
              THEN [code[i] EXCEPT !.op = "POP", !.n = 0] ELSE code[i]])

RemoveUnusedVariables(code) ==
    Fixed([i \in DOMAIN code |-> IF UnusedStore(code, code[i])
                                 THEN [code[i] EXCEPT !.op = "POP", !.n = 0]
                                 ELSE code[i]])

-----------------------------------------------------------------------------
(***************************************************************************)
(* match_bytecode_pattern: the pattern must end before the last            *)
(* instruction, and no jump may lead to anything after its first           *)
(* instruction, up to the one behind it.                                   *)
(***************************************************************************)
Matches(code, at, pattern) ==
    /\ at + Len(pattern) < Len(code)
    /\ \A i \in DOMAIN pattern : pattern[i] \in {"*", code[at + i].op}
    /\ Targets(code) \cap (at + 1 .. at + Len(pattern)) = {}

\* Mutant: what is between the DUP and the POP is blanked instead of the POP.
OptimizeAtInside(code, at) ==
    IF Matches(code, at, <<"DUP", "*", "POP">>) THEN Blank(Blank(code, at), at + 1)
    ELSE IF Matches(code, at, <<"DUP", "POP">>) THEN Blank(Blank(code, at), at + 1)
    ELSE code

\* The body of the loop in optimize, at one address.
OptimizeAt(code, at) ==
    IF Matches(code, at, <<"DUP", "*", "POP">>) THEN Blank(Blank(code, at), at + 2)
    ELSE IF Matches(code, at, <<"DUP", "POP">>) THEN Blank(Blank(code, at), at + 1)
    ELSE IF Matches(code, at, <<"RET", "RET">>) THEN Blank(code, at)
    ELSE IF code[at + 1].op = "JUMP" /\ code[at + 1].n = at + 1 THEN Blank(code, at)
    ELSE code

RECURSIVE OptimizeFrom(_, _)
OptimizeFrom(code, at) ==
    IF at = Len(code) THEN code ELSE OptimizeFrom(OptimizeAt(code, at), at + 1)

Optimize(code) == OptimizeFrom(code, 0)

\* "while (optimize(...) > 0);": a pass that removed nothing changed nothing.
RECURSIVE OptimizeAll(_)
OptimizeAll(code) ==
    LET once == Optimize(code)
    IN  IF once = code THEN code ELSE OptimizeAll(once)

-----------------------------------------------------------------------------
(***************************************************************************)
(* remove_noops.  The instructions before at are those already copied; at  *)
(* each NOOP the jumps of both parts that lead beyond the place it would   *)
(* have had are shortened by one.                                          *)
(***************************************************************************)
\* Mutant: jumps to the removed instruction are shortened as well.
ShiftJumpOffsetsFrom(code, startAt) ==
    Fixed([i \in DOMAIN code |-> IF code[i].op \in JumpOps /\ code[i].n >= startAt
                                 THEN [code[i] EXCEPT !.n = @ - 1]
                                 ELSE code[i]])

ShiftJumpOffsets(code, startAt) ==
    Fixed([i \in DOMAIN code |-> IF code[i].op \in JumpOps /\ code[i].n > startAt
                                 THEN [code[i] EXCEPT !.n = @ - 1]
                                 ELSE code[i]])

RECURSIVE RemoveNoopsFrom(_, _)
RemoveNoopsFrom(code, at) ==
    IF at = Len(code) THEN code
    ELSE IF code[at + 1].op = "NOOP"
         THEN RemoveNoopsFrom(ShiftJumpOffsets(RemoveAt(code, at + 1), at), at)
         ELSE RemoveNoopsFrom(code, at + 1)

RemoveNoops(code) == RemoveNoopsFrom(code, 0)

\* What builder_finalize makes of the code once the labels are addresses.
Finalized(code) == RemoveNoops(OptimizeAll(RemoveUnusedVariables(code)))

=============================================================================
