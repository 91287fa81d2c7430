# Gallium in TLA+

Gallium is an interpreter for a small object-oriented language, written in C.
It is single-threaded: source text goes through a lexer and a parser to a
syntax tree, a compiler turns the tree into bytecode and optimizes it, and a
virtual machine executes the bytecode over reference-counted objects. What is
hard in it is not concurrency but control that crosses components: an exception
interrupts frames that are in the middle of C code, statements that push
something on entry are left without popping it, the same memory is threaded on
several lists, closures share the frames of functions that have returned, and a
collector looks for cycles behind the back of the reference counts.

This directory holds TLA+ models of those parts, TLC configurations that check
them on small instances, and TLAPS proofs about them for every instance.

## 1. Inventory

Paths are relative to `src/src/`.

| Component | Source | State it keeps | Operations | Interacts with | What makes it correct |
|---|---|---|---|---|---|
| Pools | `include/gallium/pool.h` | a free list, a list of allocated blocks, a count | GET, PUT | objects and frames are allocated from pools; the collector walks the allocated list | a block is on one list, once; none is lost |
| Interpreter, control stack | `vm.c`, `include/gallium/vm.h` | frames: value stack, exception stack, disposable stack, interrupt flag, pending handler, return value; `unhandled_exception` | some 65 instructions, call and return of frames, raise | every operator on an object may run Gallium code again, through C code that may ignore the outcome | exceptions reach the innermost try, the stacks follow the statements, a frame never takes more than it has |
| Objects, reference counts, collector | `object.c`, `include/gallium/object.h` | ref_count, weak references, generation, the candidates of a collection | INC, DEC, destroy, attributes, GC | everything; destruction cascades through the objects' destroy functions | an object lives exactly as long as something refers to it, cycles excepted; a collection frees only what is unreachable |
| Local slots and closures | `compiler.c`, `vm.c`, `builtins/function.c` | slot counters of the nested builders; fast_cells and captive of frames | declare variable, reserve temporary, LOAD_FAST, STORE_FAST, call of a closure | numbers chosen when compiling must be right for chains of frames at run time | two variables alive in one chain never share a slot; a load finds the variable it names |
| Code generator | `compiler.c` | labels, break and continue label stacks, symbols of each builder | one function per statement and expression | its output is what the interpreter assumes | pushes and pops of every kind are paired on every path |
| Optimizer | `compiler.c` | the code of one function | remove_unused_variables, optimize, remove_noops | rewrites code with jumps in it | the code does what it did before |
| Hash map | `hashmap_impl.c`, `include/gallium/dict.h` | buckets, the list of entries, count | get, set, remove, grow, iterate | symbols, attributes, globals, import cache | it is a map, in the order of insertion |
| Lists, vectors, string builder | `linkedlist_impl.c`, `arraylist_impl.c`, `stringbuilder.c`, `include/gallium/vec.h` | links, cells, sizes | push, insert, remove, iterate | used everywhere, iterated while changed | they are sequences |
| Module loader | `builtins/module.c` | import cache, search path | open, import | runs the module's code, which may open modules | a module runs once; a use yields one that has run |
| Classes, methods, weak references | `builtins/class.c`, `method.c`, `mixin.c`, `weakref.c`, `enum.c` | dictionaries, the constructor, weak references to receivers | construct, call a method | the interpreter and the heap | a constructor that succeeded yields the object; a method finds its receiver |
| Collections | `builtins/list.c`, `dict.c`, `tuple.c`, `range.c`, `enumerable.c` | elements, iterator cursors | index, add, remove, iterate, callbacks | call back into Gallium code in the middle of loops in C | an operation that failed has no effect; iteration visits each element once |
| Scalars, strings, files | other files of `builtins/` | values | arithmetic, text, I/O | – | – |
| Lexer, parser, tree | `lexer.c`, `parser.c`, `ast.c` | position in the text, token list, the nodes made so far, the first error | scan, parse, build and destroy nodes | compiler | what is written from a tree is read as that tree; a text is accepted whole or rejected with a reason; nothing is destroyed twice |
| Embedding, REPL | `lib.c`, `gallium.c` | the context | run a string, run a file | runs one program after another in one context | nothing of a program that failed leaks into the next |
| Builtin modules | `modules/*.c` | – | conversions of values, system calls | – | – |

`PROJECT.json` lists the hazards found in this inventory, each at its line,
with the properties that cover it or the module that is planned for it.

## 2. Plan

The modules, in the order in which they were written:

1. `PoolSpec`, `Pool`: the allocator under everything. `Pool` implements
   `PoolSpec`. `PoolProofs`: its lists are well formed, and the implementation.
2. `Eval`: the control stack of the interpreter. `EvalProofs`: its value stacks,
   exception stacks, disposable stacks and the way of an exception.
3. `Reachability`, `Memory`, `Heap`: reference counts, stores, weak
   references, the cascade of destruction and the collector. `Heap` implements
   `Memory`, reachability, as long as its counts are right. `HeapProofs`: life and
   counts, weak references, leaks, and the implementation.
4. `Compile` (code generator), `Optimizer` (its passes), `Flow` (what can be said
   of code without running it) and `Machine`, which composes them with frames,
   captured frames and the instructions that use them. What Gallium's slots
   promise is lexical scoping (`VariablesApart`), and what its passes promise is
   the behaviour of the code before them (`OptimisedRunAgrees`).
5. `Lexer`, `Parser`, `Printer` and `FrontEnd`, which composes them: from text to
   tree, against trees that were written as text. `ParserShapes`, what the functions of
   the parser hold at each of their instructions. `FrontEndProofs`: whatever the text,
   a tree that is accepted is whole and a rejection is reported.
6. `LinkedList` (implements the sequence of `ListSpec`), `HashMap` (implements the
   map of `MapSpec`), `Import`, `Iteration` and `Search`; `Library` puts the five
   beside each other, so that one run checks them. `HashMapProofs`, `SearchProofs` and
   `LibraryProofs`, which has the lists, the loops and the module loader and says of
   `Library` what the others say of its parts.

`SequenceFacts` has what the proofs need to know about sequences and the least number
of a set.

Left to do, in this order:

- Proofs: of `Machine`, whatever can be said without the recursive operators. `Optimizer`,
  `Compile`, `Flow`, `Machine` and `Printer` declare some (over trees and code), which
  the prover cannot use, so that a part that can be separated from them needs a module
  of its own. The other modules have none.
- Models: the inline compilation of macros; the reference counts of operands that
  a failed instruction leaves behind (`Eval` and `Heap` in one).

## 3. Modules

### Pool, PoolSpec

`Pool` has one variable per field of `struct pool` and `struct pool_ent`, as
functions from blocks, and two ghosts: `malloced`, the blocks obtained from
malloc, and `held`, the blocks a client has. `GetFree` and `GetFresh` are
GaPool_GET with and without a block on the free list, `Put` is GaPool_PUT.
Fresh memory holds arbitrary links. `PoolSpec` is what a client may rely on: a
sequence of blocks in use, newest first, from which any may leave, and a stack of
blocks to reuse. `Pool!RefinesPoolSpec` maps the links to those sequences by
walking them: `AllocatedList` is what the collector meets from `allocated_items`,
`FreeList` what GET takes from `free_items` in turn.

### Eval

One variable, `frames`, is the chain `vm->top`, `parent`, ... as a sequence,
each frame a record of the fields of `struct stackframe` that control the
execution. `unhandled` is `vm->unhandled_exception`.

The program is not a variable: any program the compiler can emit may run. The
field `nest` of a frame is the list of statements the next instruction is in,
`depth` the number of temporaries the compiler has put on the value stack when
it reaches that instruction, and every instruction that may be placed there may
come next. A value is an object (`"val"`) or the C pointer NULL (`"null"`). A
handler address on the exception stack is represented by the nest its except
clause is in, an object on the disposable stack by the nest of its with statement.

| In the model | In the code |
|---|---|
| `Load`, `PopValue` | instructions that move values and end with NEXT_INSTRUCTION_FAST; a conditional jump takes its condition like `PopValue(FALSE)` |
| `Begin(kind)`, `CallFunction`, `NativeRaises`, `Finish` | an instruction that runs other code: its operands are taken, the code runs (a new frame, C code that raises, both, neither), its result is pushed |
| `EnterTry`, `EnterTryPanics`, `LeaveTry` | PUSH_EXCEPTION_HANDLER with room and without, POP_EXCEPTION_HANDLER |
| `RaiseStmt`, operator `Raise` | RAISE, GaEval_RaiseException |
| `BeginWith`, `BeginWithEntered`, `EndWith`, `EndWithExited` | BEGIN_WITH and END_WITH before and after their calls of `__enter__` and `__exit__` |
| `EnterLoop`, `LeaveLoop`, `Break(continues)` | the jumps of loops; break and continue |
| `Catch`, `Leave` | what follows the instruction when the interrupt flag is set: jump to the pending handler, or return to the caller |
| `Return` | RET, at the end of a function or of a return statement |
| `Start` | the next program run in the same context |
| `Undefined` | an instruction that finds less on a stack than it takes: the code has no check, and the model stops there |

The kinds of instruction differ in what they do with the result of the code they
run. `"invoke"` pushes nothing for NULL, `"operator"` pushes the NULL, `"truth"`
pushes a Boolean whatever happened, `"store"` pushes nothing, `"build"`
(BUILD_DICT) goes on whatever happened and does not look at the interrupt flag
afterwards, `"native"` is C code that calls back any number of times, may ignore
failures and includes constructors.

`fast` is set between an instruction that ended with NEXT_INSTRUCTION_FAST
after a raise and the next one that looks at the flag. `leftTry`, `leftWith` and
`faults` are ghosts: whether a jump has left a try (a with) statement of the
frame, and which of four known weak spots were met: a frame that panicked, a
function that returned the NULL a failed operator left on its stack, a
constructor that failed on account of an old exception, an instruction executed
in spite of the interrupt flag. Properties that cannot survive one of those say
so, and by that say that nothing else breaks them.

### Heap, Memory, Reachability

Every place that owns a reference is a cell. `Roots` are the cells of the
program: entries of value stacks, `vm->top`, the variables of C code. The cells of
an object are its fields `Names` (attributes, elements, the fast_cells of a frame)
and `link` (the super object of an instance, the frame a closure or a frame has
captured). `cell` says what each refers to. Stack frames are counted like objects
and are of kind `"frame"`. A C pointer to a cell cannot be taken by the program,
so what the program does is to move references between cells, in any order.

| In the model | In the code |
|---|---|
| `New(o, k, with, r)` | GaObj_NewEx, GaFrame_NEW, GaClosure_New, GaWeakRef_New, with the reference its maker keeps |
| `SetSuper`, `Super` | class_invoke when no constructor has set a super object; the builtin `super`, which links and stores it |
| `Dup`, `Load`, `LoadWeak` | DUP; LOAD_FAST, LOAD_ATTRIBUTE, LOAD_INDEX; the value of a weak reference |
| `Store`, `EndStore` | GaObj_SETATTR, list_setindex, STORE_FAST: the old value is let go before the entry is replaced |
| `RemoveElem`, `Drop` | GaList_Remove; whatever else lets a reference go |
| `DecRef`, `Destroy` | GaObj_DEC_REF and the beginning of GaObj_Destroy: weak references |
| `Release`, `PutBack`, `Destroyed` | the rest of GaObj_Destroy and GaFrame_DESTROY, a reference at a time |
| `Collect`, `DropCandidate` | the walk of GaObj_CollectGarbage and its loop over the candidates |

GaObj_Destroy calls itself through GaObj_DEC_REF. `dying` is the stack of these
calls, and every reference given up is a step, so the properties are checked
in the middle of cascades; the program runs when none is in progress. The walk of
the collector changes nothing but gc_ref_count, which it restores, so it is one
step: gc_cb meets an object a second time on the path it is on exactly when the
object is on a cycle of the traversed kinds, and gc_ref_count is then two.

The collector breaks the counts (finding 4), so a ghost, `miscounted`, names the
objects it has taken a reference from, and those that `super`, called a second
time, has left with one too many. The properties say what still holds of
those, and everything of the others. The program stops (`Intact`) when one of its
cells, or a field, refers to an object that is gone: what the code would do then
is undefined.

`Memory` is what a program may expect: it goes on with objects it can reach, and
an object disappears only when it is out of reach. It knows neither counts nor
collections. `Heap!RefinesMemory` maps the cells to the graph of `Memory`.

### Optimizer, Compile, Flow, Machine

`Compile` is compiler.c up to builder_finalize: one operator per kind of node, over
a record `cs` that holds the builder of the function being compiled, those of the
functions around it and an agenda. The C functions recur into the parts of a node
and go on afterwards; the operators put what is left to do on the agenda, and
`CompileNext` takes the first entry. `Optimizer` is what builder_finalize does to
the code: remove_unused_variables, optimize until nothing changes, remove_noops.

`Machine` first compiles a program a step at a time (`CompileNode`, `FinishCode`), then
executes it twice from the same state, as generated (`RunRaw`) and as optimised
(`RunOptimised`).

| In the model | In the code |
|---|---|
| `DeclareVar`, `ReserveTemporaries`, `LocalSlot` | builder_declare_var, builder_reserve_temporary, builder_get_local_slot |
| `EnterLoop`, and the break and continue statements | the label stacks, which loops push and only leaps pop |
| `frames`, `captive`, `calls` | every frame there was and the one it captured; vm->top and its parents |
| `LoadFast`, `StoreFast`, `Holder`, `TouchStale` | LOAD_FAST and STORE_FAST, which look for a cell with a value along the captured frames, and meet cells GaFrame_NEW has not cleared |
| `Operate`, `Calculate`, `GetIter`, `IterNext`, `TakeJump`, `InvokeFunc`, `InvokeNative`, `Return` | the instructions the executed programs consist of |

`puts` stands for everything a program lets the outside see: two runs agree if
they print the same and end the same way. Not in the code are the owner of an
instruction and of a cell (the function whose variable is meant), and `wrong` (the
leaps that got the label of another loop). `Flow` has the reference notions:
how deep the value stack is on every path, which loads a store may reach, which
POP is the result of a function.

Some programs do not survive the passes, or their slots collide. Four operators
name the reasons, each a defect of the code that the interpreter shows:

- `ClosureTemporaries`: a temporary (of a match, say) reserved in a function inside
  another one may be in the slot of a variable declared later in the outer one
  (compiler.c:332), and cells at that slot are looked at uncleared (vm.h:112).
- `DropsLiveStore`: remove_unused_variables looks for loads only after the first
  store in the text of the same function (compiler.c:455). A `while (n > 0)` that
  counts a parameter down has its only load in front of the store: the store is
  dropped and the loop never ends. A variable read only by a closure is lost.
- `LosesResult`: the pattern DUP, x, POP takes away the POP that would have recorded
  the value of a last assignment as the result of the function (compiler.c:415).
- `EachLoopLeftOnce` is false: the leaps pop labels that the loops have pushed, so two
  breaks in a loop, or a loop without one inside a loop, give the second leap
  a label of another loop (compiler.c:297), or panic.

The properties are stated about the programs these do not name and so say that
nothing else goes wrong. `LeapsReachTheirLoop` says it in both directions: the leaps
are right exactly in the programs that leave each loop once, inner ones first.

### Lexer, Parser, ParserShapes, Printer, FrontEnd

`Lexer` has one scanner per token kind, tried in the order of lexer.c; `NextToken`
is one round of its loop. A text is a string of characters, and the row and
column of a token are part of it: the tokens of a macro call are delimited by them.

`Parser` has one operator per function of parser.c. Each is a list of instructions
(read a token if there is one of a kind, hold its text, call another function,
build a node of what is held, give up and destroy what is held at these places),
so that a step of the model is what the C code does between two calls and the
values a function holds are visible. `nodes` grows only; `freed` are the nodes that
were destroyed, following GaAst_Walk, and a second destruction or a NULL that is
dereferenced ends in `"crashed"`. `quiet` is set when a function gives up without an
error, `errno` is the C library's.

`ParserShapes` is a table over the code of the parser. A point of it is a place in a
function (the instructions that are left), the shape of each value held there (NULL,
one node, either, a list, one just made, one just destroyed, no node at all), how far
the parser has come (nothing read yet, something read, something failed), and whether
the call waits for another. `PointsAfter` is what follows a point; `Table` is what is
reached from the entry of GaParser_ParseAll. `CodeFits` says that the table is closed and
that each instruction finds at its points what it expects: a node in every field that
the compiler follows unless something has failed, nodes in what is destroyed, nothing
destroyed while all is well but what was just made. It has no variable and no parameter
in it: it is a fact about the code, which the run `FrontEnd.cfg` decides as a part of
`TypeOK` (two of the mutants there break it).

`Printer` writes a tree as words, and lays words out as text in three styles; it
is the reference, written from the grammar that operators of C have, and models no
code. `FrontEnd` composes lexer and parser as GaParser_ParseString does. A source is a
text with its tokens, and for sound ones the tree it was written from.

What the model contains because the code does it: after one `key: value` of a dict an
error destroys the pair, then walks it (ast.c:549); the error is forgotten when a
function returns a node all the same (a parameter list that breaks off in a decorated
function, parser.c:1902, gives a NULL declaration); `enum E { a,` and `` x`( `` at the
end of the text dereference a token that is not there (parser.c:1691, 537); a range
whose right side fails keeps the left side it has destroyed (parser.c:947); the
condition of a case is carried over to later cases and not looked at by the compiler
(parser.c:1149); an integer is too large if errno was set before (parser.c:225); `^`,
`<<=` and `>>=` are in the grammar and no text gives these tokens; `x = 1 when c else 2`
groups as `(x = 1) when c else 2`. `RoundTrip` holds because the printer writes the
parentheses these readings need.

### LinkedList, ListSpec

`LinkedList` is linkedlist_impl.c with a function per field of `_Ga_list_elem_t`. The
interpreter has two kinds of list: `"items"` that grow at both ends and are iterated
while they grow, and `"refs"` that grow and lose values but are not iterated
meanwhile. _Ga_list_unshift does not set `prev` of the old head, so a list that is
both would break; `use` keeps them apart, as the callers do (only parser.c:358
unshifts; only weak references and objects remove). `ListSpec` is a sequence with
the place of an iterator, to which the links are mapped by walking them (`Items`,
`Cursor`).

### HashMap, MapSpec

`HashMap` has the list of entries, and each bucket as the set of places in it. `MapSet`
grows, searches and adds, in that order; `Refilled` is dict_grow, which throws the
buckets away and fills new ones. An entry holds the first 127 characters of its key and
no terminator: for names in `LongKeys`, whether comparing finds the entry and which
bucket the next growth puts it in is any. `MapRemove` models a function without a
caller. `MapSpec` is a map in the order of insertion in which long names may appear
twice; `LookupFindsEntries` says that a search, which looks at one bucket, finds what
the list of entries has.

### Import

The code of a module is not represented: whatever runs may use any name
(`UseFile`, `UseBuiltin`, `UseFails`), raise, catch and end, and so may functions of a
module that has run, for whom names resolve in their own module's directory.
`Over` is the end of mod_import_file and GaModule_Open: whatever came of the code, the
module is entered in the cache under the name it was used by. `StartProgram` is
the next program of the same context, which finds the cache as it is. Two
consequences of that order are kept in the model and limited by `MaxDepth`, or named
in the property: modules that use each other run inside one another until
the C stack ends, and a module that raised is there for whoever uses it next.
Relative names are cached for everybody: two modules in different directories
that use `./x` share the first one (module.c:277).

### Iteration

A loop is a driver over a source. The drivers are the for statement, the
unpacking of an argument, map, filter and count of enumerable.c and String.join; the
sources lists, ranges and objects with `__next__` and `__cur__` of their own. `AskNext`,
`AskCur` and `BodyEnds` are the three calls of a round, each of which may raise;
the code that is called may append to, remove from or replace in the list. `Width` is the
width of an integer and sums wrap.

What the code does with failures is in `NextRaises`, `CurRaises` and `AfterRaise`: the C
NULL that GaObj_ITER_NEXT gets from a `__next__` that raised counts as true, so loops in
C go on to the current element; a `__cur__` that raises makes map, filter and count
dereference NULL (enumerable.c:101), a `__str__` that raises does so in join
(string.c:108). The ghost `strayed` says that `__next__` raised in a C loop or that the
list lost or replaced an element. A range whose positions include -1 starts over when it
gets there, since -1 means that it has not begun (range.c:101): `PlainRange` excludes
these, negative strides and sums past the largest integer.

### Search

A dict compares keys, and `list.remove` elements, by calling an `__equals__` that may be
Gallium code, and this code may use the same dict or list. `searches` is the stack of
loops in progress (`dict_getindex`, `dict_setindex`, `GaList_Remove`), and a step ends
where a comparison begins or ends. All entries of a dict are on one list: the hash is
taken of the dict and not of the key. `ahead` is what the C code has read before the
comparison: the link to the next entry, or the next index. A comparison that raises
counts as equal.

`EntriesAreWhatWasStored` names the two ways in which a dict goes wrong, and says that
these are all: a key is entered twice if code that runs in the comparison with the last
entry stores the key that is being stored (`Overlooking`), and a store whose comparison
raises replaces the value of another key (`ComparisonRaises`). For a list, the
element goes whose index was read before the comparison (`moved`); once
a list has let go of a reference it did not have, the model stops (`astray`):
used_cells may be -1 by then.

### Library

One behaviour of `Library` is one of the five components above (`part`); the others
stay as they are made. They share no state, so interleaving them would only
multiply states.

### Mutants

Definitions marked "Mutant" are deliberately wrong variants of the definition
that follows them. No specification uses them; they document which change
of the code each property notices.

## 4. What the runs check

| Run | Instance | Properties |
|---|---|---|
| `MCPool.cfg` | four blocks, symmetric | `TypeOK`; `ListsWellFormed`: the allocated list is doubly linked and holds exactly the blocks in use, the free list exactly the released ones; `RefinesPoolSpec` |
| `EvalCalls.cfg` | 2 frames, try nested twice with room for one handler, operators, BUILD_DICT and C code that calls back | `TypeOK`; `UnwindHasTarget`: the frames below an unwinding one are interrupted too; `StackCoversDepth`: a frame that runs has the temporaries it will take; `ExceptionsCaughtByInnermost`: the handler a raise chooses is that of the innermost try statement of the youngest frame in one |
| `EvalJumps.cfg` | 2 frames, try, with and loop nested twice | `TriesMatchHandlers` and `WithsMatchDisposables`: the two stacks follow the statements; `OneExceptionAtATime` |
| `EvalUnwind.cfg` | 3 frames, fairness | `ExceptionsSettle`: a raised exception is caught or ends the program |
| `HeapCounts.cfg` | three objects of five kinds, two cells of the program, symmetric | `TypeOK`; `CountsMatchReferences`: a count is the number of cells that refer to the object; `LiveWhileCounted`: an object is destroyed when its count becomes zero, only then, and once; `WeakReferencesFollow`; `OnlyCyclesLeak`: what is out of reach and not destroyed is kept by a cycle; `RefinesMemory` |
| `Machine.cfg` | 836 programs; the 455 with variables, closures, branches and loops are executed, twice | `TypeOK`; `LeapsReachTheirLoop`; `CodeIsWellFormed`: on every path through the code, before and after the passes, the value stack has what is taken and the same depth at the same place; `VariablesApart`: a load or store of a variable finds that variable's cell and no other; `OptimisedRunAgrees`; `OptimisedRunEnds` |
| `FrontEnd.cfg` | every pair of binary operators of eight levels, every expression in every place of an expression, every statement and declaration, in up to three layouts; thirteen of them with each token missing and each end too soon | `TypeOK`, with `CodeFits`; `TokensAreWhereWritten`; `RoundTrip`: what is written from a tree is read as that tree; `AcceptedIsWhole`: a tree that is accepted has no destroyed node and no NULL where the compiler needs a node; `RejectedWithReason`; `ParsingEnds` |
| `Library.cfg` | a list of four elements; a map of four names, two that collide until it grows and one too long; four modules, three deep, under two programs; lists of up to three elements, 64 ranges of 4-bit integers, six drivers; a dict and a list of up to three places and two keys, searched twice at a time | `TypeOK`; `RefinesListSpec`; `RefinesMapSpec`; `LookupFindsEntries`; `ModulesRunOnce`: a module runs again only inside itself; `CachedModulesHaveRun`: a use never yields a module that is running, nor one that failed before the failure was seen; `VisitsInOrder`: each element once and in order, none missed by a loop that ends without an exception, the results those of the elements; `EntriesAreWhatWasStored`: a dict has what was last stored under each key; `SearchesMeetTheirKey`: a key that is there when a search begins is met; `RemovalsAreExact`: a list has a reference to each of its elements, and loses the one that was compared; `LoopsEnd` |
| `EvalFast.cfg` | | fails: see finding 1 |
| `EvalWith.cfg` | one frame, with and loop nested three times, no try | `EndOfWithDisposesItsObject` fails: see finding 2 |
| `EvalImplicit.cfg` | | fails: see finding 3 |
| `HeapCollector.cfg` | three objects made by classes | fails: see finding 4 |

**Bounds.** Four blocks allow a block to leave the allocated list at its head, at
its end and at two places in between with the free list holding any of the
others. Two frames are a caller and a callee, which is all that a call, a return
and a raise relate; three are needed only for an exception that passes a frame
between the raise and the handler. Two nested statements give every pair of
one statement inside another; `HandlerMax` is 1 where the overflow of the
exception stack is of interest and 2 where every statement must fit. Value
stacks of one or two entries hold an operand and a leftover. The disposable
stack and the value stack have no check in the code, so what lies past their
real size (32 and 255) is undefined; in the model the bound is in the guard of the
push (`MaxDispose`, `MaxStack`). The kinds of instruction are divided between the
runs because they do not interact through anything but the frame.

Three objects are enough for a cycle with something hanging from it, for a value
that is replaced while its replacement is kept by a third object, and for a
closure, its frame and what that frame holds. With one name and the link an
object refers to two others, itself included. Two cells of the program are what a
store needs, an object and a value. `MaxMiscounted` lets the collector run
again after it has taken a reference from one object, not after two: by then
most of what can still happen has been seen with one, and the states multiply.
The program stops rather than wait when it has no cell free, so the runs of
`Heap` do not check deadlock.

Programs of `Machine` are combinations of a few statements: a closure that reads, writes
or declares a variable, before and after the variable is declared, inside another
closure; loops and branches between stores and loads; breaks and continues at every
place of two nested loops; and every kind of expression as an operand of every other.
`MaxOutput` = 6 stops a run that prints without end; no run of these programs reaches
it. `IntMax` of `FrontEnd` is 999, so that a number of three digits is the largest; an
expression within an expression within a statement is what precedence and the
destruction of what is held depend on.

`FirstSize` = 2 gives a map four buckets at first and eight when it has four entries (64
and 128 in the code), with the same rule for when it is full. Four list elements are a
removal at both ends and in the middle, and one to add. Four modules are the program's
own and three it uses; a depth of three is the program and a module that another one, or
itself once more, runs inside. `Width` = 4 makes ranges reach the largest integer;
`MaxVisits` = 7 is the length of the longest of the ranges, and less than the 16
arguments a call has room for. Two searches are one inside a comparison of the other;
three places let a search stand at the first entry, the last, and in between.
`Iteration` stops at `MaxVisits`, programs at their end, and the libraries' behaviours
at their bounds, so these runs do not check deadlock.

**Fairness.** `FairSpec` assumes weak fairness of `Next`: `GaEval_ExecFrame` is
a loop in one thread that nothing suspends, so some step is always taken. Nothing
is assumed about which one: C code of the kinds `"native"` and `"build"` could call for
ever, so `EvalUnwind.cfg` leaves them out.

`Machine` assumes weak fairness of `Step`, the same loop; `FrontEnd` of `Next`, as
GaParser_ParseString returns only when it is done; `Library` of `LoopGoesOn`, the
steps of a loop without the changes of the list by the code it calls: that code returns
or raises, after finitely many changes. Without the last, code that never returns
would keep a loop from ending, which is not the loop's doing.

**Findings.**

1. BUILD_DICT compares keys, which may raise, and ends with the dispatch that
   the comment in `vm.c` reserves for instructions that do not raise. The
   instructions after it run before the handler does.
2. A with statement left by a jump leaves its object on the disposable stack: after
   `with a { while c { with b { break } } }` the end of the outer statement calls
   `__exit__` on the inner object. The run has no try statement, and the property says
   nothing once an exception has gone unhandled (BEGIN_WITH then keeps no object at
   all), so the break alone is the reason. An exception that is caught outside the inner
   statement, or raised by its `__enter__`, leaves the stack in the same way.
3. A function that caught an exception raised in the middle of an expression has
   that expression's temporaries still on its value stack. When it ends without
   a return statement, RET returns one of them in place of the value of the last
   expression statement.
4. The collector drops a reference from every object on a cycle that has at most
   two, without a look at where they come from. An object that refers to itself
   and is held by a variable loses one, and is destroyed when the cycle is undone
   although the variable still refers to it.

## 5. What is proved

The properties of `Pool`, `Eval`, `Heap` and `Library` that are about safety, the four
refinements, and what the front end says of every text, are theorems: they hold for every value of the constants that
satisfies the assumption of the module (below), not only for the instances of section 4.

| Theorem | States | Invariant it rests on |
|---|---|---|
| `PoolProofs!PoolListsWellFormed`, `PoolTypeCorrect`, `PoolImplementsSpec` | `ListsWellFormed`, `TypeOK`, `RefinesPoolSpec` | `PInv` |
| `EvalProofs!TypeCorrect`, `UnwindingReachesItsTarget` | `TypeOK`, `UnwindHasTarget` | `IInv` |
| `EvalProofs!StacksAreDeepEnough` | `StackCoversDepth` | `IInv`, `DepthInv` |
| `EvalProofs!NoExceptionOvertakes` | `OneExceptionAtATime`, if `OnceOnly` | `IInv`, `OneInv` |
| `EvalProofs!HandlersMatchTries`, `DisposablesMatchWiths` | `TriesMatchHandlers`, `WithsMatchDisposables` | `IInv`, `FollowInv` |
| `EvalProofs!CaughtByTheInnermost` | `ExceptionsCaughtByInnermost`, an action property | `IInv`, `FollowInv` |
| `HeapProofs!TypeCorrect`, `LivesWhileCounted`, `WeakReferencesNeverDangle`, `CountsAreExact` | `TypeOK`, `LiveWhileCounted`, `WeakReferencesFollow`, `CountsMatchReferences` | `IInv` |
| `HeapProofs!OnlyCyclesAreLost` | `OnlyCyclesLeak` | `IInv`, `LeakInv` |
| `HeapProofs!ImplementsMemory` | `RefinesMemory` | `MemoryInv` |
| `LibraryProofs!LibraryListsAreSequences`, `ListTypeCorrect` | `RefinesListSpec`, `ListTypeOK` | `ListInv` |
| `LibraryProofs!LibraryMapsAreDictionaries` | `LookupFindsEntries`, `RefinesMapSpec` | `MapInv` of `HashMapProofs` |
| `LibraryProofs!LibraryLoadsModulesOnce` | `ModulesRunOnce`, `CachedModulesHaveRun` | `ImportInv` |
| `LibraryProofs!LibraryVisitsInOrder` | `VisitsInOrder` | `IterInv` |
| `LibraryProofs!LibrarySearchesAreExact` | `EntriesAreWhatWasStored`, `SearchesMeetTheirKey`, `RemovalsAreExact` | `SearchInv` of `SearchProofs` |
| `LibraryProofs!LibraryTypeCorrect` | `TypeOK` | all of the parts' |
| `FrontEndProofs!FrontEndTypeCorrect`, `AcceptedTreesAreWhole`, `RejectionsAreReported` | `TypeOK`, `AcceptedIsWhole`, `RejectedWithReason`, given `CodeFits` | `Inv` |

### Pools

The inductive invariant `PInv` is the conjunction of `ListsWellFormed` and `TypeOK`:
without the doubly linked list, the release of a block could write anywhere, and the
count could fall below zero. The argument is about rows of blocks. `List(nx, S, s, n,
head)` says that from `head` the links `nx` meet the `n` blocks of the row `s`, which
are those of `S`, each once; `Back` says the same of `prev`. `PushList` and `PushBack`
say what a row becomes when a block is put before it, `RemoveList` and `RemoveBack`
when the block at position `k` leaves. `PutRows` is where the two lists meet: it shows
that the three writes of GaPool_PUT to links touch only the neighbours of the
block and the block itself, so that the free list, which shares `next`, is left
alone.

For the refinement, `WalkIsRow` says that walking the links gives the row there is. The
walk is a recursive function; that it agrees with the row at each step is shown by
looking at the first step at which it would not (`LeastPlace`). What is left is that
`Before` and `Without` are what `PoolSpec` does to sequences.

### The control stack

`IInv` is about types and about frames below the top one. `UnwindHasTarget` alone is not
inductive: the action `Leave` removes the top frame, `Return` and a panic set
the interrupt flag for other reasons and would make a frame below an
unwinding one "interrupted" by something that is not an exception. `IInv` adds
that only the top frame is between two instructions, that a frame in the
middle of one is either running or interrupted by an exception (never by
a return or a panic), that a handler is pending only in a frame an exception
has interrupted, and that the flag is overlooked only after an exception. It is
stated of a sequence of frames (`StackInv`), so that a raise in the middle of an
instruction, which first updates the top frame, is the composition of two lemmas
(`ReplaceTop`, `RaiseInv`). One lemma per action shows that it is preserved.

`DepthInv` says of every frame, not only of the one that runs, that its value stack has
the temporaries of its place, and that a frame that waits has not been handed NULL
unless it was interrupted, as long as none of the faults was met. So the frame that
comes to run again after a call has what it will take.

`OneInv` is for programs whose instructions run one piece of code each (`OnceOnly`, a
condition on the constant `Kinds`: the kinds `"native"` and `"build"`, C code that calls
again after a call has failed, are not among them; the run `EvalJumps` is such an
instance). In these, an exception has come through all the frames above one it has
interrupted, so that none can begin before it is caught. With the other kinds the
property is false, as the code has it.

`FollowInv` is about both stacks. `Covered` says that a stack holds an entry for each
statement of a kind that is open at the frame's place, the outer before the inner, and
nothing else unless a jump has left such a statement. For handlers it is not enough
to say this of the whole stack: a raise takes the last handler off and goes on at its
except clause, where the handlers before it must cover the statements around, so
`FrameTries` says it of every beginning of the stack. `CaughtByTheInnermost` uses
the same invariant for an action: the last handler of the youngest frame that has one
is that of its innermost try.

### Reference counts

`IInv` consists of `LifeInv` and `ExactCounts`. A store that waits for the destruction of
the old value, and the stack of destructions in progress, are part of the state, so a
count is compared with what the cells will hold when the store has ended (`Contents`).
`LifeInv` adds to the properties that a dying object is not alive, and that the
collector drops only candidates it has noted (`CandidatesNoted`); then `DecRef`
destroys exactly the objects whose count becomes zero. `CountChanges` is the arithmetic
of it: when one cell changes, one object is referred to once less and one once more.

`OnlyCyclesAreLost` needs more than exact counts, because it also speaks of
heaps in which the collector has destroyed something the program holds. `LeakInv` has
what survives that: no count of an object that is not miscounted exceeds its references
(`CountsBounded`), frames are counted exactly (`FramesCounted`) and are reached by
links only, and a destruction that has ended has let go of every field (`DeadLetGo`). So
whatever is garbage is referred to by garbage. Going backwards for ever in a finite
graph comes upon a cycle (`BackwardsForever`, by cardinality): the objects from which no
cycle and no miscounted object lies behind would be a set in which each has a
predecessor, and it is empty.

`ImplementsMemory` is a step simulation under `MemoryInv`: until a count is put out,
everything within reach is alive and counts are exact, so a step of the program is
a step of `Memory` on what it reaches, a step of a cascade changes the graph only
out of reach, and weak references are reset before their object goes.

### The library

`HashMapProofs`: `EntriesPlaced`, the entry of a name that fits is the only one of the
name, has the hash of the name, and is in the bucket a search for it looks at. Growing
puts every entry in a bucket again; removing moves the places of later entries down in
all buckets. From it follow `LookupFindsEntries` and, per step, `MapSpec`.

`LibraryProofs`, the module loader: `ModulesRunOnce` is not inductive by itself. `UsedOrCached` says that a
module that has been used is on the C stack or its name is in the cache, so that a
second module of a name is made only while the first runs; `CachedIsOver` that what
is in the cache has left the C stack.

`SearchProofs`: for every search in progress, `DictSearch` says that the entry looked
for, if it was there, is still to be met, although the searches inside it may have
stored, and `ListSearch` that the element compared is at the index read before
unless the list has changed inside the comparison (`moved`).

`LibraryProofs`, lists: `Linked(s)` says that the allocated elements are in a row `s`
along `next`, `tail` is the last of them, `prev` is right in lists from which values
are removed (_Ga_list_unshift does not keep it, and is not used on those), and memory
that is not allocated is clean: _Ga_list_push does not write `next` of the new element
and relies on calloc. `ListInv` says that there is such a row. Each operation is shown
to make another row, and that the sequence of values of the row changes as `ListSpec`
says; the iterator stands at an element, and `Cursor` is its place in the row.

`LibraryProofs`, loops: `IterInv` ties the position of the iterator to the number of
elements visited, for each source. For a range, `RangeFacts` shows that the position
`k` strides from the start lies before the end exactly if `k` is less than the number
of elements, that it is an integer and not -1, so that the sum in range_iter_next does
not wrap and the iterator does not start over: this is where `PlainRange` is needed.
`IterTypes` says where the position can be in any list, orderly or not: the current
element of a list is always one of its elements, because nothing runs between
`list_iter_next` and `list_iter_cur`.

The parts share no variables, so a behaviour of `Library` is one of each part
(`LibraryRunsLists` and the others), and what is proved of a part holds of it.

### The front end

`AcceptedIsWhole` says something of the last state only; `Inv` says it of everything the
calls in progress hold. Each call has a place (`StackFits`): a point of the table, the
number `lo` of nodes there were when it began, and the number `hi` when the call it waits
for began. What it holds has the shapes of its point. As long as nothing has failed it
is owned besides: it is made of the empty statement and of nodes after `lo`, none of
which was destroyed or lacks a part the compiler needs (`Best` is the largest set of such
nodes). What is fresh, because the last call has returned it, is made of nodes after
`hi` alone. Two functions destroy something while all is well (parse_relational_or_generic the
type in `f<T>(x)`, _GaParser_ParseFunc the types of parameters and of the result): what
they destroy is fresh, so nothing of what any call holds goes with it (`FreedIsFresh`,
`HeldApart`). After a failure nothing is said of what is held
but its shapes: the whole tree is given up, or the error is reported, or `quiet` is set.

That the result of a call has the shape its caller expects is a fact about the callee's
code, at the point where it returns, and the table has it (`Returns`). So the proof goes
by instruction, not by parsing function: one lemma for each says that it leads from a
point to a point of the table and what it does to the values held (`StepSwitch` to
`StepCall`), one for each action that `Inv` is kept. `ReachedIn` is why trees can be
spoken of without recursion: what is reached from a node along parts that are older than
the whole stays in every closed set with that node in it. That older parts exist at all
(there are no cycles, and the recursive function `Reached` is defined) is `NodesFit`.

The hypothesis `CodeFits` is about 2869 points and is evaluated, not proved.
It holds or not whatever `Sources` and the other constants are, so that TLC's answer is not
one for an instance.

### Assumptions

Each is checked by TLC on the instances. `PoolAssumption`, `ListAssumption`: NULL is not
a block (element), and there are finitely many. `EvalAssumption`, `SearchAssumption`,
`ImportAssumption`: the bounds are natural numbers, and kinds, statements, names and
files are among those defined. `HeapAssumption`: objects, names and cells of the
program are finitely many and distinct from one another and from NULL.
`MapAssumption`: hashes are natural numbers, and the table begins with at least one
bucket. `IterationAssumption`: an integer has a sign bit, the ends and strides of ranges
and the lengths of lists are integers, and 2^Width is twice 2^(Width - 1), which is true
of every width and out of the provers' reach. `SourcesAssumption`: a text has a length, and
errno is 0 or not. `SymbolsAssumption` is about the table of symbols in `Lexer`, which is no
constant: each has a length and none is the word "eof" or "keyword"; the provers know
nothing of the characters of a string.

### Only model-checked

- Liveness: `ExceptionsSettle`, `LoopsEnd`, `OptimisedRunEnds`, `ParsingEnds`. It depends
  on fairness and ENABLED, which the prover does not handle.
- All of `Machine` (`CodeIsWellFormed`, `VariablesApart`, `OptimisedRunAgrees` and the
  others). It walks trees and code with RECURSIVE operators, and its properties are
  statements about what recursive functions compute for every tree, whose proofs are
  inductions over data. They are checked for the programs of the instance.
- `TokensAreWhereWritten` and `RoundTrip` of `FrontEnd`. They compare with what `Printer`
  wrote, which is a recursive function of the tree, character by character.
- The four findings, which are counterexamples.

## 6. What is not modelled

In `Eval`: local variables and closures (they are in `Machine`), reference counts, and
the inline compilation of macros (INLINE_INVOKE is a call like another). Uncaught
exceptions are taken for the built-in ones, whose text is made by C code; an object with
a `__str__` of its own would run Gallium code in the middle of the report. The number of
operands an instruction takes is one or two, standing for any number. Operands that an
instruction leaves when the code it runs fails: INVOKE_AND_UNPACK, which calls
`__next__` and `__cur__` several times before the function (vm.c:363; its loop is in
`Iteration`), NEGATE and NOT (vm.c:600), and LOAD_ATTRIBUTE of a method that is
missing (vm.c:417). `Begin` runs one piece of code and has the operands popped, so the
value stack of the model is a lower bound after a failure, which is the side
`StackCoversDepth` is on.

In `Heap`: the reference of an object to its type, objects that are returned
with a count of zero (GaObj_MOVE_REF; the model gives the maker of an object a
reference at once), generations and the thresholds that start the collector, which
may run between any two steps of the program, and the search of STORE_FAST
and LOAD_FAST along captured frames further than one (it is in `Machine`).

In `Compile` and `Machine`: GaAst_CompileInline, which compiles what a macro returns
into a builder that is finished already; the pools of names and objects of a code object
(an instruction carries the name or the constant); BUILD_ENUM without the operand for
its name, whose handling is the interpreter's. An executed program raises only to end:
handlers are the subject of `Eval`. Two leftovers on the value stack, of a break inside
a match that is an operand and of an exception that is caught, are cut off in `Flow` and
covered by `Eval` for the second.

In `Lexer` and `Parser`: GaParser_InitLazy and the functions by which modules/parser.c
drives the parser over a list of tokens; the wording of errors; characters beyond
those the tokens tell apart.

In `HashMap`: names that differ only after their first 127 characters, which may be taken
for one another (hashmap_impl.c:208); only names in `LongKeys` are concerned, which the
properties set apart. In `Import`: files that cannot be read after the look, for which
mod_import_file returns NULL without an exception (module.c:113) or raises NULL for one
the parser gave up silently (module.c:135), where the model always raises; nothing is
cached in either case. Nor GaModule_Import, which copies attributes, and paths as text. In `Iteration`: tuples
(lists that do not change) and indices. In `Search`: an `__equals__` whose answers
contradict one another, and assignments to elements of a list in the middle of a
comparison. `String.contains` (string.c:62) does not end for a text that occurs after
the first place; it is a loop over characters and not modelled.

Left out altogether: the array list, which nothing uses, the vector and the string
builder (growing arrays with one cursor); attribute lookup in classes,
mixins and enums; arithmetic and text of scalars; files and the operating system; the
REPL's reading of lines; and the builtin modules, which convert values and keep no state.
