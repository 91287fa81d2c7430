------------------------------- MODULE Import -------------------------------
(***************************************************************************)
(* The module loader of builtins/module.c: GaModule_Open, which the        *)
(* instruction OPEN_MODULE of a use statement calls, and the programs that *)
(* are run one after another in one context (lib.c).                       *)
(*                                                                         *)
(* The code of a module may do anything, so it is not represented: at any  *)
(* moment the code that runs may use any name, raise, or end.  A module    *)
(* is entered in the cache when its code is over, however it ended, under  *)
(* the name it was used by: while it runs it can be opened again.          *)
(***************************************************************************)
EXTENDS Integers, Sequences, SequencesExt

CONSTANTS
    Names,      \* what use statements name
    Relative,   \* the names that begin with / or ./
    Builtin,    \* the names of builtin_mods
    Dirs,       \* directories
    NoDir,      \* the directory of the default module, which has no path
    Files,      \* the files there are: records of dir, name and their own home
    ModFile,    \* the name mod, which every system directory is searched for
    MaxModules, \* modules made altogether
    MaxDepth,   \* modules running at once; the code has no limit but the C stack
    MaxPrograms

ASSUME ImportAssumption ==
    /\ Relative \subseteq Names /\ Builtin \subseteq Names \ Relative
    /\ Files \subseteq [dir : Dirs, name : Names \cup {ModFile}, home : Dirs]

VARIABLES
    system_path,    \* GaModule_system_path
    modules,        \* every module made: name, home (its directory), status,
                    \* within (the modules that were running when it was made)
    running,        \* the modules whose code is on the C stack, innermost last
    import_cache,   \* the module of a name, as an index of modules
    raised,         \* an exception is on its way out
    handled         \* ghost: some exception was caught, or ended a program

importVars == <<system_path, modules, running, import_cache, raised, handled>>

\* Types of the state; the default module is the first.
ImportTypeOK ==
    /\ system_path \in Seq(Dirs)
    /\ modules \in Seq([name : Names \cup {"__default__"}, home : Dirs \cup {NoDir},
                        status : {"running", "done", "failed"},
                        within : SUBSET DOMAIN modules])
    /\ running \in Seq(DOMAIN modules)
    /\ DOMAIN import_cache \subseteq Names
    /\ \A n \in DOMAIN import_cache : import_cache[n] \in DOMAIN modules
    /\ raised \in BOOLEAN /\ handled \in BOOLEAN

\* Ga_New: a context with its default module and an empty cache.
ImportInit ==
    /\ system_path = <<>>
    /\ modules = <<[name |-> "__default__", home |-> NoDir, status |-> "done", within |-> {}]>>
    /\ running = <<>>
    /\ import_cache = [n \in {} |-> 0]
    /\ raised = FALSE
    /\ handled = FALSE

-----------------------------------------------------------------------------
Here == Last(running)

\* The file dir/name.ga, if there is one.
At(dir, name) == {f \in Files : f.dir = dir /\ f.name = name}

\* The files a system directory offers for a name: its own, or else mod.ga.
Offers(dir, n) == IF At(dir, n) # {} THEN At(dir, n) ELSE At(dir, ModFile)

\* resolve_module_path: relative to the directory of the module, or the first
\* directory of the system path that has something to offer.
Resolve(by, n) ==
    IF n \in Relative THEN At(modules[by].home, n)
    ELSE LET having == SelectSeq(system_path, LAMBDA d : Offers(d, n) # {})
         IN  IF having = <<>> THEN {} ELSE Offers(Head(having), n)

Made(n, home, status) ==
    [name |-> n, home |-> home, status |-> status, within |-> ToSet(running)]

\* Ga_DoFile: the directory of the program is one to look in from now on.
StartProgram(dir) ==
    /\ running = <<>>
    /\ Len(system_path) < MaxPrograms
    /\ system_path' = Append(system_path, dir)
    /\ modules' = [modules EXCEPT ![1].status = "running"]
    /\ running' = <<1>>
    /\ UNCHANGED <<import_cache, raised, handled>>

\* The running code, or a function of a module made before that it has called,
\* is at a use statement whose name is not in the cache.  One that is in the
\* cache yields its module, whoever asks, and changes nothing.
Uses(by, n) ==
    /\ running # <<>> /\ ~raised
    /\ by \in DOMAIN modules
    /\ n \notin DOMAIN import_cache

\* The cache with the module m under the name n.
CachedAs(n, m) ==
    [x \in {n} \cup DOMAIN import_cache |-> IF x = n THEN m ELSE import_cache[x]]

\* Mutant: a module is in the cache from the moment it is made.
CacheWhileRunningEarly(n) == CachedAs(n, Len(modules) + 1)

CacheWhileRunning(n) == import_cache

\* mod_import_file up to the call of the module: its code begins to run.
UseFile(by, n) ==
    /\ Uses(by, n)
    /\ Len(modules) < MaxModules /\ Len(running) < MaxDepth
    /\ \E f \in Resolve(by, n) : modules' = Append(modules, Made(n, f.home, "running"))
    /\ running' = Append(running, Len(modules) + 1)
    /\ import_cache' = CacheWhileRunning(n)
    /\ UNCHANGED <<system_path, raised, handled>>

\* try_import_builtin_module
UseBuiltin(by, n) ==
    /\ Uses(by, n)
    /\ Len(modules) < MaxModules
    /\ Resolve(by, n) = {} /\ n \in Builtin
    /\ modules' = Append(modules, Made(n, NoDir, "done"))
    /\ import_cache' = CachedAs(n, Len(modules) + 1)
    /\ UNCHANGED <<system_path, running, raised, handled>>

\* There is no such module, or its text does not compile: an exception, and
\* nothing is entered in the cache.  A file that cannot be opened gives NULL
\* without an exception; none of this component's state changes then.
UseFails(by, n) ==
    /\ Uses(by, n)
    /\ Resolve(by, n) # {} \/ n \notin Builtin
    /\ raised' = TRUE
    /\ UNCHANGED <<system_path, modules, running, import_cache, handled>>

\* Mutant: a module whose code failed is not entered in the cache.
CacheAfterOnlyDone(m, status) ==
    IF status = "done" THEN CachedAs(modules[m].name, m) ELSE import_cache

\* GaModule_Open after mod_import_file: what the code did is not looked at, and
\* a module opened again while it ran is replaced.
CacheAfter(m, status) == CachedAs(modules[m].name, m)

Over(status) ==
    /\ running # <<>>
    /\ modules' = [modules EXCEPT ![Here].status = status]
    /\ running' = Front(running)
    /\ import_cache' = IF Here = 1 THEN import_cache ELSE CacheAfter(Here, status)
    /\ UNCHANGED system_path

\* The code of the innermost module, or the program, ends.
ModuleEnds == ~raised /\ Over("done") /\ UNCHANGED <<raised, handled>>

\* The code raises.
ModuleRaises ==
    /\ running # <<>> /\ ~raised
    /\ raised' = TRUE
    /\ UNCHANGED <<system_path, modules, running, import_cache, handled>>

\* A try statement of the innermost module catches it.
ModuleCatches ==
    /\ raised
    /\ raised' = FALSE /\ handled' = TRUE
    /\ UNCHANGED <<system_path, modules, running, import_cache>>

\* Nothing catches it: the code ends, and the exception goes on, to the code
\* that used the module or to the caller of the program, who clears it.
ModuleFails ==
    /\ raised
    /\ Over("failed")
    /\ raised' = (Here # 1)
    /\ handled' = (handled \/ Here = 1)

ImportNext ==
    \/ \E dir \in Dirs : StartProgram(dir)
    \/ \E by \in DOMAIN modules, n \in Names :
          UseFile(by, n) \/ UseBuiltin(by, n) \/ UseFails(by, n)
    \/ ModuleEnds \/ ModuleRaises \/ ModuleCatches \/ ModuleFails

ImportSpecification == ImportInit /\ [][ImportNext]_importVars

-----------------------------------------------------------------------------
(***************************************************************************)
(* The code of a module runs once under a name, also when it fails, also   *)
(* for the programs that come later: the only way to run it again is a     *)
(* use of the name while it is running.                                    *)
(***************************************************************************)
ModulesRunOnce ==
    \A i, j \in DOMAIN modules :
        i < j /\ modules[i].name = modules[j].name => i \in modules[j].within

(***************************************************************************)
(* A use statement never yields a module whose code is still running, and  *)
(* one whose code has failed only after that failure was seen: a handler   *)
(* caught it, or it ended an earlier program.                              *)
(***************************************************************************)
CachedModulesHaveRun ==
    \A n \in DOMAIN import_cache :
        LET status == modules[import_cache[n]].status
        IN  status = "done" \/ (status = "failed" /\ (raised \/ handled))

=============================================================================
