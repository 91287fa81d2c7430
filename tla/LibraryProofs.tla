---------------------------- MODULE LibraryProofs ----------------------------
(***************************************************************************)
(* Proofs about Library: about the module loader, about the linked list,   *)
(* about the loops over an iterator, and that what is proved of the parts  *)
(* of the library holds of them in it.                                     *)
(***************************************************************************)
EXTENDS Library, SearchProofs, HashMapProofs, SequenceFacts,
        FiniteSetTheorems, TLAPS

-----------------------------------------------------------------------------
(***************************************************************************)
(* The module loader: for any names, files and directories, any number of  *)
(* modules and programs and any depth of use statements, the code of a     *)
(* module runs once under a name, and a use statement yields only modules  *)
(* whose code is over.                                                     *)
(*                                                                         *)
(* The inductive invariant.                                                *)
(***************************************************************************)
IsRunning(m) == \E d \in DOMAIN running : running[d] = m

\* No module is on the C stack twice; the outermost is the program.
StackOfModules ==
    /\ \A d, e \in DOMAIN running : running[d] = running[e] => d = e
    /\ running # <<>> => running[1] = 1

\* A module that was used is on the C stack, or its name is in the cache: that
\* is why a second module of that name is made only while the first one runs.
UsedOrCached ==
    \A m \in DOMAIN modules \ {1} :
        IsRunning(m) \/ modules[m].name \in DOMAIN import_cache

\* Only the default module has a name no use statement gave it.
NamesOfModules == \A m \in DOMAIN modules \ {1} : modules[m].name \in Names

\* What is in the cache has left the C stack; the default module is not in it.
CachedIsOver ==
    \A n \in DOMAIN import_cache :
        LET m == import_cache[n] IN m # 1 /\ ~IsRunning(m)

\* The code of a module that is not on the C stack is over.
OverWhenNotRunning ==
    \A m \in DOMAIN modules : ~IsRunning(m) => modules[m].status # "running"

\* A failure is on its way out, or somebody has seen it.
FailuresAreSeen ==
    \A m \in DOMAIN modules : modules[m].status = "failed" => raised \/ handled

ImportInv ==
    /\ ImportTypeOK
    /\ modules # <<>>
    /\ StackOfModules
    /\ NamesOfModules
    /\ UsedOrCached
    /\ CachedIsOver
    /\ OverWhenNotRunning
    /\ FailuresAreSeen
    /\ ModulesRunOnce

-----------------------------------------------------------------------------
\* The files a use statement may read.
LEMMA ResolvesToFiles ==
    ASSUME NEW by, NEW n, NEW f \in Resolve(by, n)
    PROVE  f \in Files /\ f.home \in Dirs
  BY ImportAssumption DEF Resolve, Offers, At

\* The innermost module leaves the C stack, and nothing else does.
LEMMA LeavingTheStack ==
    ASSUME ImportTypeOK, StackOfModules, running # <<>>, running' = Front(running)
    PROVE  /\ Here \in DOMAIN modules
           /\ running' \in Seq(DOMAIN modules)
           /\ StackOfModules'
           /\ IsRunning(Here)
           /\ \A m : IsRunning(m)' <=> IsRunning(m) /\ m # Here
  <1>1. /\ running \in Seq(DOMAIN modules)
        /\ Len(running) \in Nat \ {0}
        /\ running' \in Seq(DOMAIN modules)
        /\ Len(running') = Len(running) - 1
        /\ \A i \in 1..(Len(running) - 1) : running'[i] = running[i]
        /\ Here \in DOMAIN modules
    BY FrontLast DEF ImportTypeOK, Here
  <1>2. DOMAIN running = 1..Len(running) /\ DOMAIN running' = 1..(Len(running) - 1)
    BY <1>1, LenProperties
  <1>3. Here = running[Len(running)]
    BY DEF Here, Last
  <1>4. StackOfModules'
    <2>1. running' # <<>> => 1 \in 1..(Len(running) - 1)
      BY <1>1, EmptySeq
    <2> QED
      BY <1>1, <1>2, <2>1 DEF StackOfModules
  <1>5. \A m : IsRunning(m)' <=> IsRunning(m) /\ m # Here
    BY <1>1, <1>2, <1>3 DEF IsRunning, StackOfModules
  <1> QED
    BY <1>1, <1>2, <1>3, <1>4, <1>5 DEF IsRunning

\* A module is made: the invariant holds if it runs from now on, or if its code
\* is over and it is in the cache.
LEMMA MadeInv ==
    ASSUME ImportInv, NEW by \in DOMAIN modules, NEW n \in Names, Uses(by, n),
           NEW home \in Dirs \cup {NoDir}, NEW status,
           modules' = Append(modules, Made(n, home, status)),
           \/ /\ status = "running"
              /\ running' = Append(running, Len(modules) + 1)
              /\ import_cache' = import_cache
           \/ /\ status = "done"
              /\ running' = running
              /\ import_cache' = CachedAs(n, Len(modules) + 1),
           UNCHANGED <<system_path, raised, handled>>
    PROVE  ImportInv'
  <1> DEFINE new == Len(modules) + 1
             Module == [name : Names \cup {"__default__"}, home : Dirs \cup {NoDir},
                        status : {"running", "done", "failed"},
                        within : SUBSET DOMAIN modules]
             Module2 == [name : Names \cup {"__default__"}, home : Dirs \cup {NoDir},
                        status : {"running", "done", "failed"},
                        within : SUBSET (DOMAIN modules)']
  <1>1. /\ modules \in Seq(Module) /\ Len(modules) \in Nat \ {0}
        /\ DOMAIN modules = 1..Len(modules)
        /\ \A m \in DOMAIN modules : modules[m] \in Module
    BY EmptySeq, LenProperties, ElementOfSeq DEF ImportInv, ImportTypeOK
  <1>2. /\ running \in Seq(DOMAIN modules) /\ Len(running) \in Nat \ {0}
        /\ DOMAIN running = 1..Len(running)
        /\ \A d \in DOMAIN running : running[d] \in DOMAIN modules
        /\ running[1] = 1
    <2>1. running \in Seq(DOMAIN modules) /\ running # <<>> /\ running[1] = 1
      BY DEF ImportInv, ImportTypeOK, Uses, StackOfModules
    <2> QED
      BY <2>1, EmptySeq, LenProperties, ElementOfSeq
  <1>3. ToSet(running) \subseteq DOMAIN modules /\ 1 \in ToSet(running)
        /\ \A m : m \in ToSet(running) <=> IsRunning(m)
    BY <1>2 DEF ToSet, IsRunning
  <1>4. Made(n, home, status) \in Module
    BY <1>3 DEF Made
  <1>5. /\ DOMAIN modules' = 1..new /\ new \notin DOMAIN modules
        /\ modules' \in Seq(Module)
        /\ \A m \in DOMAIN modules : modules'[m] = modules[m]
        /\ modules'[new] = Made(n, home, status)
    BY <1>1, <1>4, AppendTyped
  <1>6. modules' \in Seq(Module2)
    <2>1. Module \subseteq Module2
      BY <1>1, <1>5
    <2> HIDE DEF Module, Module2
    <2> QED
      BY <1>5, <2>1, SeqMonotonic
  <1> HIDE DEF Module, Module2
  <1>30. new = Len(modules) + 1
    OBVIOUS
  <1> HIDE DEF new
  <1>7. /\ running' \in Seq((DOMAIN modules)')
        /\ StackOfModules'
        /\ \A m : IsRunning(m)' <=> IsRunning(m) \/ (status = "running" /\ m = new)
    <2>1. new \in (DOMAIN modules)' /\ DOMAIN modules \subseteq (DOMAIN modules)'
      BY <1>1, <1>5, <1>30
    <2>4. running \in Seq((DOMAIN modules)')
      BY <1>2, <2>1, SeqMonotonic
    <2>2. CASE status = "running"
      <3>1. /\ running' \in Seq((DOMAIN modules)')
            /\ DOMAIN running' = 1..(Len(running) + 1)
            /\ \A i \in 1..Len(running) : running'[i] = running[i]
            /\ running'[Len(running) + 1] = new
        <4>1. running' = Append(running, new)
          BY <1>30, <2>2
        <4> QED
          BY <2>1, <2>4, <4>1, AppendTyped
      <3>2. \A m : IsRunning(m)' <=> IsRunning(m) \/ m = new
        <4>1. /\ \A d : d \in DOMAIN running' <=> d \in DOMAIN running \/ d = Len(running) + 1
              /\ \A d \in DOMAIN running : running'[d] = running[d]
          BY <1>2, <3>1
        <4> QED
          BY <3>1, <4>1 DEF IsRunning
      <3>3. StackOfModules'
        <4>1. \A d \in DOMAIN running' : d \in DOMAIN running \/ d = Len(running) + 1
          BY <1>2, <3>1
        <4>2. \A d \in DOMAIN running : running'[d] = running[d] /\ running[d] # new
          BY <1>2, <1>5, <3>1
        <4>3. running'[1] = 1
          <5>1. 1 \in 1..Len(running)
            BY <1>2
          <5> QED
            BY <1>2, <4>2, <5>1
        <4> QED
          BY <3>1, <4>1, <4>2, <4>3 DEF ImportInv, StackOfModules
      <3> QED
        BY <2>2, <3>1, <3>2, <3>3
    <2>3. CASE status # "running"
      <3>1. running' = running
        BY <2>3
      <3>2. StackOfModules' /\ \A m : IsRunning(m)' <=> IsRunning(m)
        BY <3>1 DEF ImportInv, StackOfModules, IsRunning
      <3> QED
        BY <2>3, <2>4, <3>1, <3>2
    <2> QED
      BY <2>2, <2>3
  <1>8. /\ DOMAIN import_cache' \subseteq Names
        /\ DOMAIN import_cache \subseteq DOMAIN import_cache'
        /\ status # "running" => n \in DOMAIN import_cache'
        /\ \A x \in DOMAIN import_cache' :
              \/ x \in DOMAIN import_cache /\ import_cache'[x] = import_cache[x]
              \/ status = "done" /\ import_cache'[x] = new
    BY <1>30 DEF ImportInv, ImportTypeOK, CachedAs
  <1>9. status \in {"running", "done"}
    OBVIOUS
  <1>10. \A x \in DOMAIN import_cache : import_cache[x] \in DOMAIN modules
    BY DEF ImportInv, ImportTypeOK
  <1>11. new \in (DOMAIN modules)' /\ \A m \in DOMAIN modules : m \in (DOMAIN modules)'
    BY <1>1, <1>5 DEF new
  <1>12. \A m \in (DOMAIN modules)' : m \in DOMAIN modules \/ m = new
    BY <1>1, <1>5 DEF new
  <1>13. ImportTypeOK'
    <2>1. \A x \in DOMAIN import_cache' : import_cache'[x] \in (DOMAIN modules)'
      BY <1>8, <1>10, <1>11
    <2> QED
      BY <1>6, <1>7, <1>8, <2>1 DEF ImportInv, ImportTypeOK, Module2
  <1>14. modules'[new].status = status /\ modules'[new].name = n
         /\ modules'[new].within = ToSet(running)
    <2>1. modules'[new] = Made(n, home, status)
      BY <1>5
    <2>2. /\ Made(n, home, status).status = status
          /\ Made(n, home, status).name = n
          /\ Made(n, home, status).within = ToSet(running)
      BY DEF Made
    <2> QED
      BY <2>1, <2>2
  <1>31. NamesOfModules'
    BY <1>5, <1>12, <1>14 DEF ImportInv, NamesOfModules
  <1>15. UsedOrCached'
    BY <1>5, <1>7, <1>8, <1>9, <1>12, <1>14 DEF ImportInv, UsedOrCached
  <1>16. CachedIsOver'
    <2>1. ~IsRunning(new) /\ new # 1
      BY <1>1, <1>3, <1>5 DEF new
    <2>2. \A x \in DOMAIN import_cache : import_cache[x] # 1 /\ ~IsRunning(import_cache[x])
      BY DEF ImportInv, CachedIsOver
    <2> SUFFICES ASSUME NEW x \in DOMAIN import_cache'
                 PROVE  \A m : m = import_cache'[x] => m # 1 /\ ~IsRunning(m)'
      BY DEF CachedIsOver
    <2>3. CASE x \in DOMAIN import_cache /\ import_cache'[x] = import_cache[x]
      <3>1. import_cache[x] # new
        BY <1>5, <1>10, <2>3
      <3> QED
        BY <1>7, <2>2, <2>3, <3>1
    <2>4. CASE status = "done" /\ import_cache'[x] = new
      BY <1>7, <2>1, <2>4
    <2> QED
      BY <1>8, <2>3, <2>4
  <1>17. OverWhenNotRunning'
    BY <1>5, <1>7, <1>9, <1>12, <1>14 DEF ImportInv, OverWhenNotRunning
  <1>18. FailuresAreSeen'
    BY <1>5, <1>9, <1>12, <1>14 DEF ImportInv, FailuresAreSeen
  <1>19. ModulesRunOnce'
    <2> SUFFICES ASSUME NEW i \in (DOMAIN modules)', NEW j \in (DOMAIN modules)', i < j,
                        modules'[i].name = modules'[j].name
                 PROVE  i \in modules'[j].within
      BY DEF ModulesRunOnce
    <2>1. i \in DOMAIN modules
      BY <1>1, <1>5 DEF new
    <2>2. CASE j = new
      <3>1. modules[i].name = n
        BY <1>5, <1>14, <2>1, <2>2
      <3>2. n \notin DOMAIN import_cache
        BY DEF Uses
      <3>3. i = 1 \/ IsRunning(i)
        BY <2>1, <3>1, <3>2 DEF ImportInv, UsedOrCached
      <3> QED
        BY <1>3, <1>14, <2>2, <3>3
    <2>3. CASE j # new
      BY <1>5, <1>12, <2>1, <2>3 DEF ImportInv, ModulesRunOnce
    <2> QED
      BY <2>2, <2>3
  <1>20. modules' # <<>>
    BY <1>5, <1>11
  <1> QED
    BY <1>7, <1>13, <1>31, <1>15, <1>16, <1>17, <1>18, <1>19, <1>20 DEF ImportInv
\* The code of the innermost module is over: its name is in the cache, whatever
\* became of the code.
LEMMA OverInv ==
    ASSUME ImportInv, NEW status \in {"done", "failed"}, Over(status),
           raised' \in BOOLEAN, handled' \in BOOLEAN,
           raised \/ handled => raised' \/ handled',
           status = "failed" => raised' \/ handled'
    PROVE  ImportInv'
  <1> DEFINE m0 == Here
             Module == [name : Names \cup {"__default__"}, home : Dirs \cup {NoDir},
                        status : {"running", "done", "failed"},
                        within : SUBSET DOMAIN modules]
  <1>1. /\ m0 \in DOMAIN modules
        /\ running' \in Seq(DOMAIN modules)
        /\ StackOfModules'
        /\ IsRunning(m0)
        /\ \A m : IsRunning(m)' <=> IsRunning(m) /\ m # m0
    BY LeavingTheStack DEF ImportInv, Over
  <1>2. /\ modules \in Seq(Module) /\ DOMAIN modules = 1..Len(modules)
        /\ \A m \in DOMAIN modules : modules[m] \in Module
    BY LenProperties, ElementOfSeq DEF ImportInv, ImportTypeOK
  <1>3. modules' = [modules EXCEPT ![m0].status = status]
    BY DEF Over
  <1>4. [modules[m0] EXCEPT !.status = status] \in Module
    BY <1>1, <1>2
  <1>5. import_cache' = IF m0 = 1 THEN import_cache ELSE CachedAs(modules[m0].name, m0)
    BY DEF Over, CacheAfter
  <1>6. system_path' = system_path
    BY DEF Over
  <1> HIDE DEF m0, Module
  <1>7. /\ modules' \in Seq(Module) /\ DOMAIN modules' = DOMAIN modules
        /\ modules' # <<>>
    <2>1. modules' = [modules EXCEPT ![m0] = [modules[m0] EXCEPT !.status = status]]
      BY <1>1, <1>3
    <2>2. modules' \in Seq(Module)
      BY <1>1, <1>2, <1>4, <2>1, ExceptSeq
    <2>3. DOMAIN modules' = DOMAIN modules
      BY <2>1
    <2> QED
      BY <1>1, <2>2, <2>3
  <1>8. \A m \in DOMAIN modules :
           /\ modules'[m].name = modules[m].name
           /\ modules'[m].within = modules[m].within
           /\ modules'[m].status = IF m = m0 THEN status ELSE modules[m].status
    BY <1>1, <1>2, <1>3 DEF Module
  <1>9. /\ DOMAIN import_cache' \subseteq DOMAIN import_cache \cup {modules[m0].name}
        /\ DOMAIN import_cache \subseteq DOMAIN import_cache'
        /\ m0 # 1 => modules[m0].name \in DOMAIN import_cache'
        /\ \A x \in DOMAIN import_cache' :
              \/ x \in DOMAIN import_cache /\ import_cache'[x] = import_cache[x]
              \/ import_cache'[x] = m0 /\ m0 # 1
    BY <1>5 DEF CachedAs
  <1>10. /\ DOMAIN import_cache \subseteq Names
         /\ \A x \in DOMAIN import_cache : import_cache[x] \in DOMAIN modules
    BY DEF ImportInv, ImportTypeOK
  <1>11. m0 # 1 => modules[m0].name \in Names
    BY <1>1 DEF ImportInv, NamesOfModules
  <1>12. ImportTypeOK'
    <2>1. /\ DOMAIN import_cache' \subseteq Names
          /\ \A x \in DOMAIN import_cache' : import_cache'[x] \in DOMAIN modules
      <3>1. CASE m0 = 1
        BY <1>5, <1>10, <3>1
      <3>2. CASE m0 # 1
        BY <1>1, <1>9, <1>10, <1>11, <3>2
      <3> QED
        BY <3>1, <3>2
    <2> QED
      BY <1>1, <1>6, <1>7, <2>1 DEF ImportInv, ImportTypeOK, Module
  <1>13. UsedOrCached' /\ NamesOfModules'
    BY <1>1, <1>7, <1>8, <1>9 DEF ImportInv, UsedOrCached, NamesOfModules
  <1>14. CachedIsOver'
    <2> SUFFICES ASSUME NEW x \in DOMAIN import_cache'
                 PROVE  \A m : m = import_cache'[x] => m # 1 /\ ~IsRunning(m)'
      BY DEF CachedIsOver
    <2>1. CASE x \in DOMAIN import_cache /\ import_cache'[x] = import_cache[x]
      BY <1>1, <2>1 DEF ImportInv, CachedIsOver
    <2>2. CASE import_cache'[x] = m0 /\ m0 # 1
      BY <1>1, <2>2
    <2> QED
      BY <1>9, <2>1, <2>2
  <1>15. OverWhenNotRunning'
    BY <1>1, <1>7, <1>8 DEF ImportInv, OverWhenNotRunning
  <1>16. FailuresAreSeen'
    BY <1>7, <1>8 DEF ImportInv, FailuresAreSeen
  <1>17. ModulesRunOnce'
    BY <1>7, <1>8 DEF ImportInv, ModulesRunOnce
  <1> QED
    BY <1>1, <1>7, <1>12, <1>13, <1>14, <1>15, <1>16, <1>17 DEF ImportInv

\* The next program of the context begins.
LEMMA StartProgramInv ==
    ASSUME ImportInv, NEW dir \in Dirs, StartProgram(dir)
    PROVE  ImportInv'
  <1> DEFINE Module == [name : Names \cup {"__default__"}, home : Dirs \cup {NoDir},
                        status : {"running", "done", "failed"},
                        within : SUBSET DOMAIN modules]
  <1>1. /\ modules \in Seq(Module) /\ Len(modules) \in Nat \ {0}
        /\ DOMAIN modules = 1..Len(modules)
        /\ \A m \in DOMAIN modules : modules[m] \in Module
    BY EmptySeq, LenProperties, ElementOfSeq DEF ImportInv, ImportTypeOK
  <1>2. 1 \in DOMAIN modules /\ [modules[1] EXCEPT !.status = "running"] \in Module
    BY <1>1
  <1>3. /\ modules' = [modules EXCEPT ![1].status = "running"]
        /\ running = <<>> /\ running' = <<1>>
        /\ system_path' = Append(system_path, dir)
        /\ UNCHANGED <<import_cache, raised, handled>>
    BY DEF StartProgram
  <1> HIDE DEF Module
  <1>4. modules' \in Seq(Module) /\ DOMAIN modules' = DOMAIN modules /\ modules' # <<>>
    <2>1. modules' = [modules EXCEPT ![1] = [modules[1] EXCEPT !.status = "running"]]
      BY <1>2, <1>3
    <2>2. modules' \in Seq(Module) /\ DOMAIN modules' = DOMAIN modules
      BY <1>1, <1>2, <2>1, ExceptSeq
    <2> QED
      BY <1>2, <2>2
  <1>5. \A m \in DOMAIN modules :
           /\ modules'[m].name = modules[m].name
           /\ modules'[m].within = modules[m].within
           /\ modules'[m].status = IF m = 1 THEN "running" ELSE modules[m].status
    BY <1>1, <1>2, <1>3 DEF Module
  <1>6. /\ running' \in Seq(DOMAIN modules)
        /\ \A m : ~IsRunning(m)
        /\ \A m : IsRunning(m)' <=> m = 1
        /\ StackOfModules'
    BY <1>2, <1>3 DEF IsRunning, StackOfModules
  <1>7. ImportTypeOK'
    <2>1. system_path' \in Seq(Dirs)
      BY <1>3, AppendTyped DEF ImportInv, ImportTypeOK
    <2> QED
      BY <1>3, <1>4, <1>6, <2>1 DEF ImportInv, ImportTypeOK, Module
  <1>8. UsedOrCached' /\ NamesOfModules'
    BY <1>3, <1>4, <1>5, <1>6 DEF ImportInv, UsedOrCached, NamesOfModules
  <1>9. CachedIsOver'
    <2> SUFFICES ASSUME NEW x \in DOMAIN import_cache
                 PROVE  \A m : m = import_cache[x] => m # 1 /\ ~IsRunning(m)'
      BY <1>3 DEF CachedIsOver
    <2> QED
      BY <1>6 DEF ImportInv, CachedIsOver
  <1>10. OverWhenNotRunning' /\ FailuresAreSeen'
    BY <1>3, <1>4, <1>5, <1>6 DEF ImportInv, OverWhenNotRunning, FailuresAreSeen
  <1>11. ModulesRunOnce'
    BY <1>4, <1>5 DEF ImportInv, ModulesRunOnce
  <1> QED
    BY <1>4, <1>6, <1>7, <1>8, <1>9, <1>10, <1>11 DEF ImportInv

\* Only whether an exception is on its way changes, or has been seen.
LEMMA ExceptionInv ==
    ASSUME ImportInv, UNCHANGED <<system_path, modules, running, import_cache>>,
           raised' \in BOOLEAN, handled' \in BOOLEAN,
           raised \/ handled => raised' \/ handled'
    PROVE  ImportInv'
  <1>1. \A m : IsRunning(m)' <=> IsRunning(m)
    BY DEF IsRunning
  <1>2. ImportTypeOK' /\ modules' # <<>> /\ StackOfModules' /\ NamesOfModules'
    BY DEF ImportInv, ImportTypeOK, StackOfModules, NamesOfModules
  <1>3. UsedOrCached' /\ OverWhenNotRunning' /\ FailuresAreSeen' /\ ModulesRunOnce'
    BY <1>1 DEF ImportInv, UsedOrCached, OverWhenNotRunning, FailuresAreSeen, ModulesRunOnce
  <1>4. CachedIsOver'
    <2> SUFFICES ASSUME NEW x \in DOMAIN import_cache
                 PROVE  \A m : m = import_cache[x] => m # 1 /\ ~IsRunning(m)'
      BY DEF CachedIsOver
    <2> QED
      BY <1>1 DEF ImportInv, CachedIsOver
  <1> QED
    BY <1>2, <1>3, <1>4 DEF ImportInv

-----------------------------------------------------------------------------
\* A new context.
LEMMA ImportInitInv == ImportInit => ImportInv
  <1> SUFFICES ASSUME ImportInit PROVE ImportInv
    OBVIOUS
  <1> DEFINE default == [name |-> "__default__", home |-> NoDir,
                         status |-> "done", within |-> {}]
             Module == [name : Names \cup {"__default__"}, home : Dirs \cup {NoDir},
                        status : {"running", "done", "failed"},
                        within : SUBSET DOMAIN modules]
  <1>1. /\ modules = <<default>> /\ running = <<>> /\ system_path = <<>>
        /\ DOMAIN import_cache = {} /\ raised = FALSE /\ handled = FALSE
    BY DEF ImportInit
  <1>2. default \in Module /\ default.status = "done"
    BY <1>1
  <1> HIDE DEF default, Module
  <1>3. modules \in Seq(Module) /\ DOMAIN modules = {1} /\ modules[1] = default
    BY <1>1, <1>2
  <1>4. ImportTypeOK
    <2>1. /\ system_path \in Seq(Dirs) /\ running \in Seq(DOMAIN modules)
          /\ DOMAIN import_cache \subseteq Names
          /\ \A n \in DOMAIN import_cache : import_cache[n] \in DOMAIN modules
          /\ raised \in BOOLEAN /\ handled \in BOOLEAN
      <3>1. raised \in BOOLEAN /\ handled \in BOOLEAN
        BY <1>1
      <3>2. system_path \in Seq(Dirs) /\ running \in Seq(DOMAIN modules)
        BY <1>1, EmptySeq
      <3> QED
        BY <1>1, <3>1, <3>2
    <2>2. modules \in Seq(Module)
      BY <1>3
    <2> QED
      BY <2>1, <2>2 DEF ImportTypeOK, Module
  <1> QED
    BY <1>1, <1>2, <1>3, <1>4
       DEF ImportInv, StackOfModules, UsedOrCached, NamesOfModules, CachedIsOver,
           OverWhenNotRunning, FailuresAreSeen, ModulesRunOnce

\* Every step of the programs of a context.
LEMMA ImportNextInv == ImportInv /\ [ImportNext]_importVars => ImportInv'
  <1> SUFFICES ASSUME ImportInv, [ImportNext]_importVars PROVE ImportInv'
    OBVIOUS
  <1>0. raised \in BOOLEAN /\ handled \in BOOLEAN
    BY DEF ImportInv, ImportTypeOK
  <1>1. ASSUME NEW dir \in Dirs, StartProgram(dir) PROVE ImportInv'
    BY <1>1, StartProgramInv
  <1>2. ASSUME NEW by \in DOMAIN modules, NEW n \in Names, UseFile(by, n)
        PROVE  ImportInv'
    <2>1. PICK f \in Resolve(by, n) : modules' = Append(modules, Made(n, f.home, "running"))
      BY <1>2 DEF UseFile
    <2>2. f.home \in Dirs \cup {NoDir}
      BY ResolvesToFiles
    <2>3. Uses(by, n) /\ running' = Append(running, Len(modules) + 1)
          /\ import_cache' = import_cache /\ UNCHANGED <<system_path, raised, handled>>
      BY <1>2 DEF UseFile, CacheWhileRunning
    <2> QED
      BY <2>1, <2>2, <2>3, MadeInv
  <1>3. ASSUME NEW by \in DOMAIN modules, NEW n \in Names, UseBuiltin(by, n)
        PROVE  ImportInv'
    <2>1. /\ Uses(by, n) /\ modules' = Append(modules, Made(n, NoDir, "done"))
          /\ import_cache' = CachedAs(n, Len(modules) + 1)
          /\ running' = running /\ UNCHANGED <<system_path, raised, handled>>
      BY <1>3 DEF UseBuiltin
    <2> QED
      BY <2>1, MadeInv
  <1>4. ASSUME NEW by \in DOMAIN modules, NEW n \in Names, UseFails(by, n)
        PROVE  ImportInv'
    BY <1>0, <1>4, ExceptionInv DEF UseFails
  <1>5. CASE ModuleEnds
    BY <1>0, <1>5, OverInv DEF ModuleEnds
  <1>6. CASE ModuleRaises
    BY <1>0, <1>6, ExceptionInv DEF ModuleRaises
  <1>7. CASE ModuleCatches
    BY <1>0, <1>7, ExceptionInv DEF ModuleCatches
  <1>8. CASE ModuleFails
    BY <1>0, <1>8, OverInv DEF ModuleFails
  <1>9. CASE UNCHANGED importVars
    BY <1>0, <1>9, ExceptionInv DEF importVars
  <1> QED
    BY <1>1, <1>2, <1>3, <1>4, <1>5, <1>6, <1>7, <1>8, <1>9 DEF ImportNext

\* The inductive invariant holds of the programs of every context.
LEMMA ImportInvariant == ImportSpecification => []ImportInv
  BY ImportInitInv, ImportNextInv, PTL DEF ImportSpecification

(***************************************************************************)
(* The loader keeps its types: what is in the cache, and on the C stack,   *)
(* is a module that was made.                                              *)
(***************************************************************************)
THEOREM LoaderTypeCorrect == ImportSpecification => []ImportTypeOK
  <1>1. ImportInv => ImportTypeOK
    BY DEF ImportInv
  <1> QED
    BY <1>1, ImportInvariant, PTL

(***************************************************************************)
(* A module is made under a name that was used before only while the first *)
(* module of that name is still running: apart from runs inside one        *)
(* another its code runs once under the name, also when it fails, and also *)
(* for the programs that come later.                                       *)
(***************************************************************************)
THEOREM OneRunForEachName == ImportSpecification => []ModulesRunOnce
  <1>1. ImportInv => ModulesRunOnce
    BY DEF ImportInv
  <1> QED
    BY <1>1, ImportInvariant, PTL

(***************************************************************************)
(* What a use statement finds in the cache is never a module that is still *)
(* running, and a module that has failed only after its exception was on   *)
(* its way to the code that used it.                                       *)
(***************************************************************************)
THEOREM NothingUnfinishedIsCached == ImportSpecification => []CachedModulesHaveRun
  <1>1. ImportInv => CachedModulesHaveRun
    <2> SUFFICES ASSUME ImportInv, NEW n \in DOMAIN import_cache
                 PROVE  \/ modules[import_cache[n]].status = "done"
                        \/ /\ modules[import_cache[n]].status = "failed"
                           /\ raised \/ handled
      BY DEF CachedModulesHaveRun
    <2>1. import_cache[n] \in DOMAIN modules /\ ~IsRunning(import_cache[n])
      BY DEF ImportInv, ImportTypeOK, CachedIsOver
    <2>2. modules[import_cache[n]].status \in {"running", "done", "failed"}
      <3> DEFINE Module == [name : Names \cup {"__default__"}, home : Dirs \cup {NoDir},
                            status : {"running", "done", "failed"},
                            within : SUBSET DOMAIN modules]
      <3>1. modules \in Seq(Module)
        BY DEF ImportInv, ImportTypeOK
      <3>2. \A x \in Module : x.status \in {"running", "done", "failed"}
        OBVIOUS
      <3> HIDE DEF Module
      <3>3. modules[import_cache[n]] \in Module
        BY <2>1, <3>1, LenProperties, ElementOfSeq
      <3> QED
        BY <3>2, <3>3
    <2> QED
      BY <2>1, <2>2 DEF ImportInv, OverWhenNotRunning, FailuresAreSeen
  <1> QED
    BY <1>1, ImportInvariant, PTL

-----------------------------------------------------------------------------
\* The element at a place of a row of elements, and none beyond its ends.
ElemAt(s, i) == IF i \in 1..Len(s) THEN s[i] ELSE NULL

(***************************************************************************)
(* The shape of a list: the allocated elements in a row s, linked in this  *)
(* order, and backwards too if values are removed from it.  Memory that is *)
(* not allocated is as calloc will return it: a new element is last        *)
(* without its link being set.                                             *)
(***************************************************************************)
Linked(s) ==
    /\ s \in Seq(Elems)
    /\ \A i, j \in 1..Len(s) : s[i] = s[j] => i = j
    /\ live = {s[i] : i \in 1..Len(s)}
    /\ head = ElemAt(s, 1)
    /\ s # <<>> => tail = s[Len(s)]
    /\ \A i \in 1..Len(s) : next[s[i]] = ElemAt(s, i + 1)
    /\ use = "refs" => \A i \in 1..Len(s) : prev[s[i]] = ElemAt(s, i - 1)
    /\ \A e \in Elems \ live : next[e] = NULL /\ prev[e] = NULL
    /\ iter \in live \cup {NULL}

ListInv == ListTypeOK /\ \E s : Linked(s)

-----------------------------------------------------------------------------
(***************************************************************************)
(* What a walk along the links meets.                                      *)
(***************************************************************************)
\* The elements of a row are no more than the elements there are.
LEMMA RowFits ==
    ASSUME NEW s \in Seq(Elems), \A i, j \in 1..Len(s) : s[i] = s[j] => i = j
    PROVE  Len(s) \in Nat /\ Cardinality(Elems) \in Nat /\ Len(s) <= Cardinality(Elems)
  <1>1. /\ Len(s) \in Nat /\ \A i \in 1..Len(s) : s[i] \in Elems
        /\ DOMAIN s = 1..Len(s)
    BY LenProperties, ElementOfSeq
  <1>2. Cardinality(Elems) \in Nat
    BY ListAssumption, FS_CardinalityType
  <1> DEFINE D == 1..Len(s)
  <1>3. IsFiniteSet(D) /\ Cardinality(D) = Len(s)
    <2> PICK n : n = Len(s)
      OBVIOUS
    <2>1. n \in Nat /\ 1 \in Int /\ n \in Int
      BY <1>1
    <2>2. IsFiniteSet(1..n) /\ Cardinality(1..n) = IF 1 > n THEN 0 ELSE n - 1 + 1
      BY <2>1, FS_Interval
    <2>3. Cardinality(1..n) = n
      BY <2>1, <2>2
    <2> QED
      BY <2>2, <2>3
  <1>4. s \in Injection(D, Elems)
    <2>1. s \in [D -> Elems]
      BY <1>1
    <2> QED
      BY <2>1 DEF Injection, IsInjective
  <1>5. Cardinality(D) <= Cardinality(Elems)
    BY <1>3, <1>4, ListAssumption, FS_Injection
  <1> QED
    BY <1>1, <1>2, <1>3, <1>5

\* A walk from the first element of a row meets the row.
LEMMA ChainIsRow ==
    ASSUME NEW links, NEW n \in Nat, n <= Cardinality(Elems), NEW t, NEW from,
           t \in [1..n -> Elems],
           from = IF n = 0 THEN NULL ELSE t[1],
           \A i \in 1..n : links[t[i]] = IF i = n THEN NULL ELSE t[i + 1]
    PROVE  Chain(links, from) = t
  <1> DEFINE C == Cardinality(Elems)
             Cells(c) == [i \in 0..C |-> IF i = 0 THEN from
                                         ELSE IF c[i - 1] = NULL THEN NULL
                                         ELSE links[c[i - 1]]]
             d == [i \in 0..C |-> IF i < n THEN t[i + 1] ELSE NULL]
  <1>1. C \in Nat /\ n <= C /\ NULL \notin Elems
    BY ListAssumption, FS_CardinalityType
  <1>2. ASSUME NEW i \in 0..C
        PROVE  d[i] = IF i = 0 THEN from
                      ELSE IF d[i - 1] = NULL THEN NULL ELSE links[d[i - 1]]
    <2> HIDE DEF C
    <2>1. d[i] = IF i < n THEN t[i + 1] ELSE NULL
      OBVIOUS
    <2>2. CASE i = 0
      BY <2>1, <2>2
    <2>3. CASE i # 0
      <3>1. i - 1 \in 0..C /\ i \in 1..C /\ i - 1 + 1 = i
        BY <1>1, <2>3
      <3>2. d[i - 1] = IF i - 1 < n THEN t[i] ELSE NULL
        BY <3>1
      <3> HIDE DEF d
      <3>3. CASE i - 1 < n
        <4>1. i \in 1..n /\ t[i] \in Elems
          BY <1>1, <3>1, <3>3
        <4>2. links[t[i]] = IF i = n THEN NULL ELSE t[i + 1]
          BY <4>1
        <4>3. i < n <=> i # n
          BY <4>1
        <4> QED
          BY <1>1, <2>1, <2>3, <3>2, <3>3, <4>1, <4>2, <4>3
      <3>4. CASE ~(i - 1 < n)
        <4>1. ~(i < n)
          BY <1>1, <3>1, <3>4
        <4> QED
          BY <2>1, <2>3, <3>2, <3>4, <4>1
      <3> QED
        BY <3>3, <3>4
    <2> QED
      BY <2>2, <2>3
  <1>3. d = Cells(d)
    BY <1>2
  <1>4. ASSUME NEW c, c = Cells(c) PROVE c = d
    <2> DEFINE bad == {i \in 1..C : c[i] # d[i]}
    <2> HIDE DEF C, d
    <2>1. \A i \in 0..C : c[i] = IF i = 0 THEN from
                                 ELSE IF c[i - 1] = NULL THEN NULL ELSE links[c[i - 1]]
      BY <1>4
    <2>2. ASSUME bad # {} PROVE FALSE
      <3>1. PICK x \in bad : \A y \in bad : x <= y
        BY <1>1, <2>2, LeastPlace
      <3>2. x \in 0..C /\ x # 0 /\ x - 1 \in 0..C /\ x - 1 \notin bad
        BY <1>1, <3>1
      <3>3. c[x - 1] = d[x - 1]
        <4>1. CASE x - 1 = 0
          <5>1. 0 \in 0..C
            BY <1>1
          <5> QED
            BY <1>2, <2>1, <4>1, <5>1
        <4>2. CASE x - 1 # 0
          <5>1. x - 1 \in 1..C
            BY <1>1, <3>2, <4>2
          <5> QED
            BY <3>2, <5>1
        <4> QED
          BY <4>1, <4>2
      <3> QED
        BY <1>2, <2>1, <3>1, <3>2, <3>3
    <2>3. \A i \in 0..C : c[i] = d[i]
      <3>1. \A i \in 1..C : c[i] = d[i]
        BY <2>2
      <3>2. 0 \in 0..C /\ \A i \in 0..C : i = 0 \/ i \in 1..C
        BY <1>1
      <3> QED
        BY <1>2, <2>1, <3>1, <3>2
    <2>4. c = [i \in 0..C |-> c[i]] /\ d = [i \in 0..C |-> d[i]]
      BY <1>3, <1>4
    <2> QED
      BY <2>3, <2>4
  <1>5. /\ d \in [0..C -> Elems \cup {NULL}]
        /\ {i \in 0..C : d[i] # NULL} = 0..(n - 1)
        /\ \A i \in 1..n : d[i - 1] = t[i]
    <2> HIDE DEF C
    <2>1. \A i \in 0..C : i < n => i + 1 \in 1..n /\ t[i + 1] \in Elems
      BY <1>1
    <2>2. \A i \in 0..C : (d[i] # NULL <=> i < n) /\ d[i] \in Elems \cup {NULL}
      BY <1>1, <2>1
    <2>3. \A i : i \in 0..C /\ i < n <=> i \in 0..(n - 1)
      BY <1>1
    <2>4. \A i \in 1..n : i - 1 \in 0..C /\ i - 1 < n /\ i - 1 + 1 = i
      BY <1>1
    <2> QED
      BY <2>2, <2>3, <2>4
  <1>6. Cardinality(0..(n - 1)) = n
    <2>1. 0 \in Int /\ n - 1 \in Int
      OBVIOUS
    <2>2. Cardinality(0..(n - 1)) = IF 0 > n - 1 THEN 0 ELSE n - 1 - 0 + 1
      BY <2>1, FS_Interval
    <2> QED
      BY <2>2
  <1>7. t = [i \in 1..n |-> t[i]]
    OBVIOUS
  <1>8. (CHOOSE c : c = Cells(c)) = d
    <2> HIDE DEF Cells, d
    <2> QED
      BY <1>3, <1>4
  <1>9. Chain(links, from) =
          LET cell == CHOOSE c : c = Cells(c)
              length == Cardinality({i \in 0..C : cell[i] # NULL})
          IN  [i \in 1..length |-> cell[i - 1]]
    BY DEF Chain
  <1> HIDE DEF Cells, d, C
  <1>10. Chain(links, from) = [i \in 1..Cardinality({i \in 0..C : d[i] # NULL}) |-> d[i - 1]]
    BY <1>8, <1>9
  <1>11. Cardinality({i \in 0..C : d[i] # NULL}) = n
    BY <1>5, <1>6
  <1>12. Chain(links, from) = [i \in 1..n |-> d[i - 1]]
    BY <1>10, <1>11
  <1> QED
    BY <1>5, <1>7, <1>12

\* What ListSpec sees of a row: its values, and where the iterator stands.
Seen(s) ==
    /\ Walk = s
    /\ Items = [i \in 1..Len(s) |-> val[s[i]]]
    /\ iter = NULL => Cursor = 0
    /\ \A k \in 1..Len(s) : iter = s[k] => Cursor = k

RowsAreSeen == \A s : Linked(s) => Seen(s)

\* The walks of a state meet its row, from its head and from its iterator.
LEMMA RowsSeen == RowsAreSeen
  <1> SUFFICES ASSUME NEW s, Linked(s) PROVE Seen(s)
    BY DEF RowsAreSeen
  <1> DEFINE n == Len(s)
  <1>1. /\ s \in Seq(Elems) /\ NULL \notin Elems
        /\ n \in Nat /\ n <= Cardinality(Elems) /\ Cardinality(Elems) \in Nat
        /\ DOMAIN s = 1..n /\ \A i \in 1..n : s[i] \in Elems
        /\ \A i, j \in 1..n : s[i] = s[j] => i = j
        /\ head = ElemAt(s, 1)
        /\ \A i \in 1..n : next[s[i]] = ElemAt(s, i + 1)
    BY RowFits, LenProperties, ElementOfSeq, ListAssumption DEF Linked
  <1>2. s = [i \in 1..n |-> s[i]] /\ s \in [1..n -> Elems]
    BY <1>1, SeqDef
  <1> HIDE DEF n
  <1>3. ASSUME NEW k \in 1..n
        PROVE  Chain(next, s[k]) = [i \in 1..(n - k + 1) |-> s[k + i - 1]]
    <2> DEFINE m == n - k + 1
               t == [i \in 1..m |-> s[k + i - 1]]
    <2>1. /\ m \in Nat /\ m # 0 /\ m <= Cardinality(Elems) /\ 1 \in 1..m
          /\ \A i \in 1..m : k + i - 1 \in 1..n /\ (i = m <=> k + i - 1 = n)
      BY <1>1
    <2>2. t \in [1..m -> Elems] /\ t[1] = s[k]
      <3>1. \A i \in 1..m : s[k + i - 1] \in Elems
        BY <1>1, <2>1
      <3>2. k + 1 - 1 = k
        BY <1>1
      <3> QED
        BY <2>1, <3>1, <3>2
    <2>3. \A i \in 1..m : t[i] = s[k + i - 1]
      OBVIOUS
    <2> HIDE DEF t
    <2>4. ASSUME NEW i \in 1..m
          PROVE  next[t[i]] = IF i = m THEN NULL ELSE t[i + 1]
      <3>1. next[t[i]] = ElemAt(s, (k + i - 1) + 1)
        BY <1>1, <2>1, <2>3
      <3>2. CASE i = m
        <4>1. (k + i - 1) + 1 \notin 1..Len(s)
          BY <1>1, <2>1, <3>2 DEF n
        <4> QED
          BY <3>1, <3>2, <4>1 DEF ElemAt
      <3>3. CASE i # m
        <4>0. /\ k \in Nat /\ i \in Nat /\ m \in Nat /\ i <= m /\ 1 <= i
              /\ k + i - 1 # n /\ k + i - 1 \in 1..n
          BY <1>1, <2>1, <3>3
        <4>1. /\ (k + i - 1) + 1 \in 1..Len(s) /\ (k + i - 1) + 1 = k + (i + 1) - 1
              /\ i + 1 \in 1..m
          <5>1. (k + i - 1) + 1 \in 1..n /\ (k + i - 1) + 1 = k + (i + 1) - 1
            BY <1>1, <4>0
          <5>2. i + 1 \in 1..m
            <6> HIDE DEF m
            <6> QED
              BY <3>3, <4>0
          <5> QED
            BY <5>1, <5>2 DEF n
        <4>2. t[i + 1] = s[k + (i + 1) - 1]
          BY <2>3, <4>1
        <4> QED
          BY <3>1, <3>3, <4>1, <4>2 DEF ElemAt
      <3> QED
        BY <3>2, <3>3
    <2> HIDE DEF m
    <2>5. s[k] = IF m = 0 THEN NULL ELSE t[1]
      BY <2>1, <2>2
    <2>6. Chain(next, s[k]) = t
      BY <2>1, <2>2, <2>4, <2>5, ChainIsRow
    <2> QED
      BY <2>6 DEF t, m
  <1>4. Walk = s
    <2>1. head = IF n = 0 THEN NULL ELSE s[1]
      BY <1>1 DEF ElemAt, n
    <2>2. ASSUME NEW i \in 1..n
          PROVE  next[s[i]] = IF i = n THEN NULL ELSE s[i + 1]
      <3>1. i + 1 \in 1..n <=> i # n
        BY <1>1
      <3> QED
        BY <1>1, <3>1 DEF ElemAt, n
    <2> QED
      BY <1>1, <1>2, <2>1, <2>2, ChainIsRow DEF Walk
  <1>5. Items = [i \in 1..n |-> val[s[i]]]
    BY <1>1, <1>4 DEF Items
  <1>6. ASSUME NEW k \in 1..n, iter = s[k] PROVE Cursor = k
    <2>1. iter # NULL
      BY <1>1, <1>6
    <2>2. Cursor = n - Len(Chain(next, s[k])) + 1
      BY <1>4, <1>6, <2>1 DEF Cursor, n
    <2> DEFINE m == n - k + 1
               t == [i \in 1..m |-> s[k + i - 1]]
    <2>3. m \in Nat
      BY <1>1
    <2>4. \A i \in 1..m : s[k + i - 1] \in Elems
      BY <1>1
    <2> HIDE DEF m
    <2>5. t \in [1..m -> Elems]
      BY <2>4
    <2> HIDE DEF t
    <2>6. t \in Seq(Elems)
      BY <2>3, <2>5, SeqDef
    <2>7. Len(t) = m
      BY <2>3, <2>5, <2>6, LenProperties
    <2>8. Len(Chain(next, s[k])) = m
      BY <1>3, <2>7 DEF m, t
    <2>9. n - m + 1 = k
      BY <1>1 DEF m
    <2> QED
      BY <2>2, <2>8, <2>9
  <1>7. iter = NULL => Cursor = 0
    BY DEF Cursor
  <1> QED
    BY <1>4, <1>5, <1>6, <1>7 DEF Seen, n

\* The same of the state after a step.
LEMMA RowsSeenAfter == RowsAreSeen'
  BY RowsSeen, PTL

-----------------------------------------------------------------------------
(***************************************************************************)
(* The values of a row, and what a step does to them.                      *)
(***************************************************************************)
ValuesOf(vs, s) == [i \in 1..Len(s) |-> vs[s[i]]]

\* The values of a row are a sequence of as many.
LEMMA ValuesTyped ==
    ASSUME NEW V, NEW vs \in [Elems -> V], NEW s \in Seq(Elems)
    PROVE  /\ ValuesOf(vs, s) \in Seq(V) /\ Len(ValuesOf(vs, s)) = Len(s)
           /\ DOMAIN ValuesOf(vs, s) = 1..Len(s)
           /\ \A i \in 1..Len(s) : ValuesOf(vs, s)[i] = vs[s[i]]
           /\ Len(s) \in Nat
  <1> DEFINE n == Len(s)
             t == [i \in 1..n |-> vs[s[i]]]
  <1>1. n \in Nat /\ \A i \in 1..n : s[i] \in Elems
    BY LenProperties, ElementOfSeq
  <1> HIDE DEF n
  <1>2. t \in [1..n -> V]
    BY <1>1
  <1>3. \A i \in 1..n : t[i] = vs[s[i]]
    OBVIOUS
  <1> HIDE DEF t
  <1>4. t \in Seq(V)
    BY <1>1, <1>2, SeqDef
  <1>5. Len(t) = n /\ DOMAIN t = 1..n
    BY <1>1, <1>2, <1>4, LenProperties
  <1>6. ValuesOf(vs, s) = t
    BY DEF ValuesOf, t, n
  <1> QED
    BY <1>1, <1>3, <1>4, <1>5, <1>6 DEF n

\* Two states of the memory that hold the same values along a row.
Agree(vs, ws, s) ==
    /\ vs \in [Elems -> ListVals \cup {NULL}] /\ ws \in [Elems -> ListVals \cup {NULL}]
    /\ s \in Seq(Elems)
    /\ \A i \in 1..Len(s) : ws[s[i]] = vs[s[i]]

\* Of a row with an element more at its end.
LEMMA ValuesOfAppend ==
    ASSUME NEW vs, NEW ws, NEW s, Agree(vs, ws, s), NEW e \in Elems
    PROVE  ValuesOf(ws, Append(s, e)) = Append(ValuesOf(vs, s), ws[e])
  <1> PICK V : V = ListVals \cup {NULL}
    OBVIOUS
  <1> vs \in [Elems -> V] /\ ws \in [Elems -> V] /\ s \in Seq(Elems)
      /\ \A i \in 1..Len(s) : ws[s[i]] = vs[s[i]]
    BY DEF Agree
  <1>0. PICK r : r = Append(s, e)
    OBVIOUS
  <1> DEFINE a == ValuesOf(ws, r)
             b == ValuesOf(vs, s)
  <1>1. /\ r \in Seq(Elems) /\ Len(s) \in Nat
        /\ Len(r) = Len(s) + 1
        /\ \A i \in 1..Len(s) : r[i] = s[i] /\ s[i] \in Elems
        /\ r[Len(s) + 1] = e
    BY <1>0, AppendTyped
  <1>2. /\ a \in Seq(V) /\ Len(a) = Len(s) + 1
        /\ \A i \in 1..(Len(s) + 1) : a[i] = ws[r[i]]
    <2>1. /\ a \in Seq(V) /\ Len(a) = Len(r)
          /\ \A i \in 1..Len(r) : a[i] = ws[r[i]]
      <3>1. r \in Seq(Elems) /\ ws \in [Elems -> V]
        BY <1>1
      <3> QED
        BY ONLY <3>1, ValuesTyped
    <2>2. Len(r) = Len(s) + 1
      BY <1>1
    <2> HIDE DEF a
    <2> QED
      BY <2>1, <2>2
  <1>3. /\ b \in Seq(V) /\ Len(b) = Len(s)
        /\ \A i \in 1..Len(s) : b[i] = vs[s[i]]
    BY ValuesTyped
  <1> HIDE DEF a, b
  <1>4. ws[e] \in V
    OBVIOUS
  <1>5. /\ Append(b, ws[e]) \in Seq(V) /\ Len(Append(b, ws[e])) = Len(s) + 1
        /\ \A i \in 1..Len(s) : Append(b, ws[e])[i] = b[i]
        /\ Append(b, ws[e])[Len(s) + 1] = ws[e]
    BY <1>3, <1>4, AppendTyped
  <1>6. ASSUME NEW i \in 1..(Len(s) + 1) PROVE a[i] = Append(b, ws[e])[i]
    <2>1. CASE i = Len(s) + 1
      BY <1>1, <1>2, <1>5, <2>1
    <2>2. CASE i # Len(s) + 1
      <3>1. i \in 1..Len(s)
        BY <1>1, <2>2
      <3> QED
        BY <1>1, <1>2, <1>3, <1>5, <3>1
    <2> QED
      BY <2>1, <2>2
  <1>7. a = Append(b, ws[e])
    BY <1>2, <1>5, <1>6, SeqEqual
  <1> QED
    BY <1>0, <1>7 DEF a, b

\* Of a row with an element more at its beginning.
LEMMA PrependTyped ==
    ASSUME NEW S, NEW s \in Seq(S), NEW e \in S
    PROVE  /\ <<e>> \o s \in Seq(S) /\ Len(s) \in Nat
           /\ Len(<<e>> \o s) = Len(s) + 1
           /\ (<<e>> \o s)[1] = e
           /\ \A i \in 1..Len(s) : (<<e>> \o s)[i + 1] = s[i] /\ s[i] \in S
  <1>1. <<e>> \in Seq(S) /\ Len(<<e>>) = 1 /\ <<e>>[1] = e
    OBVIOUS
  <1>2. Len(s) \in Nat /\ \A i \in 1..Len(s) : s[i] \in S
    BY LenProperties, ElementOfSeq
  <1>3. /\ <<e>> \o s \in Seq(S) /\ Len(<<e>> \o s) = 1 + Len(s)
        /\ \A i \in 1..(1 + Len(s)) :
              (<<e>> \o s)[i] = IF i <= 1 THEN <<e>>[i] ELSE s[i - 1]
    BY <1>1, ConcatProperties
  <1>4. \A i \in 1..Len(s) : i + 1 \in 1..(1 + Len(s)) /\ ~(i + 1 <= 1) /\ i + 1 - 1 = i
    BY <1>2
  <1>5. 1 \in 1..(1 + Len(s)) /\ 1 <= 1 /\ 1 + Len(s) = Len(s) + 1
    BY <1>2
  <1>6. (<<e>> \o s)[1] = e
    BY <1>1, <1>3, <1>5
  <1>7. \A i \in 1..Len(s) : (<<e>> \o s)[i + 1] = s[i]
    BY <1>3, <1>4
  <1> QED
    BY <1>2, <1>3, <1>5, <1>6, <1>7

\* The values of such a row.
LEMMA ValuesOfPrepend ==
    ASSUME NEW V, NEW vs \in [Elems -> V], NEW ws \in [Elems -> V],
           NEW s \in Seq(Elems), NEW e \in Elems,
           \A i \in 1..Len(s) : ws[s[i]] = vs[s[i]]
    PROVE  ValuesOf(ws, <<e>> \o s) = <<ws[e]>> \o ValuesOf(vs, s)
  <1>0. PICK r : r = <<e>> \o s
    OBVIOUS
  <1> DEFINE a == ValuesOf(ws, r)
             b == ValuesOf(vs, s)
             c == <<ws[e]>> \o b
  <1>1. /\ r \in Seq(Elems) /\ Len(s) \in Nat
        /\ Len(r) = Len(s) + 1
        /\ r[1] = e
        /\ \A i \in 1..Len(s) : r[i + 1] = s[i]
    BY <1>0, PrependTyped
  <1>2. /\ a \in Seq(V) /\ Len(a) = Len(s) + 1
        /\ \A i \in 1..(Len(s) + 1) : a[i] = ws[r[i]]
    <2>1. /\ a \in Seq(V) /\ Len(a) = Len(r)
          /\ \A i \in 1..Len(r) : a[i] = ws[r[i]]
      <3>1. r \in Seq(Elems) /\ ws \in [Elems -> V]
        BY <1>1
      <3> QED
        BY ONLY <3>1, ValuesTyped
    <2>2. Len(r) = Len(s) + 1
      BY <1>1
    <2> HIDE DEF a
    <2> QED
      BY <2>1, <2>2
  <1>3. /\ b \in Seq(V) /\ Len(b) = Len(s)
        /\ \A i \in 1..Len(s) : b[i] = vs[s[i]]
    BY ValuesTyped
  <1>4. ws[e] \in V
    OBVIOUS
  <1>5. /\ c \in Seq(V) /\ Len(c) = Len(s) + 1 /\ c[1] = ws[e]
        /\ \A i \in 1..Len(s) : c[i + 1] = b[i]
    <2> HIDE DEF b
    <2> QED
      BY <1>3, <1>4, PrependTyped
  <1> HIDE DEF a, b, c
  <1>6. ASSUME NEW i \in 1..(Len(s) + 1) PROVE a[i] = c[i]
    <2>1. CASE i = 1
      BY <1>1, <1>2, <1>5, <2>1
    <2>2. CASE i # 1
      <3>1. i - 1 \in 1..Len(s) /\ i - 1 + 1 = i
        BY <1>1, <2>2
      <3>2. r[i] = s[i - 1] /\ c[i] = b[i - 1]
        BY <1>1, <1>5, <3>1
      <3> QED
        BY <1>2, <1>3, <3>1, <3>2
    <2> QED
      BY <2>1, <2>2
  <1>7. a = c
    BY <1>2, <1>5, <1>6, SeqEqual
  <1> QED
    BY <1>0, <1>7 DEF a, b, c

\* Of a row that has lost an element.
LEMMA ValuesOfRemoveAt ==
    ASSUME NEW V, NEW vs \in [Elems -> V], NEW ws \in [Elems -> V],
           NEW s \in Seq(Elems), NEW k \in 1..Len(s),
           \A i \in 1..Len(s) : i # k => ws[s[i]] = vs[s[i]]
    PROVE  ValuesOf(ws, RemoveAt(s, k)) = RemoveAt(ValuesOf(vs, s), k)
  <1>0. PICK r : r = RemoveAt(s, k)
    OBVIOUS
  <1> DEFINE a == ValuesOf(ws, r)
             b == ValuesOf(vs, s)
             c == RemoveAt(b, k)
             n == Len(s)
  <1>1. /\ r \in Seq(Elems) /\ Len(r) = n - 1
        /\ \A i \in 1..(n - 1) :
              r[i] = IF i < k THEN s[i] ELSE s[i + 1]
    BY <1>0, RemoveAtTyped
  <1>2. /\ a \in Seq(V) /\ Len(a) = n - 1
        /\ \A i \in 1..(n - 1) : a[i] = ws[r[i]]
    <2>1. /\ a \in Seq(V) /\ Len(a) = Len(r)
          /\ \A i \in 1..Len(r) : a[i] = ws[r[i]]
      <3>1. r \in Seq(Elems) /\ ws \in [Elems -> V]
        BY <1>1
      <3> QED
        BY ONLY <3>1, ValuesTyped
    <2>2. Len(r) = n - 1
      BY <1>1
    <2> HIDE DEF a
    <2> QED
      BY <2>1, <2>2
  <1>3. /\ b \in Seq(V) /\ Len(b) = n /\ n \in Nat
        /\ \A i \in 1..n : b[i] = vs[s[i]]
    BY ValuesTyped
  <1>4. /\ c \in Seq(V) /\ Len(c) = n - 1
        /\ \A i \in 1..(n - 1) : c[i] = IF i < k THEN b[i] ELSE b[i + 1]
    <2> HIDE DEF b
    <2> QED
      BY <1>3, RemoveAtTyped
  <1>5. k \in 1..n /\ \A i \in 1..n : i # k => ws[s[i]] = vs[s[i]]
    OBVIOUS
  <1> HIDE DEF a, b, c, n
  <1>6. ASSUME NEW i \in 1..(n - 1) PROVE a[i] = c[i]
    <2>1. CASE i < k
      <3>1. i \in 1..n /\ i # k
        BY <1>3, <1>5, <2>1
      <3>2. r[i] = s[i] /\ c[i] = b[i]
        BY <1>1, <1>4, <2>1
      <3> QED
        BY <1>2, <1>3, <1>5, <3>1, <3>2
    <2>2. CASE ~(i < k)
      <3>1. i + 1 \in 1..n /\ i + 1 # k
        BY <1>3, <1>5, <2>2
      <3>2. a[i] = c[i]
        <4>1. r[i] = s[i + 1] /\ c[i] = b[i + 1]
          BY <1>1, <1>4, <2>2
        <4> QED
          BY <1>2, <1>3, <1>5, <3>1, <4>1
      <3> QED
        BY <3>2
    <2> QED
      BY <2>1, <2>2
  <1>7. a = c
    BY <1>2, <1>4, <1>6, SeqEqual
  <1> QED
    BY <1>0, <1>7 DEF a, b, c

-----------------------------------------------------------------------------
(***************************************************************************)
(* Each operation changes the row as the list.                             *)
(***************************************************************************)
\* What a row says of the list.
LEMMA RowFacts ==
    ASSUME ListTypeOK, NEW s, Linked(s)
    PROVE  /\ s \in Seq(Elems) /\ Len(s) \in Nat /\ NULL \notin Elems
           /\ \A i \in 1..Len(s) : s[i] \in Elems /\ s[i] # NULL /\ s[i] \in live
           /\ \A x \in live : \E i \in 1..Len(s) : s[i] = x
           /\ \A i, j \in 1..Len(s) : s[i] = s[j] => i = j
           /\ s = <<>> <=> Len(s) = 0
           /\ head = NULL <=> Len(s) = 0
           /\ head # NULL => head = s[1] /\ tail = s[Len(s)]
           /\ IsFiniteSet(live) /\ Cardinality(live) \in Nat /\ live \subseteq Elems
  <1>1. /\ s \in Seq(Elems) /\ Len(s) \in Nat /\ NULL \notin Elems
        /\ \A i \in 1..Len(s) : s[i] \in Elems
        /\ s = <<>> <=> Len(s) = 0
    BY LenProperties, ElementOfSeq, EmptySeq, ListAssumption DEF Linked
  <1>2. 1 \in 1..Len(s) <=> Len(s) # 0
    BY <1>1
  <1>3. /\ head = NULL <=> Len(s) = 0
        /\ head # NULL => head = s[1] /\ tail = s[Len(s)]
    BY <1>1, <1>2 DEF Linked, ElemAt
  <1>4. IsFiniteSet(live) /\ Cardinality(live) \in Nat /\ live \subseteq Elems
    <2>1. live \in SUBSET Elems
      BY DEF ListTypeOK
    <2> QED
      BY <2>1, ListAssumption, FS_Subset, FS_CardinalityType
  <1>5. live = {s[i] : i \in 1..Len(s)} /\ \A i, j \in 1..Len(s) : s[i] = s[j] => i = j
    BY DEF Linked
  <1> QED
    BY <1>1, <1>3, <1>4, <1>5

\* A new element is one that was not allocated.
LEMMA FreshElement ==
    ASSUME ListTypeOK, Allocate
    PROVE  /\ Fresh \in Elems \ live
           /\ Cardinality(live') = Cardinality(live) + 1
           /\ count' = Cardinality(live') /\ live' \subseteq Elems
  <1>1. live \in SUBSET Elems /\ live # Elems
    BY DEF ListTypeOK, Allocate
  <1>2. \E e : e \in Elems \ live
    BY <1>1
  <1>3. Fresh \in Elems \ live
    BY <1>2 DEF Fresh
  <1>4. IsFiniteSet(live)
    BY <1>1, ListAssumption, FS_Subset
  <1> PICK e : e = Fresh
    OBVIOUS
  <1>5. Cardinality(live \cup {e}) = Cardinality(live) + 1
    BY <1>3, <1>4, FS_AddElement
  <1> QED
    BY <1>1, <1>3, <1>5 DEF Allocate, ListTypeOK

\* _Ga_list_push: the new element is the last.
LEMMA PushKeeps ==
    ASSUME ListTypeOK, NEW s, Linked(s), NEW v \in ListVals, ListPush(v),
           NEW e, e = Fresh
    PROVE  /\ ListTypeOK' /\ Linked(Append(s, e))'
           /\ e \in Elems \ live /\ val' = [val EXCEPT ![e] = v] /\ iter' = iter
  <1> DEFINE n == Len(s)
  <1>0. PICK r : r = Append(s, e)
    OBVIOUS
  <1>1. /\ s \in Seq(Elems) /\ n \in Nat /\ NULL \notin Elems
        /\ \A i \in 1..n : s[i] \in Elems /\ s[i] # NULL /\ s[i] \in live
        /\ \A x \in live : \E i \in 1..n : s[i] = x
        /\ \A i, j \in 1..n : s[i] = s[j] => i = j
        /\ head = NULL <=> n = 0
        /\ head # NULL => head = s[1] /\ tail = s[n]
    BY RowFacts
  <1>2. /\ e \in Elems /\ e \notin live /\ count' = Cardinality(live')
        /\ live' \subseteq Elems /\ live' = live \cup {e}
    BY FreshElement DEF ListPush, Allocate
  <1>3. /\ r \in Seq(Elems) /\ Len(r) = n + 1
        /\ \A i \in 1..n : r[i] = s[i]
        /\ r[n + 1] = e
    BY <1>0, <1>1, <1>2, AppendTyped
  <1>4. /\ val' = [val EXCEPT ![e] = v] /\ iter' = iter /\ use' = use
        /\ next' = IF head = NULL THEN next ELSE [next EXCEPT ![tail] = e]
        /\ prev' = IF head = NULL THEN prev ELSE [prev EXCEPT ![e] = tail]
        /\ tail' = e
        /\ head' = IF head = NULL THEN e ELSE head
    BY DEF ListPush, PushLinks
  <1>5. /\ use \in {"items", "refs"} /\ head \in Ptr /\ tail \in Ptr /\ iter \in Ptr
        /\ val \in [Elems -> ListVals \cup {NULL}]
        /\ next \in [Elems -> Ptr] /\ prev \in [Elems -> Ptr]
        /\ iter \in live \cup {NULL}
        /\ head = ElemAt(s, 1)
        /\ \A i \in 1..n : next[s[i]] = ElemAt(s, i + 1)
        /\ use = "refs" => \A i \in 1..n : prev[s[i]] = ElemAt(s, i - 1)
        /\ \A x \in Elems \ live : next[x] = NULL /\ prev[x] = NULL
    BY DEF ListTypeOK, Linked
  <1> HIDE DEF n
  <1>6. ListTypeOK'
    <2>1. e \in Ptr /\ v \in ListVals \cup {NULL}
      BY <1>2 DEF Ptr
    <2> QED
      BY <1>2, <1>4, <1>5, <2>1 DEF ListTypeOK
  <1>7. \A i, j \in 1..(n + 1) : r[i] = r[j] => i = j
    <2>1. \A i \in 1..(n + 1) : i = n + 1 \/ i \in 1..n
      BY <1>1
    <2> QED
      BY <1>1, <1>2, <1>3, <2>1
  <1>8. live' = {r[i] : i \in 1..(n + 1)}
    <2>1. \A i \in 1..(n + 1) : i = n + 1 \/ i \in 1..n
      BY <1>1
    <2>2. n + 1 \in 1..(n + 1) /\ \A i \in 1..n : i \in 1..(n + 1)
      BY <1>1
    <2> QED
      BY <1>1, <1>2, <1>3, <2>1, <2>2
  <1>9. head' = ElemAt(r, 1) /\ tail' = r[n + 1]
    <2>1. 1 \in 1..Len(r)
      BY <1>1, <1>3
    <2>2. CASE n = 0
      BY <1>1, <1>3, <1>4, <2>1, <2>2 DEF ElemAt
    <2>3. CASE n # 0
      <3>1. 1 \in 1..n
        BY <1>1, <2>3
      <3> QED
        BY <1>1, <1>3, <1>4, <2>1, <2>3, <3>1 DEF ElemAt
    <2> QED
      BY <2>2, <2>3
  <1>10. ASSUME NEW i \in 1..(n + 1) PROVE next'[r[i]] = ElemAt(r, i + 1)
    <2>1. CASE i = n + 1
      <3>1. next'[e] = NULL
        <4>1. next[e] = NULL
          BY <1>2, <1>5
        <4>2. head # NULL => tail # e /\ tail \in Elems
          <5>1. head # NULL => n \in 1..n
            BY <1>1
          <5> QED
            BY <1>1, <1>2, <5>1
        <4> QED
          BY <1>2, <1>4, <1>5, <4>1, <4>2
      <3>2. i + 1 \notin 1..Len(r)
        BY <1>1, <1>3, <2>1
      <3> QED
        BY <1>3, <2>1, <3>1, <3>2 DEF ElemAt
    <2>2. CASE i = n
      <3>1. i \in 1..n /\ n # 0 /\ i + 1 \in 1..Len(r)
        BY <1>1, <1>3, <2>2
      <3>2. tail = s[n] /\ head # NULL /\ tail \in Elems
        BY <1>1, <2>2, <3>1
      <3>3. next'[tail] = e
        BY <1>4, <1>5, <3>2
      <3> QED
        BY <1>3, <2>2, <3>1, <3>2, <3>3 DEF ElemAt
    <2>3. CASE i # n + 1 /\ i # n
      <3>1. /\ i \in 1..n /\ n \in 1..n /\ n # 0 /\ i + 1 \in 1..n /\ i + 1 \in 1..Len(r)
        BY <1>1, <1>3, <2>3
      <3>2. tail = s[n] /\ head # NULL /\ s[i] # s[n] /\ s[i] \in Elems
        BY <1>1, <2>3, <3>1
      <3>3. next'[s[i]] = next[s[i]]
        BY <1>4, <1>5, <3>2
      <3>4. next[s[i]] = s[i + 1]
        BY <1>5, <3>1 DEF ElemAt, n
      <3> QED
        BY <1>3, <3>1, <3>3, <3>4 DEF ElemAt
    <2> QED
      BY <2>1, <2>2, <2>3
  <1>11. ASSUME use = "refs", NEW i \in 1..(n + 1) PROVE prev'[r[i]] = ElemAt(r, i - 1)
    <2>1. CASE i = n + 1
      <3>1. CASE n = 0
        <4>1. prev'[e] = NULL /\ i - 1 \notin 1..Len(r)
          BY <1>1, <1>2, <1>4, <1>5, <2>1, <3>1
        <4> QED
          BY <1>3, <2>1, <4>1 DEF ElemAt
      <3>2. CASE n # 0
        <4>1. n \in 1..n /\ i - 1 = n /\ i - 1 \in 1..Len(r)
          BY <1>1, <1>3, <2>1, <3>2
        <4>2. prev'[e] = s[n]
          BY <1>1, <1>2, <1>4, <1>5, <3>2
        <4> QED
          BY <1>3, <2>1, <4>1, <4>2 DEF ElemAt
      <3> QED
        BY <3>1, <3>2
    <2>2. CASE i # n + 1
      <3>1. i \in 1..n
        BY <1>1, <2>2
      <3>2. s[i] # e /\ s[i] \in Elems
        BY <1>1, <1>2, <3>1
      <3>3. prev'[s[i]] = ElemAt(s, i - 1)
        BY <1>4, <1>5, <1>11, <3>1, <3>2
      <3>4. ElemAt(s, i - 1) = ElemAt(r, i - 1)
        <4>1. i - 1 \in 1..n <=> i - 1 \in 1..(n + 1)
          BY <1>1, <3>1
        <4> QED
          BY <1>3, <4>1 DEF ElemAt, n
      <3> QED
        BY <1>3, <3>1, <3>3, <3>4
    <2> QED
      BY <2>1, <2>2
  <1>12. ASSUME NEW x \in Elems \ live' PROVE next'[x] = NULL /\ prev'[x] = NULL
    <2>1. x \in Elems \ live /\ x # e
      BY <1>2
    <2>2. head # NULL => tail # x
      <3>1. head # NULL => n \in 1..n
        BY <1>1
      <3> QED
        BY <1>1, <2>1, <3>1
    <2> QED
      BY <1>4, <1>5, <2>1, <2>2
  <1>13. Linked(r)'
    BY <1>2, <1>3, <1>4, <1>5, <1>7, <1>8, <1>9, <1>10, <1>11, <1>12 DEF Linked
  <1> QED
    BY <1>0, <1>2, <1>4, <1>6, <1>13

\* _Ga_list_unshift: the new element is the first.
LEMMA UnshiftKeeps ==
    ASSUME ListTypeOK, NEW s, Linked(s), NEW v \in ListVals, ListUnshift(v),
           NEW e, e = Fresh
    PROVE  /\ ListTypeOK' /\ Linked(<<e>> \o s)'
           /\ e \in Elems \ live /\ val' = [val EXCEPT ![e] = v] /\ iter' = iter
  <1> DEFINE n == Len(s)
  <1>0. PICK r : r = <<e>> \o s
    OBVIOUS
  <1>1. /\ s \in Seq(Elems) /\ n \in Nat /\ NULL \notin Elems
        /\ \A i \in 1..n : s[i] \in Elems /\ s[i] # NULL /\ s[i] \in live
        /\ \A x \in live : \E i \in 1..n : s[i] = x
        /\ \A i, j \in 1..n : s[i] = s[j] => i = j
        /\ head = NULL <=> n = 0
        /\ head # NULL => head = s[1] /\ tail = s[n]
    BY RowFacts
  <1>2. /\ e \in Elems /\ e \notin live /\ count' = Cardinality(live')
        /\ live' \subseteq Elems /\ live' = live \cup {e}
    BY FreshElement DEF ListUnshift, Allocate
  <1>3. /\ r \in Seq(Elems) /\ Len(r) = n + 1 /\ r[1] = e
        /\ \A i \in 1..n : r[i + 1] = s[i]
    BY <1>0, <1>1, <1>2, PrependTyped
  <1>4. /\ val' = [val EXCEPT ![e] = v] /\ iter' = iter /\ use' = use /\ use = "items"
        /\ next' = [next EXCEPT ![e] = head] /\ prev' = prev
        /\ tail' = IF head = NULL THEN e ELSE tail
        /\ head' = e
    BY DEF ListUnshift
  <1>5. /\ use \in {"items", "refs"} /\ head \in Ptr /\ tail \in Ptr /\ iter \in Ptr
        /\ val \in [Elems -> ListVals \cup {NULL}]
        /\ next \in [Elems -> Ptr] /\ prev \in [Elems -> Ptr]
        /\ iter \in live \cup {NULL}
        /\ head = ElemAt(s, 1)
        /\ \A i \in 1..n : next[s[i]] = ElemAt(s, i + 1)
        /\ \A x \in Elems \ live : next[x] = NULL /\ prev[x] = NULL
    BY DEF ListTypeOK, Linked
  <1> HIDE DEF n
  <1>6. ListTypeOK'
    <2>1. e \in Ptr /\ v \in ListVals \cup {NULL}
      BY <1>2 DEF Ptr
    <2> QED
      BY <1>2, <1>4, <1>5, <2>1 DEF ListTypeOK
  \* A place of the new row is the first or one after a place of the old row.
  <1>7. \A i \in 1..(n + 1) :
           i = 1 \/ (i - 1 \in 1..n /\ r[i] = s[i - 1] /\ r[i] \in live)
    <2>1. ASSUME NEW i \in 1..(n + 1), i # 1
          PROVE  i - 1 \in 1..n /\ r[i] = s[i - 1] /\ r[i] \in live
      <3>1. i - 1 \in 1..n /\ i - 1 + 1 = i
        BY <1>1, <2>1
      <3> QED
        BY <1>1, <1>3, <3>1
    <2> QED
      BY <2>1
  <1>8. \A i, j \in 1..(n + 1) : r[i] = r[j] => i = j
    <2> SUFFICES ASSUME NEW i \in 1..(n + 1), NEW j \in 1..(n + 1), r[i] = r[j]
                 PROVE  i = j
      OBVIOUS
    <2>1. i = 1 <=> j = 1
      BY <1>2, <1>3, <1>7
    <2>2. CASE i # 1
      <3>1. s[i - 1] = s[j - 1] /\ i - 1 \in 1..n /\ j - 1 \in 1..n
        BY <1>7, <2>1, <2>2
      <3>2. i - 1 = j - 1
        BY <1>1, <3>1
      <3> QED
        BY <1>1, <3>2
    <2> QED
      BY <2>1, <2>2
  <1>9. live' = {r[i] : i \in 1..(n + 1)}
    <2>1. 1 \in 1..(n + 1) /\ \A i \in 1..n : i + 1 \in 1..(n + 1)
      BY <1>1
    <2>2. \A x \in live : \E i \in 1..(n + 1) : r[i] = x
      BY <1>1, <1>3, <2>1
    <2> QED
      BY <1>2, <1>3, <1>7, <2>1, <2>2
  <1>10. head' = ElemAt(r, 1) /\ tail' = r[n + 1]
    <2>1. 1 \in 1..Len(r)
      BY <1>1, <1>3
    <2>2. CASE n = 0
      BY <1>1, <1>3, <1>4, <2>1, <2>2 DEF ElemAt
    <2>3. CASE n # 0
      <3>1. n \in 1..n
        BY <1>1, <2>3
      <3> QED
        BY <1>1, <1>3, <1>4, <2>1, <2>3, <3>1 DEF ElemAt
    <2> QED
      BY <2>2, <2>3
  <1>11. ASSUME NEW i \in 1..(n + 1) PROVE next'[r[i]] = ElemAt(r, i + 1)
    <2>1. CASE i = 1
      <3>1. next'[r[1]] = head
        BY <1>2, <1>3, <1>4, <1>5
      <3>2. ElemAt(s, 1) = ElemAt(r, 2)
        <4>1. 1 \in 1..n <=> 2 \in 1..(n + 1)
          BY <1>1
        <4>2. 1 \in 1..n => r[2] = s[1]
          BY <1>3
        <4> QED
          BY <1>3, <4>1, <4>2 DEF ElemAt, n
      <3> QED
        BY <1>5, <2>1, <3>1, <3>2
    <2>2. CASE i # 1
      <3>1. /\ i - 1 \in 1..n /\ r[i] = s[i - 1] /\ r[i] # e /\ r[i] \in Elems
            /\ i - 1 + 1 = i
        BY <1>1, <1>2, <1>7, <2>2
      <3>2. next'[r[i]] = ElemAt(s, i)
        BY <1>4, <1>5, <3>1
      <3>3. ElemAt(s, i) = ElemAt(r, i + 1)
        <4>1. i \in 1..n <=> i + 1 \in 1..(n + 1)
          BY <1>1
        <4>2. i \in 1..n => r[i + 1] = s[i]
          BY <1>3
        <4> QED
          BY <1>3, <4>1, <4>2 DEF ElemAt, n
      <3> QED
        BY <3>2, <3>3
    <2> QED
      BY <2>1, <2>2
  <1>12. \A x \in Elems \ live' : next'[x] = NULL /\ prev'[x] = NULL
    BY <1>2, <1>4, <1>5
  <1>13. Linked(r)'
    <2>1. use' # "refs"
      BY <1>4
    <2> QED
      BY <1>2, <1>3, <1>4, <1>5, <1>8, <1>9, <1>10, <1>11, <1>12, <2>1 DEF Linked
  <1> QED
    BY <1>0, <1>2, <1>4, <1>6, <1>13

\* _Ga_list_remove finds the first element that holds the value.
LEMMA HolderIsFirst ==
    ASSUME ListTypeOK, NEW s, Linked(s), NEW v, Holds(v)
    PROVE  \E k \in 1..Len(s) :
              /\ Holder(v) = s[k] /\ val[s[k]] = v
              /\ \A j \in 1..(k - 1) : val[s[j]] # v
  <1>1. Walk = s /\ DOMAIN s = 1..Len(s) /\ Len(s) \in Nat
    BY RowsSeen, RowFacts, LenProperties DEF RowsAreSeen, Seen
  <1> DEFINE holders == {i \in 1..Len(s) : val[s[i]] = v}
             First(i) == /\ val[Walk[i]] = v
                         /\ \A j \in 1..(i - 1) : val[Walk[j]] # v
  <1>2. holders # {}
    BY <1>1 DEF Holds
  <1>3. PICK x \in holders : \A y \in holders : x <= y
    BY <1>1, <1>2, LeastPlace
  <1>4. x \in 1..Len(s) /\ First(x)
    <2>1. ASSUME NEW j \in 1..(x - 1) PROVE val[s[j]] # v
      <3>1. j \in 1..Len(s) /\ ~(x <= j)
        BY <1>1, <1>3
      <3> QED
        BY <1>3, <3>1
    <2> QED
      BY <1>1, <1>3, <2>1
  <1> DEFINE k == CHOOSE i \in 1..Len(s) : First(i)
  <1>5. k \in 1..Len(s) /\ First(k)
    <2> HIDE DEF First
    <2> QED
      BY <1>4
  <1>6. Holder(v) = s[k]
    BY <1>1 DEF Holder
  <1> HIDE DEF k
  <1> QED
    BY <1>1, <1>5, <1>6

\* _Ga_list_remove: the element at place k leaves, and its neighbours are
\* linked to each other.
LEMMA RemoveKeeps ==
    ASSUME ListTypeOK, NEW s, Linked(s), NEW v, ListRemove(v), NEW e, e = Holder(v),
           NEW k \in 1..Len(s), e = s[k]
    PROVE  /\ ListTypeOK' /\ Linked(RemoveAt(s, k))'
           /\ val' = [x \in Elems |-> IF x = e THEN NULL ELSE val[x]]
           /\ iter = NULL /\ iter' = NULL
  <1> DEFINE n == Len(s)
  <1>0. PICK r : r = RemoveAt(s, k)
    OBVIOUS
  <1>1. /\ s \in Seq(Elems) /\ n \in Nat /\ NULL \notin Elems
        /\ \A i \in 1..n : s[i] \in Elems /\ s[i] # NULL /\ s[i] \in live
        /\ \A x \in live : \E i \in 1..n : s[i] = x
        /\ \A i, j \in 1..n : s[i] = s[j] => i = j
        /\ head = NULL <=> n = 0
        /\ head # NULL => head = s[1] /\ tail = s[n]
        /\ IsFiniteSet(live) /\ Cardinality(live) \in Nat /\ live \subseteq Elems
    BY RowFacts
  <1>2. k \in 1..n /\ k \in Nat /\ e = s[k] /\ e \in live /\ e \in Elems /\ e # NULL
        /\ n # 0 /\ head # NULL
    BY <1>1
  <1>3. /\ r \in Seq(Elems) /\ Len(r) = n - 1
        /\ \A i \in 1..(n - 1) : r[i] = IF i < k THEN s[i] ELSE s[i + 1]
    <2>1. s \in Seq(Elems) /\ k \in 1..Len(s)
      BY <1>1
    <2>2. /\ r \in Seq(Elems) /\ Len(r) = Len(s) - 1
          /\ \A i \in 1..(Len(s) - 1) : r[i] = IF i < k THEN s[i] ELSE s[i + 1]
      BY ONLY <1>0, <2>1, RemoveAtTyped
    <2> QED
      BY <2>2
  <1>4. /\ use \in {"items", "refs"} /\ head \in Ptr /\ tail \in Ptr
        /\ count = Cardinality(live)
        /\ val \in [Elems -> ListVals \cup {NULL}]
        /\ next \in [Elems -> Ptr] /\ prev \in [Elems -> Ptr]
        /\ head = ElemAt(s, 1)
        /\ \A i \in 1..n : next[s[i]] = ElemAt(s, i + 1)
        /\ use = "refs" => \A i \in 1..n : prev[s[i]] = ElemAt(s, i - 1)
        /\ \A x \in Elems \ live : next[x] = NULL /\ prev[x] = NULL
    BY DEF ListTypeOK, Linked
  <1>5. /\ use = "refs" /\ use' = use /\ iter = NULL /\ iter' = iter
        /\ next' = IF prev[e] = NULL THEN [next EXCEPT ![e] = NULL]
                   ELSE [next EXCEPT ![prev[e]] = next[e], ![e] = NULL]
        /\ prev' = IF next[e] = NULL THEN [prev EXCEPT ![e] = NULL]
                   ELSE [prev EXCEPT ![next[e]] = prev[e], ![e] = NULL]
        /\ head' = IF e = head THEN next[e] ELSE head
        /\ tail' = IF e = tail THEN prev[e] ELSE tail
        /\ live' = live \ {e}
        /\ val' = [x \in Elems |-> IF x \in {e} THEN NULL ELSE val[x]]
        /\ count' = count - 1
    BY DEF ListRemove, Freed
  <1>6. next[e] = ElemAt(s, k + 1) /\ prev[e] = ElemAt(s, k - 1)
    BY <1>2, <1>4, <1>5
  <1>7. next[e] \in Ptr /\ prev[e] \in Ptr
    BY <1>2, <1>4
  <1> HIDE DEF n
  <1>8. next[e] # NULL => k + 1 \in 1..n /\ next[e] = s[k + 1] /\ next[e] \in Elems
    BY <1>1, <1>6 DEF ElemAt, n
  <1>9. prev[e] # NULL => k - 1 \in 1..n /\ prev[e] = s[k - 1] /\ prev[e] \in Elems
    BY <1>1, <1>6 DEF ElemAt, n
  <1>10. /\ next[e] = NULL => k + 1 \notin 1..n
         /\ prev[e] = NULL => k - 1 \notin 1..n
    BY <1>1, <1>6 DEF ElemAt, n
  <1>11. /\ next' \in [Elems -> Ptr] /\ next'[e] = NULL
         /\ \A x \in Elems : x # e =>
               next'[x] = IF prev[e] # NULL /\ x = prev[e] THEN next[e] ELSE next[x]
    <2>1. NULL \in Ptr
      BY DEF Ptr
    <2> QED
      BY <1>2, <1>4, <1>5, <1>7, <1>9, <2>1
  <1>12. /\ prev' \in [Elems -> Ptr] /\ prev'[e] = NULL
         /\ \A x \in Elems : x # e =>
               prev'[x] = IF next[e] # NULL /\ x = next[e] THEN prev[e] ELSE prev[x]
    <2>1. NULL \in Ptr
      BY DEF Ptr
    <2> QED
      BY <1>2, <1>4, <1>5, <1>7, <1>8, <2>1
  <1>13. ASSUME NEW i \in 1..n, i # k
         PROVE  /\ next'[s[i]] = IF i = k - 1 THEN next[e] ELSE next[s[i]]
                /\ prev'[s[i]] = IF i = k + 1 THEN prev[e] ELSE prev[s[i]]
    <2>1. s[i] \in Elems /\ s[i] # e
      BY <1>1, <1>2, <1>13
    <2>2. (prev[e] # NULL /\ s[i] = prev[e]) <=> i = k - 1
      BY <1>1, <1>9, <1>10
    <2>3. (next[e] # NULL /\ s[i] = next[e]) <=> i = k + 1
      BY <1>1, <1>8, <1>10
    <2> QED
      BY <1>11, <1>12, <2>1, <2>2, <2>3
  \* The places of the new row are those of the old one, except for k.
  <1>14. \A i \in 1..(n - 1) :
            /\ i < k => i \in 1..n /\ i # k /\ r[i] = s[i]
            /\ ~(i < k) => i + 1 \in 1..n /\ i + 1 # k /\ r[i] = s[i + 1]
    BY <1>1, <1>2, <1>3
  <1>15. \A i, j \in 1..(n - 1) : r[i] = r[j] => i = j
    BY <1>1, <1>2, <1>14
  <1>16. live' = {r[i] : i \in 1..(n - 1)}
    <2>1. \A i \in 1..(n - 1) : r[i] \in live'
      BY <1>1, <1>2, <1>5, <1>14
    <2>2. ASSUME NEW x \in live' PROVE \E i \in 1..(n - 1) : r[i] = x
      <3>1. PICK i \in 1..n : s[i] = x
        BY <1>1, <1>5
      <3>2. i # k
        BY <1>2, <1>5, <3>1
      <3>3. CASE i < k
        <4>1. i \in 1..(n - 1)
          BY <1>1, <1>2, <3>3
        <4> QED
          BY <1>14, <3>1, <3>3, <4>1
      <3>4. CASE ~(i < k)
        <4>1. i - 1 \in 1..(n - 1) /\ ~(i - 1 < k) /\ i - 1 + 1 = i
          BY <1>1, <1>2, <3>2, <3>4
        <4> QED
          BY <1>14, <3>1, <4>1
      <3> QED
        BY <3>3, <3>4
    <2> QED
      BY <2>1, <2>2
  <1>17. head' = ElemAt(r, 1)
    <2>1. 1 \in 1..n /\ head = s[1] /\ (e = head <=> k = 1)
      <3>1. 1 \in 1..n
        BY <1>1, <1>2
      <3> QED
        BY <1>1, <1>2, <3>1
    <2>2. CASE k = 1
      <3>1. 2 \in 1..n <=> 1 \in 1..(n - 1)
        BY <1>1
      <3>2. 1 \in 1..(n - 1) => r[1] = s[2]
        BY <1>14, <2>2
      <3> QED
        BY <1>3, <1>5, <1>6, <2>1, <2>2, <3>1, <3>2 DEF ElemAt, n
    <2>3. CASE k # 1
      <3>1. 1 \in 1..(n - 1) /\ 1 < k
        BY <1>1, <1>2, <2>3
      <3> QED
        BY <1>3, <1>5, <1>14, <2>1, <2>3, <3>1 DEF ElemAt
    <2> QED
      BY <2>2, <2>3
  <1>18. r # <<>> => tail' = r[Len(r)]
    <2>1. ASSUME r # <<>> PROVE tail' = r[n - 1]
      <3>1. n - 1 \in 1..(n - 1) /\ n \in 1..n
        BY <1>1, <1>3, <2>1, EmptySeq
      <3>2. e = tail <=> k = n
        BY <1>1, <1>2, <3>1
      <3>3. CASE k = n
        <4>1. n - 1 < k /\ n - 1 \in 1..n
          BY <1>1, <3>1, <3>3
        <4>2. prev[e] = s[n - 1]
          BY <1>6, <3>3, <4>1 DEF ElemAt, n
        <4> QED
          BY <1>5, <1>14, <3>1, <3>2, <3>3, <4>1, <4>2
      <3>4. CASE k # n
        <4>1. ~(n - 1 < k) /\ n - 1 + 1 = n
          BY <1>1, <1>2, <3>4
        <4> QED
          BY <1>1, <1>2, <1>5, <1>14, <3>1, <3>2, <3>4, <4>1
      <3> QED
        BY <3>3, <3>4
    <2> QED
      BY <1>3, <2>1
  <1>19. ASSUME NEW i \in 1..(n - 1) PROVE next'[r[i]] = ElemAt(r, i + 1)
    <2>1. CASE i + 1 < k
      <3>1. i \in 1..n /\ i # k /\ i < k /\ i # k - 1 /\ i + 1 \in 1..n /\ i + 1 \in 1..(n - 1)
        BY <1>1, <1>2, <2>1
      <3>2. next'[r[i]] = next[s[i]] /\ r[i + 1] = s[i + 1]
        BY <1>13, <1>14, <2>1, <3>1
      <3> QED
        BY <1>3, <1>4, <3>1, <3>2 DEF ElemAt, n
    <2>2. CASE i + 1 = k
      <3>1. i \in 1..n /\ i # k /\ i < k /\ i = k - 1 /\ ~(i + 1 < k)
            /\ (k + 1 \in 1..n <=> i + 1 \in 1..(n - 1))
        BY <1>1, <1>2, <2>2
      <3>2. next'[r[i]] = next[e]
        BY <1>13, <1>14, <3>1
      <3>3. i + 1 \in 1..(n - 1) => r[i + 1] = s[k + 1]
        BY <1>14, <2>2, <3>1
      <3> QED
        BY <1>3, <1>6, <3>1, <3>2, <3>3 DEF ElemAt, n
    <2>3. CASE i + 1 > k
      <3>1. /\ ~(i < k) /\ i + 1 \in 1..n /\ i + 1 # k /\ i + 1 # k - 1 /\ ~(i + 1 < k)
            /\ (i + 1 + 1 \in 1..n <=> i + 1 \in 1..(n - 1))
        BY <1>1, <1>2, <2>3
      <3>2. next'[r[i]] = next[s[i + 1]] /\ next[s[i + 1]] = ElemAt(s, i + 1 + 1)
        BY <1>4, <1>13, <1>14, <3>1
      <3>3. i + 1 \in 1..(n - 1) => r[i + 1] = s[i + 1 + 1]
        BY <1>14, <3>1
      <3> QED
        BY <1>3, <3>1, <3>2, <3>3 DEF ElemAt, n
    <2> QED
      BY <1>1, <1>2, <2>1, <2>2, <2>3
  <1>20. ASSUME NEW i \in 1..(n - 1) PROVE prev'[r[i]] = ElemAt(r, i - 1)
    <2>1. CASE i < k
      <3>1. /\ i \in 1..n /\ i # k /\ i # k + 1 /\ i - 1 < k
            /\ (i - 1 \in 1..n <=> i - 1 \in 1..(n - 1))
        BY <1>1, <1>2, <2>1
      <3>2. prev'[r[i]] = ElemAt(s, i - 1)
        BY <1>4, <1>5, <1>13, <1>14, <2>1, <3>1
      <3>3. i - 1 \in 1..(n - 1) => r[i - 1] = s[i - 1]
        BY <1>14, <3>1
      <3> QED
        BY <1>3, <3>1, <3>2, <3>3 DEF ElemAt, n
    <2>2. CASE i = k
      <3>1. /\ ~(i < k) /\ i + 1 \in 1..n /\ i + 1 # k /\ i + 1 = k + 1 /\ k - 1 < k
            /\ (k - 1 \in 1..n <=> i - 1 \in 1..(n - 1))
        BY <1>1, <1>2, <2>2
      <3>2. prev'[r[i]] = prev[e]
        BY <1>13, <1>14, <3>1
      <3>3. i - 1 \in 1..(n - 1) => r[i - 1] = s[k - 1]
        BY <1>14, <2>2, <3>1
      <3> QED
        BY <1>3, <1>6, <3>1, <3>2, <3>3 DEF ElemAt, n
    <2>3. CASE i > k
      <3>1. /\ ~(i < k) /\ i + 1 \in 1..n /\ i + 1 # k /\ i + 1 # k + 1 /\ ~(i - 1 < k)
            /\ i - 1 \in 1..(n - 1) /\ i - 1 + 1 = i /\ i + 1 - 1 = i /\ i \in 1..n
        BY <1>1, <1>2, <2>3
      <3>2. prev'[r[i]] = prev[s[i + 1]]
        BY <1>13, <1>14, <3>1
      <3>4. prev[s[i + 1]] = ElemAt(s, i + 1 - 1)
        BY <1>4, <1>5, <3>1
      <3>3. r[i - 1] = s[i]
        BY <1>14, <3>1
      <3> QED
        BY <1>3, <3>1, <3>2, <3>3, <3>4 DEF ElemAt, n
    <2> QED
      BY <1>1, <1>2, <2>1, <2>2, <2>3
  <1>21. ASSUME NEW x \in Elems \ live' PROVE next'[x] = NULL /\ prev'[x] = NULL
    <2>1. CASE x = e
      BY <1>11, <1>12, <2>1
    <2>2. CASE x # e
      <3>1. x \in Elems \ live
        BY <1>5, <2>2
      <3>2. /\ prev[e] # NULL => prev[e] # x
            /\ next[e] # NULL => next[e] # x
        BY <1>1, <1>8, <1>9, <3>1
      <3> QED
        BY <1>4, <1>11, <1>12, <2>2, <3>1, <3>2
    <2> QED
      BY <2>1, <2>2
  <1>22. Linked(r)'
    <2>1. iter' \in live' \cup {NULL}
      BY <1>5
    <2> QED
      BY <1>3, <1>15, <1>16, <1>17, <1>18, <1>19, <1>20, <1>21, <2>1 DEF Linked
  <1>23. val' = [x \in Elems |-> IF x = e THEN NULL ELSE val[x]]
    BY <1>5
  <1>24. ListTypeOK'
    <2>1. Cardinality(live \ {e}) = Cardinality(live) - 1
      BY <1>1, <1>2, FS_RemoveElement
    <2>2. count' = Cardinality(live') /\ live' \subseteq Elems
      BY <1>1, <1>4, <1>5, <2>1
    <2>3. val' \in [Elems -> ListVals \cup {NULL}]
      BY <1>4, <1>23
    <2>4. head' \in Ptr /\ tail' \in Ptr /\ iter' \in Ptr /\ use' \in {"items", "refs"}
      <3>1. NULL \in Ptr
        BY DEF Ptr
      <3> QED
        BY <1>4, <1>5, <1>7, <3>1
    <2> QED
      BY <1>11, <1>12, <2>2, <2>3, <2>4 DEF ListTypeOK
  <1> QED
    BY <1>0, <1>5, <1>22, <1>23, <1>24

\* _Ga_list_fini: nothing is left of the row.
LEMMA FiniKeeps ==
    ASSUME ListTypeOK, NEW s, Linked(s), ListFini
    PROVE  ListTypeOK' /\ Linked(<<>>)' /\ iter' = NULL
  <1>1. Walk = s /\ DOMAIN s = 1..Len(s) /\ live = {s[i] : i \in 1..Len(s)}
    BY RowsSeen, RowFacts, LenProperties DEF RowsAreSeen, Seen, Linked
  <1>2. /\ live' = live \ {Walk[i] : i \in DOMAIN Walk}
        /\ val' = [x \in Elems |-> IF x \in {Walk[i] : i \in DOMAIN Walk} THEN NULL ELSE val[x]]
        /\ head' = NULL /\ tail' = NULL /\ count' = 0 /\ iter' = NULL /\ use' = use
        /\ next' = [x \in Elems |-> NULL] /\ prev' = [x \in Elems |-> NULL]
    BY DEF ListFini, Freed
  <1>3. live' = {}
    BY <1>1, <1>2
  <1>4. ListTypeOK'
    <2>1. Cardinality({}) = 0
      BY FS_EmptySet
    <2>2. NULL \in Ptr /\ use \in {"items", "refs"} /\ val \in [Elems -> ListVals \cup {NULL}]
      BY DEF Ptr, ListTypeOK
    <2>3. val' \in [Elems -> ListVals \cup {NULL}]
      BY <1>2, <2>2
    <2> QED
      BY <1>2, <1>3, <2>1, <2>2, <2>3 DEF ListTypeOK
  <1>5. Linked(<<>>)'
    <2>1. <<>> \in Seq(Elems) /\ Len(<<>>) = 0
      OBVIOUS
    <2>2. \A i : i \notin 1..0
      OBVIOUS
    <2> PICK r : r = <<>>
      OBVIOUS
    <2>3. Linked(r)'
      BY <1>2, <1>3, <2>1, <2>2 DEF Linked, ElemAt
    <2> QED
      BY <2>3
  <1> QED
    BY <1>2, <1>4, <1>5

\* A list that is made is empty.
LEMMA InitListInv == ListInit => ListTypeOK /\ Linked(<<>>)
  <1> SUFFICES ASSUME ListInit PROVE ListTypeOK /\ Linked(<<>>)
    OBVIOUS
  <1>1. Cardinality({}) = 0
    BY FS_EmptySet
  <1>2. ListTypeOK
    BY <1>1 DEF ListInit, ListTypeOK, Ptr
  <1>3. <<>> \in Seq(Elems) /\ Len(<<>>) = 0
    OBVIOUS
  <1>4. \A i : i \notin 1..0
    OBVIOUS
  <1> PICK r : r = <<>>
    OBVIOUS
  <1>5. Linked(r)
    BY <1>3, <1>4 DEF Linked, ElemAt, ListInit
  <1> QED
    BY <1>2, <1>5

\* The iterator moves along the row, which stays as it is.
LEMMA IterKeeps ==
    ASSUME ListTypeOK, NEW s, Linked(s), UNCHANGED <<list, use>>,
           iter' \in live \cup {NULL}
    PROVE  ListTypeOK' /\ Linked(s)'
  <1>1. ListTypeOK'
    BY DEF ListTypeOK, list, Ptr
  <1>2. Linked(s)'
    BY DEF Linked, list
  <1> QED
    BY <1>1, <1>2

-----------------------------------------------------------------------------
(***************************************************************************)
(* Each operation is one of ListSpec on what is seen of the row.           *)
(***************************************************************************)
\* What ListSpec sees of a row, and of the row after a step.
LEMMA SeenOf ==
    ASSUME NEW s
    PROVE  /\ Linked(s) => /\ Items = ValuesOf(val, s)
                           /\ iter = NULL => Cursor = 0
                           /\ \A k \in 1..Len(s) : iter = s[k] => Cursor = k
           /\ Linked(s)' => /\ Items' = ValuesOf(val', s)
                            /\ iter' = NULL => Cursor' = 0
                            /\ \A k \in 1..Len(s) : iter' = s[k] => Cursor' = k
  BY RowsSeen, RowsSeenAfter DEF RowsAreSeen, Seen, ValuesOf

\* _Ga_list_push adds a last value, and does not move an iterator.
LEMMA PushAddsLast ==
    ASSUME ListTypeOK, NEW s, Linked(s), NEW v \in ListVals, ListPush(v)
    PROVE  /\ Sequence!AddLast(v)
           /\ ListTypeOK' /\ \E r : Linked(r)'
  <1> PICK e : e = Fresh
    OBVIOUS
  <1>1. /\ ListTypeOK' /\ Linked(Append(s, e))'
        /\ e \in Elems \ live /\ val' = [val EXCEPT ![e] = v] /\ iter' = iter
    BY PushKeeps
  <1>2. PICK r : r = Append(s, e)
    OBVIOUS
  <1>3. /\ s \in Seq(Elems) /\ Len(s) \in Nat /\ \A i \in 1..Len(s) : s[i] \in live
        /\ \A x \in live : \E i \in 1..Len(s) : s[i] = x
    BY RowFacts
  <1>4. val \in [Elems -> ListVals \cup {NULL}] /\ val' \in [Elems -> ListVals \cup {NULL}]
    BY <1>1 DEF ListTypeOK
  <1>5. val'[e] = v /\ \A i \in 1..Len(s) : val'[s[i]] = val[s[i]]
    BY <1>1, <1>3, <1>4
  <1>6. Linked(r)' /\ Len(r) = Len(s) + 1 /\ \A i \in 1..Len(s) : r[i] = s[i]
    BY <1>1, <1>2, <1>3, AppendTyped
  <1>7. ValuesOf(val', r) = Append(ValuesOf(val, s), v)
    <2> PICK w : w = val'
      OBVIOUS
    <2>1. w \in [Elems -> ListVals \cup {NULL}] /\ e \in Elems
          /\ \A i \in 1..Len(s) : w[s[i]] = val[s[i]]
      BY <1>1, <1>4, <1>5
    <2>2. Agree(val, w, s)
      BY <1>3, <1>4, <2>1 DEF Agree
    <2>3. ValuesOf(w, Append(s, e)) = Append(ValuesOf(val, s), w[e])
      BY <2>1, <2>2, ValuesOfAppend
    <2> QED
      BY <1>2, <1>5, <2>3
  <1>8. Items' = Append(Items, v)
    BY <1>6, <1>7, SeenOf
  <1>9. Cursor' = Cursor
    <2>1. CASE iter = NULL
      BY <1>1, <1>6, <2>1, SeenOf
    <2>2. CASE iter # NULL
      <3>1. PICK k \in 1..Len(s) : iter = s[k]
        BY <1>3, <2>2 DEF Linked
      <3>2. k \in 1..Len(r) /\ iter' = r[k]
        BY <1>1, <1>3, <1>6, <3>1
      <3> QED
        BY <1>6, <3>1, <3>2, SeenOf
    <2> QED
      BY <2>1, <2>2
  <1> QED
    BY <1>1, <1>6, <1>8, <1>9 DEF Sequence!AddLast

\* _Ga_list_unshift adds a first value; an iterator stays before the same one.
LEMMA UnshiftAddsFirst ==
    ASSUME ListTypeOK, NEW s, Linked(s), NEW v \in ListVals, ListUnshift(v)
    PROVE  /\ Sequence!AddFirst(v)
           /\ ListTypeOK' /\ \E r : Linked(r)'
  <1> PICK e : e = Fresh
    OBVIOUS
  <1>1. /\ ListTypeOK' /\ Linked(<<e>> \o s)'
        /\ e \in Elems \ live /\ val' = [val EXCEPT ![e] = v] /\ iter' = iter
    BY UnshiftKeeps
  <1>2. PICK r : r = <<e>> \o s
    OBVIOUS
  <1>3. /\ s \in Seq(Elems) /\ Len(s) \in Nat /\ \A i \in 1..Len(s) : s[i] \in live
        /\ \A x \in live : \E i \in 1..Len(s) : s[i] = x
    BY RowFacts
  <1>4. val \in [Elems -> ListVals \cup {NULL}] /\ val' \in [Elems -> ListVals \cup {NULL}]
    BY <1>1 DEF ListTypeOK
  <1>5. val'[e] = v /\ \A i \in 1..Len(s) : val'[s[i]] = val[s[i]]
    BY <1>1, <1>3, <1>4
  <1>6. Linked(r)' /\ Len(r) = Len(s) + 1 /\ \A i \in 1..Len(s) : r[i + 1] = s[i]
    BY <1>1, <1>2, <1>3, PrependTyped
  <1>7. ValuesOf(val', r) = <<v>> \o ValuesOf(val, s)
    <2> PICK w : w = val'
      OBVIOUS
    <2>1. w \in [Elems -> ListVals \cup {NULL}] /\ e \in Elems
          /\ \A i \in 1..Len(s) : w[s[i]] = val[s[i]]
      BY <1>1, <1>4, <1>5
    <2>2. ValuesOf(w, <<e>> \o s) = <<w[e]>> \o ValuesOf(val, s)
      BY <1>3, <1>4, <2>1, ValuesOfPrepend
    <2> QED
      BY <1>2, <1>5, <2>2
  <1>8. Items' = <<v>> \o Items
    BY <1>6, <1>7, SeenOf
  <1>9. Cursor' = IF Cursor = 0 THEN 0 ELSE Cursor + 1
    <2>1. CASE iter = NULL
      BY <1>1, <1>6, <2>1, SeenOf
    <2>2. CASE iter # NULL
      <3>1. PICK k \in 1..Len(s) : iter = s[k]
        BY <1>3, <2>2 DEF Linked
      <3>2. k + 1 \in 1..Len(r) /\ iter' = r[k + 1] /\ k # 0
        BY <1>1, <1>3, <1>6, <3>1
      <3> QED
        BY <1>6, <3>1, <3>2, SeenOf
    <2> QED
      BY <2>1, <2>2
  <1> QED
    BY <1>1, <1>6, <1>8, <1>9 DEF Sequence!AddFirst

\* _Ga_list_remove takes the first occurrence of the value.
LEMMA RemoveDeletes ==
    ASSUME ListTypeOK, NEW s, Linked(s), NEW v \in ListVals, ListRemove(v)
    PROVE  /\ Sequence!Delete(v)
           /\ ListTypeOK' /\ \E r : Linked(r)'
  <1>0. Holds(v)
    BY DEF ListRemove
  <1>1. PICK k \in 1..Len(s) : /\ Holder(v) = s[k] /\ val[s[k]] = v
                               /\ \A j \in 1..(k - 1) : val[s[j]] # v
    BY <1>0, HolderIsFirst
  <1> PICK e : e = Holder(v)
    OBVIOUS
  <1>2. /\ ListTypeOK' /\ Linked(RemoveAt(s, k))'
        /\ val' = [x \in Elems |-> IF x = e THEN NULL ELSE val[x]]
        /\ iter = NULL /\ iter' = NULL
    BY <1>1, RemoveKeeps
  <1>3. PICK r : r = RemoveAt(s, k)
    OBVIOUS
  <1>4. /\ s \in Seq(Elems) /\ Len(s) \in Nat /\ \A i \in 1..Len(s) : s[i] \in Elems
        /\ \A i, j \in 1..Len(s) : s[i] = s[j] => i = j
    BY RowFacts
  <1>5. val \in [Elems -> ListVals \cup {NULL}] /\ val' \in [Elems -> ListVals \cup {NULL}]
    BY <1>2 DEF ListTypeOK
  <1>6. \A i \in 1..Len(s) : i # k => val'[s[i]] = val[s[i]]
    BY <1>1, <1>2, <1>4
  <1>7. ValuesOf(val', r) = RemoveAt(ValuesOf(val, s), k)
    <2> PICK w : w = val'
      OBVIOUS
    <2>1. w \in [Elems -> ListVals \cup {NULL}]
          /\ \A i \in 1..Len(s) : i # k => w[s[i]] = val[s[i]]
      BY <1>5, <1>6
    <2>2. ValuesOf(w, RemoveAt(s, k)) = RemoveAt(ValuesOf(val, s), k)
      <3> PICK u : u = val
        OBVIOUS
      <3>1. /\ u \in [Elems -> ListVals \cup {NULL}] /\ s \in Seq(Elems)
            /\ k \in 1..Len(s) /\ \A i \in 1..Len(s) : i # k => w[s[i]] = u[s[i]]
        BY <1>4, <1>5, <2>1
      <3>2. ValuesOf(w, RemoveAt(s, k)) = RemoveAt(ValuesOf(u, s), k)
        BY ONLY <2>1, <3>1, ValuesOfRemoveAt
      <3> QED
        BY <3>2
    <2> QED
      BY <1>3, <2>2
  <1>8. Linked(r)'
    BY <1>2, <1>3
  <1>9. Items = ValuesOf(val, s) /\ Items' = RemoveAt(Items, k) /\ Cursor = 0 /\ Cursor' = 0
    BY <1>2, <1>7, <1>8, SeenOf
  <1>10. /\ DOMAIN Items = 1..Len(s)
         /\ \A i \in 1..Len(s) : Items[i] = val[s[i]]
    <2> PICK u : u = val
      OBVIOUS
    <2>1. u \in [Elems -> ListVals \cup {NULL}] /\ s \in Seq(Elems)
      BY <1>4, <1>5
    <2>2. /\ DOMAIN ValuesOf(u, s) = 1..Len(s)
          /\ \A i \in 1..Len(s) : ValuesOf(u, s)[i] = u[s[i]]
      BY ONLY <2>1, ValuesTyped
    <2> QED
      BY <1>9, <2>2
  <1> DEFINE First(i) == /\ Items[i] = v
                         /\ \A j \in 1..(i - 1) : Items[j] # v
  <1>11. k \in DOMAIN Items /\ First(k)
    <2>1. \A j \in 1..(k - 1) : j \in 1..Len(s)
      BY <1>4
    <2> QED
      BY <1>1, <1>10, <2>1
  <1>12. ASSUME NEW i \in DOMAIN Items, First(i) PROVE i = k
    <2>1. i \in 1..Len(s) /\ k \in 1..Len(s) /\ i \in Nat /\ k \in Nat
      BY <1>4, <1>10
    <2>2. ~(i < k)
      <3>1. i < k => i \in 1..(k - 1)
        BY <2>1
      <3> QED
        BY <1>11, <1>12, <3>1
    <2>3. ~(k < i)
      <3>1. k < i => k \in 1..(i - 1)
        BY <2>1
      <3> QED
        BY <1>11, <1>12, <3>1
    <2> QED
      BY <2>1, <2>2, <2>3
  <1>13. (CHOOSE i \in DOMAIN Items : First(i)) = k
    <2> HIDE DEF First
    <2> QED
      BY <1>11, <1>12
  <1>14. v \in {Items[i] : i \in DOMAIN Items}
    BY <1>11
  <1>15. Items' = RemoveAt(Items, CHOOSE i \in DOMAIN Items :
                                     /\ Items[i] = v
                                     /\ \A j \in 1..(i - 1) : Items[j] # v)
    BY <1>9, <1>13
  <1> HIDE DEF First
  <1>16. Sequence!Delete(v)
    BY <1>9, <1>14, <1>15
       DEF Sequence!Delete, Sequence!ToSet, Sequence!RemoveAt, RemoveAt
  <1> QED
    BY <1>2, <1>8, <1>16

\* _Ga_list_fini leaves the list empty.
LEMMA FiniClears ==
    ASSUME ListTypeOK, NEW s, Linked(s), ListFini
    PROVE  /\ Sequence!Clear
           /\ ListTypeOK' /\ \E r : Linked(r)'
  <1>1. ListTypeOK' /\ Linked(<<>>)' /\ iter' = NULL
    BY FiniKeeps
  <1>2. PICK r : r = <<>>
    OBVIOUS
  <1>3. Items' = ValuesOf(val', r) /\ Cursor' = 0
    BY <1>1, <1>2, SeenOf
  <1>4. ValuesOf(val', r) = <<>>
    BY <1>2 DEF ValuesOf
  <1> QED
    BY <1>1, <1>3, <1>4 DEF Sequence!Clear

\* _Ga_list_get_iter stands before the first value.
LEMMA GetIterStarts ==
    ASSUME ListTypeOK, NEW s, Linked(s), ListGetIter
    PROVE  /\ Sequence!Start
           /\ ListTypeOK' /\ \E r : Linked(r)'
  <1>1. /\ Len(s) \in Nat /\ Len(s) # 0 /\ head = s[1] /\ head \in live /\ s \in Seq(Elems)
    <2>1. /\ Len(s) \in Nat /\ Len(s) # 0 /\ head = s[1] /\ s \in Seq(Elems)
          /\ \A i \in 1..Len(s) : s[i] \in live
      BY RowFacts DEF ListGetIter
    <2>2. 1 \in 1..Len(s)
      BY <2>1
    <2> QED
      BY <2>1, <2>2
  <1>2. iter' = head /\ UNCHANGED <<list, use>>
    BY DEF ListGetIter
  <1>3. ListTypeOK' /\ Linked(s)'
    BY <1>1, <1>2, IterKeeps
  <1>4. Items = ValuesOf(val, s) /\ Items' = ValuesOf(val, s)
    BY <1>2, <1>3, SeenOf DEF list
  <1>5. Cursor' = 1
    <2>1. 1 \in 1..Len(s) /\ iter' = s[1]
      BY <1>1, <1>2
    <2> QED
      BY <1>3, <2>1, SeenOf
  <1>6. Items # <<>>
    <2>1. val \in [Elems -> ListVals \cup {NULL}]
      BY DEF ListTypeOK
    <2>2. Items \in Seq(ListVals \cup {NULL}) /\ Len(Items) = Len(s)
      BY <1>1, <1>4, <2>1, ValuesTyped
    <2> QED
      BY <1>1, <2>2
  <1> QED
    BY <1>3, <1>4, <1>5, <1>6 DEF Sequence!Start

\* _Ga_iter_next goes to the next value, or past the end.
LEMMA IterNextAdvances ==
    ASSUME ListTypeOK, NEW s, Linked(s), ListIterNext
    PROVE  /\ Sequence!Advance
           /\ ListTypeOK' /\ \E r : Linked(r)'
  <1>1. /\ Len(s) \in Nat /\ s \in Seq(Elems) /\ \A i \in 1..Len(s) : s[i] \in live
        /\ \A x \in live : \E i \in 1..Len(s) : s[i] = x
    BY RowFacts
  <1>2. PICK k \in 1..Len(s) : iter = s[k]
    BY <1>1 DEF ListIterNext, Linked
  <1>3. iter' = ElemAt(s, k + 1) /\ UNCHANGED <<list, use>>
    BY <1>2 DEF ListIterNext, Linked
  <1>4. ListTypeOK' /\ Linked(s)'
    <2>1. iter' \in live \cup {NULL}
      BY <1>1, <1>3 DEF ElemAt
    <2> QED
      BY <1>3, <2>1, IterKeeps
  <1>5. Items = ValuesOf(val, s) /\ Items' = ValuesOf(val, s) /\ Cursor = k
    BY <1>2, <1>3, <1>4, SeenOf DEF list
  <1>6. Len(Items) = Len(s)
    <2>1. val \in [Elems -> ListVals \cup {NULL}]
      BY DEF ListTypeOK
    <2> QED
      BY <1>1, <1>5, <2>1, ValuesTyped
  <1>7. Cursor' = IF k = Len(s) THEN 0 ELSE k + 1
    <2>1. CASE k = Len(s)
      <3>1. iter' = NULL
        BY <1>1, <1>3, <2>1 DEF ElemAt
      <3> QED
        BY <1>4, <2>1, <3>1, SeenOf
    <2>2. CASE k # Len(s)
      <3>1. k + 1 \in 1..Len(s)
        BY <1>1, <2>2
      <3>2. iter' = s[k + 1]
        BY <1>3, <3>1 DEF ElemAt
      <3> QED
        BY <1>4, <2>2, <3>1, <3>2, SeenOf
    <2> QED
      BY <2>1, <2>2
  <1>8. Cursor # 0
    BY <1>1, <1>5
  <1> QED
    BY <1>4, <1>5, <1>6, <1>7, <1>8 DEF Sequence!Advance

-----------------------------------------------------------------------------
\* The invariant holds at the start and after every operation, and every
\* operation is one of ListSpec.
LEMMA ListStepRefines ==
    ListInv /\ [ListNext]_listVars => ListInv' /\ [Sequence!Next]_<<Items, Cursor>>
  <1> SUFFICES ASSUME ListInv, [ListNext]_listVars
               PROVE  ListInv' /\ (Sequence!Next \/ UNCHANGED <<Items, Cursor>>)
    OBVIOUS
  <1>1. ListTypeOK
    BY DEF ListInv
  <1>2. PICK s : Linked(s)
    BY DEF ListInv
  <1>3. ASSUME NEW v \in ListVals, ListPush(v) PROVE ListInv' /\ Sequence!Next
    BY <1>1, <1>2, <1>3, PushAddsLast DEF ListInv, Sequence!Next
  <1>4. ASSUME NEW v \in ListVals, ListUnshift(v) PROVE ListInv' /\ Sequence!Next
    BY <1>1, <1>2, <1>4, UnshiftAddsFirst DEF ListInv, Sequence!Next
  <1>5. ASSUME NEW v \in ListVals, ListRemove(v) PROVE ListInv' /\ Sequence!Next
    BY <1>1, <1>2, <1>5, RemoveDeletes DEF ListInv, Sequence!Next
  <1>6. CASE ListFini
    BY <1>1, <1>2, <1>6, FiniClears DEF ListInv, Sequence!Next
  <1>7. CASE ListGetIter
    BY <1>1, <1>2, <1>7, GetIterStarts DEF ListInv, Sequence!Next
  <1>8. CASE ListIterNext
    BY <1>1, <1>2, <1>8, IterNextAdvances DEF ListInv, Sequence!Next
  <1>9. CASE UNCHANGED listVars
    <2>1. ListInv'
      BY <1>1, <1>2, <1>9 DEF ListInv, ListTypeOK, Linked, listVars, list
    <2>2. UNCHANGED <<Items, Cursor>>
      BY <1>9 DEF Items, Cursor, Walk, Chain, listVars, list
    <2> QED
      BY <2>1, <2>2
  <1> QED
    BY <1>3, <1>4, <1>5, <1>6, <1>7, <1>8, <1>9 DEF ListNext

(***************************************************************************)
(* The links implement a sequence with an iterator, for any number of      *)
(* elements (linkedlist_impl.c).                                           *)
(***************************************************************************)
THEOREM ListImplementsSpec == ListSpecification => RefinesListSpec
  <1>1. ListInit => ListInv /\ Sequence!Init
    <2> SUFFICES ASSUME ListInit PROVE ListInv /\ Sequence!Init
      OBVIOUS
    <2>1. PICK r : r = <<>>
      OBVIOUS
    <2>2. ListTypeOK /\ Linked(r)
      BY <2>1, InitListInv
    <2>3. iter = NULL
      BY DEF ListInit
    <2>4. Items = ValuesOf(val, r) /\ Cursor = 0
      BY <2>2, <2>3, SeenOf
    <2>5. ValuesOf(val, r) = <<>>
      BY <2>1 DEF ValuesOf
    <2> QED
      BY <2>2, <2>4, <2>5 DEF ListInv, Sequence!Init
  <1> QED
    BY <1>1, ListStepRefines, PTL DEF ListSpecification, RefinesListSpec, Sequence!Spec

(***************************************************************************)
(* The links stay within the list, and count is the number of its          *)
(* elements.                                                               *)
(***************************************************************************)
THEOREM ListTypeCorrect == ListSpecification => []ListTypeOK
  <1>1. ListInit => ListInv
    <2> SUFFICES ASSUME ListInit PROVE ListInv
      OBVIOUS
    <2> QED
      BY InitListInv DEF ListInv
  <1>2. ListInv => ListTypeOK
    BY DEF ListInv
  <1> QED
    BY <1>1, <1>2, ListStepRefines, PTL DEF ListSpecification

-----------------------------------------------------------------------------
(***************************************************************************)
(* Integers that wrap, and the elements of a range.                        *)
(***************************************************************************)
\* A sum that wraps is an integer, and itself if it was one.
LEMMA WrappedIsInt ==
    ASSUME NEW n \in Int
    PROVE  Wrapped(n) \in Ints /\ (n \in Ints => Wrapped(n) = n) /\ Ints \subseteq Int
           /\ 0 - 1 \in Ints /\ 0 \in Ints
  <1> PICK h : h = 2^(Width - 1)
    OBVIOUS
  <1>1. h \in Nat \ {0} /\ 2^Width = 2 * h
    BY IterationAssumption
  <1>2. Wrapped(n) = ((n + h) % (2 * h)) - h /\ Ints = (0 - h)..(h - 1)
    BY <1>1 DEF Wrapped, Ints
  <1>3. (n + h) % (2 * h) \in 0..(2 * h - 1)
    BY <1>1
  <1>4. n + h \in 0..(2 * h - 1) => (n + h) % (2 * h) = n + h
    BY <1>1
  <1> PICK m : m = (n + h) % (2 * h)
    OBVIOUS
  <1>5. m - h \in (0 - h)..(h - 1)
    BY <1>1, <1>3
  <1>6. n \in (0 - h)..(h - 1) => n + h \in 0..(2 * h - 1)
    BY <1>1
  <1>7. n \in (0 - h)..(h - 1) => m - h = n
    BY <1>1, <1>4, <1>6
  <1>8. 0 - 1 \in (0 - h)..(h - 1) /\ 0 \in (0 - h)..(h - 1)
    BY <1>1
  <1> QED
    BY <1>2, <1>5, <1>7, <1>8

\* Division, for the number of elements of a range.
LEMMA Division ==
    ASSUME NEW x \in Nat, NEW d \in Nat \ {0}
    PROVE  /\ x \div d \in Nat
           /\ (x \div d) * d <= x
           /\ x < (x \div d) * d + d
  OBVIOUS

\* Products grow with their factor.
LEMMA ProductsGrow ==
    ASSUME NEW a \in Nat, NEW b \in Nat, NEW d \in Nat, a <= b
    PROVE  a * d <= b * d
  OBVIOUS

Size == IF range.start >= range.end THEN 0
        ELSE (range.end - range.start - 1) \div range.stride + 1

\* The element k places after the first.
Place(k) == range.start + k * range.stride

\* A range has the elements from its first on that lie before its end.
LEMMA RangeFacts ==
    ASSUME range \in Ranges, PlainRange
    PROVE  /\ Size \in Nat
           /\ RangeElements \in Seq(Int) /\ Len(RangeElements) = Size
           /\ \A i \in 1..Size : RangeElements[i] = Place(i - 1)
           /\ \A k \in 0..Size : k < Size <=> Place(k) < range.end
           /\ \A k \in 0..Size : Size # 0 => Place(k) \in Ints
           /\ \A k \in 0..Size : k < Size => Place(k) # 0 - 1
           /\ \A k \in Nat : Place(k) \in Int /\ Place(k + 1) = Place(k) + range.stride
           /\ Place(0) = range.start
  <1> PICK s, e, d : s = range.start /\ e = range.end /\ d = range.stride
    OBVIOUS
  <1>1. /\ s \in Ints /\ e \in Ints /\ d \in Ints
        /\ s \in Int /\ e \in Int /\ d \in Int
    <2>1. s \in Ints /\ e \in Ints /\ d \in Ints
      BY IterationAssumption
    <2>2. Ints \subseteq Int
      BY WrappedIsInt
    <2> QED
      BY <2>1, <2>2
  <1> DEFINE n == IF s >= e THEN 0 ELSE (e - s - 1) \div d + 1
             t == [i \in 1..n |-> s + (i - 1) * d]
  <1>2. n = Size /\ \A k : Place(k) = s + k * d
    BY DEF Size, Place
  <1>3. RangeElements = t
    BY DEF RangeElements
  <1>4. s >= e \/ (d > 0 /\ 0 - 1 \notin ToSet(t) /\ s + Len(t) * d \in Ints)
    <2>1. \/ range.start >= range.end
          \/ /\ range.stride > 0
             /\ -1 \notin ToSet(RangeElements)
             /\ range.start + Len(RangeElements) * range.stride \in Ints
      BY DEF PlainRange
    <2>2. -1 = 0 - 1
      OBVIOUS
    <2> HIDE DEF t
    <2> QED
      BY <1>3, <2>1, <2>2
  <1>5. n \in Nat /\ \A k \in 0..n : k < n <=> s + k * d < e
    <2>1. CASE s >= e
      <3>1. n = 0
        BY <2>1
      <3> QED
        BY <1>1, <2>1, <3>1
    <2>2. CASE ~(s >= e)
      <3> PICK q : q = (e - s - 1) \div d
        OBVIOUS
      <3>1. e - s - 1 \in Nat /\ d \in Nat \ {0}
        BY <1>1, <1>4, <2>2
      <3>2. q \in Nat /\ q * d <= e - s - 1 /\ e - s - 1 < q * d + d
        BY <3>1, Division
      <3>3. n = q + 1
        BY <2>2
      <3> HIDE DEF n
      <3>4. ASSUME NEW k \in 0..n PROVE k < n <=> s + k * d < e
        <4>1. k \in Nat /\ k * d \in Nat
          BY <3>1, <3>2, <3>3
        <4>2. CASE k < n
          <5>1. k <= q
            BY <3>2, <3>3, <4>1, <4>2
          <5>2. k * d <= q * d
            BY <3>1, <3>2, <4>1, <5>1, ProductsGrow
          <5>3. s + k * d < e
            <6> PICK a, b : a = k * d /\ b = q * d
              OBVIOUS
            <6>1. a \in Int /\ b \in Int /\ a <= b /\ b <= e - s - 1
              BY <3>1, <3>2, <4>1, <5>2
            <6> QED
              BY <1>1, <6>1
          <5> QED
            BY <4>2, <5>3
        <4>3. CASE ~(k < n)
          <5>1. k = q + 1
            BY <3>2, <3>3, <4>1, <4>3
          <5>2. k * d = q * d + d
            BY <3>1, <3>2, <5>1
          <5> QED
            BY <1>1, <3>1, <3>2, <4>1, <4>3, <5>2
        <4> QED
          BY <4>2, <4>3
      <3> QED
        BY <3>2, <3>3, <3>4
    <2> QED
      BY <2>1, <2>2
  <1> HIDE DEF n
  <1>6. ASSUME NEW k \in Nat
        PROVE  s + k * d \in Int /\ s + (k + 1) * d = s + k * d + d
    BY <1>1
  <1>7. t \in Seq(Int) /\ Len(t) = n /\ \A i \in 1..n : t[i] = s + (i - 1) * d
    <2>1. \A i \in 1..n : t[i] = s + (i - 1) * d
      OBVIOUS
    <2>2. \A i \in 1..n : i - 1 \in Nat
      BY <1>5
    <2>3. t \in [1..n -> Int]
      BY <1>6, <2>2
    <2> HIDE DEF t
    <2>4. t \in Seq(Int)
      BY <1>5, <2>3, SeqDef
    <2> QED
      BY <1>5, <2>1, <2>3, <2>4, LenProperties
  <1>8. ASSUME NEW k \in 0..n, k < n PROVE s + k * d # 0 - 1
    <2>1. s < e
      <3>1. n # 0
        BY <1>5, <1>8
      <3> QED
        BY <1>1, <3>1 DEF n
    <2>2. k + 1 \in 1..n /\ k + 1 - 1 = k
      BY <1>5, <1>8
    <2>3. t[k + 1] = s + k * d
      BY <1>7, <2>2
    <2>4. t[k + 1] \in ToSet(t)
      <3>1. DOMAIN t = 1..n
        OBVIOUS
      <3> QED
        BY <2>2, <3>1 DEF ToSet
    <2> QED
      BY <1>1, <1>4, <2>1, <2>3, <2>4
  <1>9. ASSUME NEW k \in 0..n, n # 0 PROVE s + k * d \in Ints
    <2>1. s < e /\ d > 0 /\ s + n * d \in Ints
      <3>1. ~(s >= e)
        BY <1>9 DEF n
      <3> QED
        <4> HIDE DEF t
        <4>1. d > 0 /\ s + Len(t) * d \in Ints
          BY <1>4, <3>1
        <4>2. s < e
          BY <1>1, <3>1
        <4> QED
          BY <1>7, <4>1, <4>2
    <2>2. d \in Nat /\ k \in Nat /\ n \in Nat /\ k <= n
      BY <1>1, <1>5, <2>1
    <2>3. k * d <= n * d /\ k * d \in Nat /\ n * d \in Nat
      BY <2>2, ProductsGrow
    <2> PICK h : h = 2^(Width - 1)
      OBVIOUS
    <2> PICK a, b : a = k * d /\ b = n * d
      OBVIOUS
    <2>4. h \in Nat /\ Ints = (0 - h)..(h - 1)
      BY IterationAssumption DEF Ints
    <2>5. s + a \in (0 - h)..(h - 1)
      <3>1. s \in (0 - h)..(h - 1) /\ s + b \in (0 - h)..(h - 1)
        BY <1>1, <2>1, <2>4
      <3>2. a \in Nat /\ b \in Nat /\ a <= b
        BY <2>3
      <3> QED
        BY ONLY <2>4, <3>1, <3>2
    <2> QED
      BY <2>4, <2>5
  <1>10. s + 0 * d = s
    BY <1>1
  <1> HIDE DEF t
  <1> QED
    BY <1>2, <1>3, <1>5, <1>6, <1>7, <1>8, <1>9, <1>10

-----------------------------------------------------------------------------
(***************************************************************************)
(* The invariant of the loops.  The types say where the position of an     *)
(* iterator can be, so that the current element of a list is one of its    *)
(* elements.  What is kept of the visited elements is in order, and all of *)
(* it for the drivers that keep all.  As long as the loop is orderly, the  *)
(* position tells how many elements have been visited, and they are the    *)
(* first of the source.                                                    *)
(***************************************************************************)
IterTypes ==
    /\ driver \in Drivers /\ source \in Sources /\ range \in Ranges
    /\ cells \in Seq(CellVals) /\ Len(cells) <= MaxCells
    /\ pos \in Ints
    /\ pc \in {"next", "cur", "body", "done"}
    /\ visited \in Seq(CellVals \cup Int) /\ Len(visited) <= MaxVisits
    /\ kept \in Seq(Nat) /\ \A i \in 1..Len(kept) : kept[i] \in 1..Len(visited)
    /\ outcome \in {"none", "value", "NULL", "crash"}
    /\ outcome = "none" <=> pc # "done"
    /\ strayed \subseteq {"next raised", "lost", "replaced"}
    /\ source = "list" =>
          /\ 0 <= pos + 1 /\ pos <= MaxCells
          /\ pc \in {"next", "body"} => pos < MaxCells
          /\ pc = "cur" => 0 <= pos /\ pos < Len(cells)
    /\ source = "class" => 0 <= pos /\ pos <= MaxCells

KeepsAll == driver \in {"map", "join", "unpack"}

IterKept ==
    /\ \A i, j \in 1..Len(kept) : i < j => kept[i] < kept[j]
    /\ pc = "body" => /\ Len(visited) # 0
                      /\ \A i \in 1..Len(kept) : kept[i] < Len(visited)
    /\ KeepsAll => /\ \A i \in 1..Len(kept) : kept[i] = i
                   /\ pc \in {"next", "cur"} => Len(kept) = Len(visited)
                   /\ pc = "body" => Len(kept) + 1 = Len(visited)
                   /\ pc = "done" /\ ~thrown => Len(kept) = Len(visited)

\* A loop in C is over because the iterator said so.
Finished == pc = "done" /\ ~thrown /\ driver # "for"

ListVisits ==
    /\ Len(visited) <= Len(cells)
    /\ \A i \in 1..Len(visited) : visited[i] = cells[i]
    /\ pc \in {"next", "body"} => pos = Len(visited) - 1
    /\ pc = "cur" => pos = Len(visited)
    /\ Finished => Len(visited) = Len(cells)

RangeVisits ==
    /\ Len(visited) <= Size
    /\ \A i \in 1..Len(visited) : visited[i] = Place(i - 1)
    /\ pc \in {"next", "body"} =>
          pos = IF Len(visited) = 0 THEN 0 - 1 ELSE Place(Len(visited) - 1)
    /\ pc = "cur" => Len(visited) < Size /\ pos = Place(Len(visited))
    /\ Finished => Len(visited) = Size

ClassVisits ==
    /\ Len(visited) <= pos
    /\ \A i \in 1..Len(visited) : visited[i] = i
    /\ pc \in {"next", "body"} => pos = Len(visited)
    /\ pc = "cur" => pos = Len(visited) + 1
    /\ Finished => pos = Len(visited)

IterVisits ==
    Orderly => /\ source = "list" => ListVisits
               /\ source = "range" => RangeVisits
               /\ source = "class" => ClassVisits

IterInv == IterTypes /\ IterKept /\ IterVisits

-----------------------------------------------------------------------------
\* What the types say of lengths.
LEMMA IterFacts ==
    ASSUME IterTypes
    PROVE  /\ Len(cells) \in Nat /\ Len(visited) \in Nat /\ Len(kept) \in Nat
           /\ \A i \in 1..Len(cells) : cells[i] \in CellVals
           /\ pos \in Int /\ MaxCells \in Nat /\ MaxVisits \in Nat /\ -1 = 0 - 1
           /\ source \in {"list", "range", "class"}
           /\ \A i \in 1..Len(kept) : kept[i] \in Nat
           /\ DOMAIN visited = 1..Len(visited) /\ DOMAIN kept = 1..Len(kept)
           /\ DOMAIN cells = 1..Len(cells)
  <1>1. 0 \in Int
    OBVIOUS
  <1>2. Ints \subseteq Int
    BY <1>1, WrappedIsInt
  <1>3. /\ Len(cells) \in Nat /\ Len(visited) \in Nat /\ Len(kept) \in Nat
        /\ DOMAIN visited = 1..Len(visited) /\ DOMAIN kept = 1..Len(kept)
        /\ DOMAIN cells = 1..Len(cells)
    BY LenProperties DEF IterTypes
  <1>4. /\ \A i \in 1..Len(cells) : cells[i] \in CellVals
        /\ \A i \in 1..Len(kept) : kept[i] \in Nat
    BY ElementOfSeq DEF IterTypes
  <1>5. source \in {"list", "range", "class"} /\ pos \in Int /\ MaxCells \in Nat /\ MaxVisits \in Nat
    BY <1>2, IterationAssumption DEF IterTypes
  <1> QED
    BY <1>3, <1>4, <1>5

\* A position up to the length of the longest list is an integer.
LEMMA PlacesAreInts ==
    ASSUME NEW n \in Int, 0 <= n + 1, n <= MaxCells
    PROVE  n \in Ints
  <1> PICK h : h = 2^(Width - 1)
    OBVIOUS
  <1>1. h \in Nat \ {0} /\ Ints = (0 - h)..(h - 1) /\ MaxCells \in Nat /\ MaxCells \in Ints
    BY IterationAssumption DEF Ints
  <1> QED
    BY <1>1

\* The lists within the bound.
LEMMA BoundedIsSeq ==
    \A c : c \in BoundedSeq(CellVals, MaxCells) <=> c \in Seq(CellVals) /\ Len(c) <= MaxCells
  <1> SUFFICES ASSUME NEW c
               PROVE  c \in BoundedSeq(CellVals, MaxCells) <=>
                      c \in Seq(CellVals) /\ Len(c) <= MaxCells
    OBVIOUS
  <1>0. MaxCells \in Nat
    BY IterationAssumption
  <1>1. BoundedSeq(CellVals, MaxCells) = UNION {[1..m -> CellVals] : m \in 0..MaxCells}
    BY DEF BoundedSeq, SeqOf
  <1>2. ASSUME c \in BoundedSeq(CellVals, MaxCells)
        PROVE  c \in Seq(CellVals) /\ Len(c) <= MaxCells
    <2>1. PICK m \in 0..MaxCells : c \in [1..m -> CellVals]
      BY <1>1, <1>2
    <2>2. m \in Nat /\ m <= MaxCells
      BY <1>0
    <2>3. c \in Seq(CellVals)
      BY <2>1, <2>2, SeqDef
    <2> QED
      BY <2>1, <2>2, <2>3, LenProperties
  <1>3. ASSUME c \in Seq(CellVals), Len(c) <= MaxCells
        PROVE  c \in BoundedSeq(CellVals, MaxCells)
    <2>1. Len(c) \in 0..MaxCells
      BY <1>0, <1>3, LenProperties
    <2>2. c \in [1..Len(c) -> CellVals]
      BY <1>3, LenProperties, ElementOfSeq
    <2> QED
      BY <1>1, <2>1, <2>2
  <1> QED
    BY <1>2, <1>3

\* A loop that begins.
LEMMA InitIterInv == IterationInit => IterInv
  <1> SUFFICES ASSUME IterationInit PROVE IterInv
    OBVIOUS
  <1>1. /\ driver \in Drivers /\ source \in Sources /\ pc = "next" /\ visited = <<>>
        /\ kept = <<>> /\ outcome = "none" /\ strayed = {}
        /\ pos = IF source = "class" THEN 0 ELSE 0 - 1
    BY DEF IterationInit
  <1>2. range \in Ranges
    BY IterationAssumption DEF IterationInit
  <1>3. cells \in Seq(CellVals) /\ Len(cells) <= MaxCells
    <2>1. CASE source = "list"
      BY <2>1, BoundedIsSeq DEF IterationInit
    <2>2. CASE source # "list"
      <3>1. cells = <<>>
        BY <2>2 DEF IterationInit
      <3> QED
        BY <3>1, IterationAssumption
    <2> QED
      BY <2>1, <2>2
  <1>4. Len(visited) = 0 /\ Len(kept) = 0 /\ visited \in Seq(CellVals \cup Int) /\ kept \in Seq(Nat)
    BY <1>1
  <1>5. \A i : i \notin 1..0
    OBVIOUS
  <1>6. MaxCells \in Nat /\ MaxVisits \in Nat
    BY IterationAssumption
  <1>7. pos \in Ints
    <2>1. 0 \in Int
      OBVIOUS
    <2> QED
      BY <1>1, <2>1, WrappedIsInt
  <1>8. IterTypes
    BY <1>1, <1>2, <1>3, <1>4, <1>5, <1>6, <1>7 DEF IterTypes
  <1>9. IterKept
    BY <1>1, <1>4, <1>5 DEF IterKept
  <1>10. IterVisits
    <2>1. Len(cells) \in Nat
      BY <1>3, LenProperties
    <2>2. ListVisits \/ source # "list"
      BY <1>1, <1>4, <1>5, <2>1 DEF ListVisits, Finished
    <2>3. ClassVisits \/ source # "class"
      BY <1>1, <1>4, <1>5 DEF ClassVisits, Finished
    <2>4. RangeVisits \/ source # "range" \/ ~PlainRange
      <3>1. PlainRange => Size \in Nat
        BY <1>2, RangeFacts
      <3> QED
        BY <1>1, <1>4, <1>5, <3>1 DEF RangeVisits, Finished
    <2> QED
      BY <2>2, <2>3, <2>4 DEF IterVisits, Orderly
  <1> QED
    BY <1>8, <1>9, <1>10 DEF IterInv

-----------------------------------------------------------------------------
(***************************************************************************)
(* Asking for the next element.                                            *)
(***************************************************************************)
\* The iterator answers: the types, and what has been kept.
LEMMA AskNextKeeps ==
    ASSUME IterTypes, IterKept, AskNext
    PROVE  IterTypes' /\ IterKept'
  <1>1. /\ pc = "next" /\ driver' = driver /\ source' = source /\ range' = range
        /\ cells' = cells /\ visited' = visited /\ kept' = kept
    BY DEF AskNext, setup
  <1>2. /\ Len(cells) \in Nat /\ Len(visited) \in Nat /\ Len(kept) \in Nat
        /\ pos \in Int /\ MaxCells \in Nat
    BY IterFacts
  <1>3. /\ pc' \in {"cur", "done"} /\ pos' \in Ints
        /\ outcome' \in {"none", "value", "NULL", "crash"}
        /\ outcome' = "none" <=> pc' # "done"
        /\ strayed' \subseteq {"next raised", "lost", "replaced"}
        /\ source = "list" => /\ 0 <= pos' + 1 /\ pos' <= MaxCells
                              /\ pc' = "cur" => 0 <= pos' /\ pos' < Len(cells)
        /\ source = "class" => 0 <= pos' /\ pos' <= MaxCells
    <2>1. CASE ListAnswers
      <3>1. source = "list" /\ pos' = pos + 1 /\ Answers(pos' < Len(cells)) /\ strayed' = strayed
        BY <2>1 DEF ListAnswers, ListPosition
      <3>2. 0 <= pos + 1 /\ pos < MaxCells
        BY <1>1, <3>1 DEF IterTypes
      <3>3. pos' \in Ints
        <4>1. pos + 1 \in Int /\ 0 <= pos + 1 + 1 /\ pos + 1 <= MaxCells
          BY <1>2, <3>2
        <4> QED
          BY <3>1, <4>1, PlacesAreInts
      <3>4. /\ pc' = (IF pos + 1 < Len(cells) THEN "cur" ELSE "done")
            /\ outcome' \in {"none", "value", "NULL", "crash"}
            /\ outcome' = "none" <=> pc' # "done"
        BY <1>1, <3>1 DEF Answers, Ends, IterTypes
      <3>5. /\ 0 <= pos' + 1 /\ pos' <= MaxCells
            /\ pc' = "cur" => 0 <= pos' /\ pos' < Len(cells)
        <4>1. 0 <= pos + 1 + 1 /\ pos + 1 <= MaxCells
          BY <1>2, <3>2
        <4>2. pc' = "cur" => 0 <= pos + 1 /\ pos + 1 < Len(cells)
          BY <3>2, <3>4
        <4> QED
          BY <3>1, <4>1, <4>2
      <3>6. source # "class" /\ pc' \in {"cur", "done"}
        BY <3>1, <3>4
      <3>7. strayed' \subseteq {"next raised", "lost", "replaced"}
        BY <3>1 DEF IterTypes
      <3> QED
        BY ONLY <3>3, <3>4, <3>5, <3>6, <3>7
    <2>2. CASE RangeAnswers
      <3>1. source = "range" /\ pos' = RangePosition /\ Answers(pos' < range.end) /\ strayed' = strayed
        BY <2>2 DEF RangeAnswers
      <3>2. pos' \in Ints
        <4>1. range.start \in Ints /\ range.stride \in Ints
          BY IterationAssumption DEF IterTypes
        <4>2. 0 \in Int
          OBVIOUS
        <4>3. pos + range.stride \in Int
          BY <1>2, <4>1, <4>2, WrappedIsInt
        <4> QED
          BY <3>1, <4>1, <4>3, WrappedIsInt DEF RangePosition
      <3>3. /\ pc' \in {"cur", "done"}
            /\ outcome' \in {"none", "value", "NULL", "crash"}
            /\ outcome' = "none" <=> pc' # "done"
        BY <1>1, <3>1 DEF Answers, Ends, IterTypes
      <3> QED
        BY <3>1, <3>2, <3>3 DEF IterTypes
    <2>3. CASE ClassAnswers
      <3>1. source = "class" /\ strayed' = strayed /\ 0 <= pos /\ pos <= MaxCells
        BY <2>3 DEF ClassAnswers, IterTypes
      <3>2. PICK more \in BOOLEAN : /\ more => pos < MaxCells
                                    /\ pos' = IF more THEN pos + 1 ELSE pos
                                    /\ Answers(more)
        BY <2>3 DEF ClassAnswers
      <3>3. 0 <= pos' /\ pos' <= MaxCells /\ pos' \in Int
        BY <1>2, <3>1, <3>2
      <3>4. pos' \in Ints
        <4> PICK q : q = pos'
          OBVIOUS
        <4>1. q \in Int /\ 0 <= q /\ q <= MaxCells
          BY <3>3
        <4>2. 0 <= q + 1
          BY ONLY <4>1
        <4> QED
          BY <4>1, <4>2, PlacesAreInts
      <3>5. /\ pc' \in {"cur", "done"}
            /\ outcome' \in {"none", "value", "NULL", "crash"}
            /\ outcome' = "none" <=> pc' # "done"
        BY <1>1, <3>2 DEF Answers, Ends, IterTypes
      <3> QED
        BY <3>1, <3>3, <3>4, <3>5 DEF IterTypes
    <2>4. CASE NextRaises
      <3>1. /\ source = "class" /\ pos' = pos /\ pc' \in {"cur", "done"}
            /\ outcome' \in {"none", "value", "NULL", "crash"}
            /\ outcome' = "none" <=> pc' # "done"
            /\ strayed' \subseteq {"next raised", "lost", "replaced"}
        BY <1>1, <2>4 DEF NextRaises, Ends, IterTypes
      <3> QED
        BY <3>1 DEF IterTypes
    <2> QED
      BY <2>1, <2>2, <2>3, <2>4 DEF AskNext
  <1>4. IterTypes'
    BY <1>1, <1>3 DEF IterTypes
  <1>5. IterKept'
    BY <1>1, <1>3 DEF IterKept, KeepsAll
  <1> QED
    BY <1>4, <1>5

\* The iterator answers: what has been visited are the first elements, and
\* all of them if there is no next.
LEMMA AskNextVisits ==
    ASSUME IterTypes, IterVisits, AskNext
    PROVE  IterVisits'
  <1> SUFFICES ASSUME Orderly' PROVE /\ source' = "list" => ListVisits'
                                     /\ source' = "range" => RangeVisits'
                                     /\ source' = "class" => ClassVisits'
    BY DEF IterVisits
  <1>1. /\ pc = "next" /\ driver' = driver /\ source' = source /\ range' = range
        /\ cells' = cells /\ visited' = visited
    BY DEF AskNext, setup
  <1>2. Len(cells) \in Nat /\ Len(visited) \in Nat /\ pos \in Int
    BY IterFacts
  <1>3. strayed' = {} /\ (source = "range" => PlainRange)
    BY <1>1 DEF Orderly, PlainRange, RangeElements
  <1>4. CASE ListAnswers
    <2>1. source = "list" /\ pos' = pos + 1 /\ Answers(pos' < Len(cells)) /\ strayed' = strayed
      BY <1>4 DEF ListAnswers, ListPosition
    <2>2. ListVisits
      BY <1>3, <2>1 DEF IterVisits, Orderly
    <2>3. pc' = IF pos + 1 < Len(cells) THEN "cur" ELSE "done"
      BY <2>1 DEF Answers, Ends
    <2>4. pos' = Len(visited)
      BY <1>1, <1>2, <2>1, <2>2 DEF ListVisits
    <2>5. ListVisits'
      BY <1>1, <1>2, <2>1, <2>2, <2>3, <2>4 DEF ListVisits, Finished
    <2> QED
      BY <1>1, <2>1, <2>5
  <1>5. CASE RangeAnswers
    <2>1. source = "range" /\ pos' = RangePosition /\ Answers(pos' < range.end) /\ strayed' = strayed
      BY <1>5 DEF RangeAnswers
    <2>2. RangeVisits /\ PlainRange /\ range \in Ranges
      BY <1>3, <2>1 DEF IterVisits, Orderly, IterTypes
    <2>3. pc' = IF pos' < range.end THEN "cur" ELSE "done"
      BY <2>1 DEF Answers, Ends
    <2> PICK n : n = Len(visited)
      OBVIOUS
    <2>4. /\ Size \in Nat
          /\ \A k \in 0..Size : k < Size <=> Place(k) < range.end
          /\ \A k \in 0..Size : Size # 0 => Place(k) \in Ints
          /\ \A k \in 0..Size : k < Size => Place(k) # 0 - 1
          /\ \A k \in Nat : Place(k) \in Int /\ Place(k + 1) = Place(k) + range.stride
          /\ Place(0) = range.start
      BY <2>2, RangeFacts
    <2>5. n \in Nat /\ n <= Size /\ n \in 0..Size
          /\ pos = IF n = 0 THEN 0 - 1 ELSE Place(n - 1)
      BY <1>1, <1>2, <2>2, <2>4 DEF RangeVisits
    <2>6. pos' = Place(n)
      <3>1. CASE n = 0
        <4>1. -1 = 0 - 1
          OBVIOUS
        <4> QED
          BY <2>1, <2>4, <2>5, <3>1, <4>1 DEF RangePosition
      <3>2. CASE n # 0
        <4>1. n - 1 \in 0..Size /\ n - 1 < Size /\ n - 1 \in Nat /\ n - 1 + 1 = n /\ Size # 0
          <5>1. n \in Nat /\ Size \in Nat /\ n <= Size /\ n # 0
            BY <2>4, <2>5, <3>2
          <5> HIDE DEF Size
          <5> QED
            BY ONLY <5>1
        <4>2. pos # 0 - 1 /\ pos + range.stride = Place(n) /\ Place(n) \in Ints /\ Place(n) \in Int
          BY <2>4, <2>5, <3>2, <4>1
        <4>3. Wrapped(Place(n)) = Place(n)
          BY <4>2, WrappedIsInt
        <4>4. -1 = 0 - 1
          OBVIOUS
        <4> QED
          BY <2>1, <4>2, <4>3, <4>4 DEF RangePosition
      <3> QED
        BY <3>1, <3>2
    <2>7. /\ pc' = "cur" => n < Size
          /\ pc' = "done" => n = Size
          /\ pc' \in {"cur", "done"}
      <3>1. n < Size <=> Place(n) < range.end
        BY <2>4, <2>5
      <3>2. n < Size \/ n = Size
        BY <2>4, <2>5
      <3>3. pc' = IF Place(n) < range.end THEN "cur" ELSE "done"
        BY <2>3, <2>6
      <3> QED
        BY ONLY <2>5, <3>1, <3>2, <3>3
    <2>8. Size' = Size /\ \A k : Place(k)' = Place(k)
      BY <1>1 DEF Size, Place
    <2>9. \A i \in 1..n : visited[i] = Place(i - 1)
      BY <2>2 DEF RangeVisits
    <2>10. RangeVisits'
      BY <1>1, <2>5, <2>6, <2>7, <2>8, <2>9 DEF RangeVisits, Finished
    <2> QED
      BY <1>1, <2>1, <2>10
  <1>6. CASE ClassAnswers
    <2>1. source = "class" /\ strayed' = strayed
      BY <1>6 DEF ClassAnswers
    <2>2. PICK more \in BOOLEAN : /\ pos' = IF more THEN pos + 1 ELSE pos
                                  /\ Answers(more)
      BY <1>6 DEF ClassAnswers
    <2>3. ClassVisits
      BY <1>3, <2>1 DEF IterVisits, Orderly
    <2>4. pc' = IF more THEN "cur" ELSE "done"
      BY <2>2 DEF Answers, Ends
    <2>5. ClassVisits'
      BY <1>1, <1>2, <2>2, <2>3, <2>4 DEF ClassVisits, Finished
    <2> QED
      BY <1>1, <2>1, <2>5
  <1>7. CASE NextRaises
    <2>1. /\ source = "class" /\ pos' = pos /\ pc' = "done" /\ thrown' = TRUE
          /\ strayed' = strayed
      BY <1>3, <1>7 DEF NextRaises, Ends
    <2>2. ClassVisits
      BY <1>3, <2>1 DEF IterVisits, Orderly
    <2>3. ClassVisits'
      BY <1>1, <1>2, <2>1, <2>2 DEF ClassVisits, Finished
    <2> QED
      BY <1>1, <2>1, <2>3
  <1> QED
    BY <1>4, <1>5, <1>6, <1>7 DEF AskNext

-----------------------------------------------------------------------------
(***************************************************************************)
(* The other steps.                                                        *)
(***************************************************************************)
\* The current element is an element of the source.
LEMMA CurrentTyped ==
    ASSUME IterTypes, pc = "cur"
    PROVE  /\ Current \in CellVals \cup Int
           /\ source = "list" => Current = cells[pos + 1]
           /\ source # "list" => Current = pos
  <1>1. CASE source = "list"
    <2>1. pos + 1 \in 1..Len(cells)
      <3>1. 0 <= pos /\ pos < Len(cells) /\ pos \in Int /\ Len(cells) \in Nat
        BY <1>1, IterFacts DEF IterTypes
      <3> QED
        BY ONLY <3>1
    <2>2. cells[pos + 1] \in CellVals
      BY <2>1, IterFacts
    <2> QED
      BY <1>1, <2>2 DEF Current
  <1>2. CASE source # "list"
    BY <1>2, IterFacts DEF Current
  <1> QED
    BY <1>1, <1>2

\* The current element is visited.
LEMMA AskCurKeeps ==
    ASSUME IterTypes, IterKept, IterVisits, AskCur
    PROVE  IterTypes' /\ IterKept' /\ IterVisits'
  <1>1. /\ pc = "cur" /\ pc' = "body" /\ Len(visited) < MaxVisits
        /\ visited' = Append(visited, Current)
        /\ driver' = driver /\ source' = source /\ range' = range
        /\ cells' = cells /\ pos' = pos /\ kept' = kept /\ thrown' = thrown
        /\ outcome' = outcome /\ strayed' = strayed
    BY DEF AskCur, setup
  <1>2. /\ Len(cells) \in Nat /\ Len(visited) \in Nat /\ Len(kept) \in Nat
        /\ pos \in Int /\ MaxCells \in Nat /\ MaxVisits \in Nat
    BY IterFacts
  <1> PICK n, e : n = Len(visited) /\ e = Current
    OBVIOUS
  <1>3. e \in CellVals \cup Int
    BY <1>1, CurrentTyped
  <1>4. /\ visited' \in Seq(CellVals \cup Int) /\ Len(visited') = n + 1
        /\ \A i \in 1..n : visited'[i] = visited[i]
        /\ visited'[n + 1] = e
    <2> PICK S, s : S = CellVals \cup Int /\ s = visited
      OBVIOUS
    <2>1. s \in Seq(S) /\ e \in S
      BY <1>3 DEF IterTypes
    <2>2. /\ Append(s, e) \in Seq(S) /\ Len(Append(s, e)) = Len(s) + 1
          /\ \A i \in 1..Len(s) : Append(s, e)[i] = s[i]
          /\ Append(s, e)[Len(s) + 1] = e
      BY <2>1, AppendTyped
    <2>3. visited' = Append(s, e) /\ Len(s) = n
      BY <1>1
    <2> QED
      BY <2>2, <2>3
  <1>5. n \in Nat /\ n + 1 <= MaxVisits
    BY <1>1, <1>2
  <1>6. \A i \in 1..Len(kept) : kept[i] \in 1..n /\ kept[i] \in 1..(n + 1) /\ kept[i] < n + 1
    <2>1. ASSUME NEW i \in 1..Len(kept)
          PROVE  kept[i] \in 1..n /\ kept[i] \in 1..(n + 1) /\ kept[i] < n + 1
      <3> PICK k : k = kept[i]
        OBVIOUS
      <3>1. k \in 1..n
        BY DEF IterTypes
      <3> QED
        BY <1>5, <3>1
    <2> QED
      BY <2>1
  <1>7. IterTypes'
    <2>1. source = "list" => pos < MaxCells
      <3>1. source = "list" => pos < Len(cells) /\ Len(cells) <= MaxCells
        BY <1>1 DEF IterTypes
      <3> QED
        BY <1>2, <3>1
    <2> QED
      BY <1>1, <1>4, <1>5, <1>6, <2>1 DEF IterTypes
  <1>8. IterKept'
    <2>1. n + 1 # 0
      BY <1>5
    <2> QED
      BY <1>1, <1>4, <1>6, <2>1 DEF IterKept, KeepsAll
  <1>9. ASSUME Orderly
        PROVE  /\ source = "list" => ListVisits'
               /\ source = "range" => RangeVisits'
               /\ source = "class" => ClassVisits'
    <2>0. \A i \in 1..(n + 1) : i \in 1..n \/ i = n + 1
      BY <1>5
    <2>1. CASE source = "list"
      <3>1. ListVisits
        BY <1>9, <2>1 DEF IterVisits
      <3>2. pos = n /\ pos < Len(cells) /\ e = cells[pos + 1]
        BY <1>1, <2>1, <3>1, CurrentTyped DEF ListVisits, IterTypes
      <3>3. n + 1 <= Len(cells) /\ pos = n + 1 - 1
        BY <1>2, <1>5, <3>2
      <3>4. \A i \in 1..(n + 1) : visited'[i] = cells[i]
        BY <1>4, <2>0, <3>1, <3>2 DEF ListVisits
      <3>5. ListVisits'
        BY <1>1, <1>4, <3>3, <3>4 DEF ListVisits, Finished
      <3> QED
        BY <2>1, <3>5
    <2>2. CASE source = "range"
      <3>1. RangeVisits /\ PlainRange /\ range \in Ranges
        BY <1>9, <2>2 DEF IterVisits, Orderly, IterTypes
      <3>2. n < Size /\ pos = Place(n) /\ e = pos
        BY <1>1, <2>2, <3>1, CurrentTyped DEF RangeVisits
      <3>3. n + 1 <= Size /\ n + 1 - 1 = n /\ n + 1 # 0
        <4>1. Size \in Nat
          BY <3>1, RangeFacts
        <4> QED
          BY <1>5, <3>2, <4>1
      <3>4. \A i \in 1..(n + 1) : visited'[i] = Place(i - 1)
        BY <1>4, <2>0, <3>1, <3>2, <3>3 DEF RangeVisits
      <3>5. Size' = Size /\ \A k : Place(k)' = Place(k)
        BY <1>1 DEF Size, Place
      <3>6. RangeVisits'
        BY <1>1, <1>4, <3>2, <3>3, <3>4, <3>5 DEF RangeVisits, Finished
      <3> QED
        BY <2>2, <3>6
    <2>3. CASE source = "class"
      <3>1. ClassVisits
        BY <1>9, <2>3 DEF IterVisits
      <3>2. pos = n + 1 /\ e = pos
        BY <1>1, <2>3, <3>1, CurrentTyped DEF ClassVisits
      <3>3. \A i \in 1..(n + 1) : visited'[i] = i
        BY <1>4, <2>0, <3>1, <3>2 DEF ClassVisits
      <3>4. ClassVisits'
        BY <1>1, <1>2, <1>4, <3>2, <3>3 DEF ClassVisits, Finished
      <3> QED
        BY <2>3, <3>4
    <2> QED
      BY <2>1, <2>2, <2>3, IterFacts
  <1>10. Orderly' => Orderly
    BY <1>1 DEF Orderly, PlainRange, RangeElements
  <1>11. IterVisits'
    BY <1>1, <1>9, <1>10 DEF IterVisits
  <1> QED
    BY <1>7, <1>8, <1>11

\* The loop is left: by an exception, or a for statement by a break.
LEMMA LeavesKeeps ==
    ASSUME IterTypes, IterKept, IterVisits,
           driver' = driver, source' = source, range' = range, cells' = cells,
           pos' = pos, visited' = visited, kept' = kept, strayed' = strayed,
           pc' = "done", outcome' \in {"value", "NULL", "crash"},
           thrown' = TRUE \/ driver = "for"
    PROVE  IterTypes' /\ IterKept' /\ IterVisits'
  <1>1. IterTypes'
    BY DEF IterTypes
  <1>2. IterKept'
    BY DEF IterKept, KeepsAll
  <1>3. Orderly' => Orderly
    BY DEF Orderly, PlainRange, RangeElements
  <1>4. ~Finished'
    BY DEF Finished
  <1>5. Size' = Size /\ \A k : Place(k)' = Place(k)
    BY DEF Size, Place
  <1>6. ListVisits => ListVisits'
    BY <1>4 DEF ListVisits
  <1>7. RangeVisits => RangeVisits'
    BY <1>4, <1>5 DEF RangeVisits
  <1>8. ClassVisits /\ source = "class" => ClassVisits'
    <2>1. Len(visited) \in Nat /\ pos \in Int
      BY IterFacts
    <2> QED
      BY <1>4, <2>1 DEF ClassVisits
  <1>9. IterVisits'
    BY <1>3, <1>6, <1>7, <1>8 DEF IterVisits
  <1> QED
    BY <1>1, <1>2, <1>9

\* The current element cannot be had.
LEMMA CurRaisesKeeps ==
    ASSUME IterTypes, IterKept, IterVisits, CurRaises
    PROVE  IterTypes' /\ IterKept' /\ IterVisits'
  <1>1. /\ driver' = driver /\ source' = source /\ range' = range /\ cells' = cells
        /\ pos' = pos /\ visited' = visited /\ kept' = kept /\ strayed' = strayed
        /\ pc' = "done" /\ outcome' \in {"value", "NULL", "crash"} /\ thrown' = TRUE
    BY DEF CurRaises, Ends, setup
  <1> QED
    BY <1>1, LeavesKeeps

\* The body raises.
LEMMA BodyRaisesKeeps ==
    ASSUME IterTypes, IterKept, IterVisits, BodyRaises
    PROVE  IterTypes' /\ IterKept' /\ IterVisits'
  <1>1. /\ driver' = driver /\ source' = source /\ range' = range /\ cells' = cells
        /\ pos' = pos /\ visited' = visited /\ kept' = kept /\ strayed' = strayed
        /\ pc' = "done" /\ outcome' \in {"value", "NULL", "crash"} /\ thrown' = TRUE
    BY DEF BodyRaises, AfterRaise, Ends, setup
  <1> QED
    BY <1>1, LeavesKeeps

\* A for statement is left.
LEMMA BreakKeeps ==
    ASSUME IterTypes, IterKept, IterVisits, Break
    PROVE  IterTypes' /\ IterKept' /\ IterVisits'
  <1>1. /\ driver' = driver /\ source' = source /\ range' = range /\ cells' = cells
        /\ pos' = pos /\ visited' = visited /\ kept' = kept /\ strayed' = strayed
        /\ pc' = "done" /\ outcome' \in {"value", "NULL", "crash"} /\ driver = "for"
    BY DEF Break, Ends, setup
  <1> QED
    BY <1>1, LeavesKeeps

\* The body is over, and the visited element may be kept.
LEMMA BodyEndsKeeps ==
    ASSUME IterTypes, IterKept, IterVisits, BodyEnds
    PROVE  IterTypes' /\ IterKept' /\ IterVisits'
  <1>1. /\ pc = "body" /\ pc' = "next" /\ kept' \in Gathers
        /\ driver' = driver /\ source' = source /\ range' = range
        /\ cells' = cells /\ pos' = pos /\ visited' = visited /\ thrown' = thrown
        /\ outcome' = outcome /\ strayed' = strayed
    BY DEF BodyEnds, setup
  <1>2. /\ Len(visited) \in Nat /\ Len(kept) \in Nat /\ pos \in Int
    BY IterFacts
  <1> PICK n, m : n = Len(visited) /\ m = Len(kept)
    OBVIOUS
  <1>3. n \in Nat /\ m \in Nat /\ n # 0
    BY <1>1, <1>2 DEF IterKept
  <1>4. \A i \in 1..m : kept[i] \in 1..n /\ kept[i] < n
    BY <1>1 DEF IterKept, IterTypes
  <1>5. /\ kept' \in Seq(Nat) /\ \A i \in 1..Len(kept') : kept'[i] \in 1..n
        /\ \A i, j \in 1..Len(kept') : i < j => kept'[i] < kept'[j]
        /\ KeepsAll => Len(kept') = n /\ \A i \in 1..Len(kept') : kept'[i] = i
    <2>1. CASE kept' = Append(kept, n)
      <3>1. /\ kept' \in Seq(Nat) /\ Len(kept') = m + 1
            /\ \A i \in 1..m : kept'[i] = kept[i]
            /\ kept'[m + 1] = n
        <4> PICK s : s = kept
          OBVIOUS
        <4>1. s \in Seq(Nat) /\ n \in Nat
          BY <1>3 DEF IterTypes
        <4>2. /\ Append(s, n) \in Seq(Nat) /\ Len(Append(s, n)) = Len(s) + 1
              /\ \A i \in 1..Len(s) : Append(s, n)[i] = s[i]
              /\ Append(s, n)[Len(s) + 1] = n
          BY <4>1, AppendTyped
        <4>3. kept' = Append(s, n) /\ Len(s) = m
          BY <2>1
        <4> QED
          BY <4>2, <4>3
      <3>2. \A i \in 1..(m + 1) : i \in 1..m \/ i = m + 1
        BY <1>3
      <3>3. n \in 1..n
        BY <1>3
      <3>4. \A i \in 1..(m + 1) : kept'[i] \in 1..n
        BY <1>4, <3>1, <3>2, <3>3
      <3>5. ASSUME NEW i \in 1..(m + 1), NEW j \in 1..(m + 1), i < j
            PROVE  kept'[i] < kept'[j]
        <4>1. i \in 1..m
          BY <1>3, <3>5
        <4>2. CASE j = m + 1
          BY <1>4, <3>1, <4>1, <4>2
        <4>3. CASE j \in 1..m
          BY <3>1, <3>5, <4>1, <4>3 DEF IterKept
        <4> QED
          BY <3>2, <4>2, <4>3
      <3>6. KeepsAll => m + 1 = n /\ \A i \in 1..m : kept[i] = i
        BY <1>1 DEF IterKept
      <3>7. KeepsAll => \A i \in 1..(m + 1) : kept'[i] = i
        BY <3>1, <3>2, <3>6
      <3> QED
        BY <3>1, <3>4, <3>5, <3>6, <3>7
    <2>2. CASE kept' = kept /\ ~KeepsAll
      BY <2>2, <1>4 DEF IterTypes, IterKept
    <2> QED
      BY <1>1, <2>1, <2>2 DEF Gathers, KeepsAll
  <1>6. IterTypes'
    BY <1>1, <1>5 DEF IterTypes
  <1>7. IterKept'
    <2>1. KeepsAll' = KeepsAll
      BY <1>1 DEF KeepsAll
    <2> QED
      BY <1>1, <1>5, <2>1 DEF IterKept
  <1>8. Orderly' => Orderly
    BY <1>1 DEF Orderly, PlainRange, RangeElements
  <1>9. Size' = Size /\ \A k : Place(k)' = Place(k)
    BY <1>1 DEF Size, Place
  <1>10. ListVisits => ListVisits'
    BY <1>1 DEF ListVisits, Finished
  <1>11. RangeVisits => RangeVisits'
    BY <1>1, <1>9 DEF RangeVisits, Finished
  <1>12. ClassVisits => ClassVisits'
    BY <1>1 DEF ClassVisits, Finished
  <1>13. IterVisits'
    BY <1>1, <1>8, <1>10, <1>11, <1>12 DEF IterVisits
  <1> QED
    BY <1>6, <1>7, <1>13

\* The body appends an element to the list.
LEMMA AppendsKeeps ==
    ASSUME IterTypes, IterKept, IterVisits, NEW v \in CellVals, AppendsCell(v)
    PROVE  IterTypes' /\ IterKept' /\ IterVisits'
  <1>1. /\ pc = "body" /\ source = "list" /\ Len(cells) < MaxCells
        /\ cells' = Append(cells, v)
        /\ driver' = driver /\ source' = source /\ range' = range /\ pos' = pos
        /\ pc' = pc /\ visited' = visited /\ kept' = kept /\ thrown' = thrown
        /\ outcome' = outcome /\ strayed' = strayed
    BY DEF AppendsCell, ChangesList, setup
  <1>2. /\ Len(visited) \in Nat /\ Len(cells) \in Nat /\ MaxCells \in Nat
    BY IterFacts
  <1>3. /\ cells' \in Seq(CellVals) /\ Len(cells') = Len(cells) + 1
        /\ \A i \in 1..Len(cells) : cells'[i] = cells[i]
    <2> PICK s : s = cells
      OBVIOUS
    <2>1. s \in Seq(CellVals)
      BY DEF IterTypes
    <2>2. /\ Append(s, v) \in Seq(CellVals) /\ Len(Append(s, v)) = Len(s) + 1
          /\ \A i \in 1..Len(s) : Append(s, v)[i] = s[i]
      BY <2>1, AppendTyped
    <2>3. cells' = Append(s, v)
      BY <1>1
    <2> QED
      BY <2>2, <2>3
  <1>4. Len(cells) + 1 <= MaxCells
    BY <1>1, <1>2
  <1>5. IterTypes'
    BY <1>1, <1>3, <1>4 DEF IterTypes
  <1>6. IterKept'
    BY <1>1 DEF IterKept, KeepsAll
  <1>7. Orderly' => Orderly
    BY <1>1 DEF Orderly, PlainRange, RangeElements
  <1>8. ListVisits => ListVisits'
    <2>1. Len(visited) <= Len(cells) =>
            /\ Len(visited) <= Len(cells) + 1
            /\ \A i \in 1..Len(visited) : i \in 1..Len(cells)
      BY <1>2
    <2> QED
      BY <1>1, <1>3, <2>1 DEF ListVisits, Finished
  <1>9. IterVisits'
    BY <1>1, <1>7, <1>8 DEF IterVisits
  <1> QED
    BY <1>5, <1>6, <1>9

\* The body loses or replaces an element: the loop is no more orderly.
LEMMA StraysKeeps ==
    ASSUME IterTypes, IterKept, pc = "body", source = "list",
           driver' = driver, source' = source, range' = range, pos' = pos, pc' = pc,
           visited' = visited, kept' = kept, thrown' = thrown, outcome' = outcome,
           cells' \in Seq(CellVals), Len(cells') <= MaxCells,
           NEW way \in {"lost", "replaced"}, strayed' = strayed \cup {way}
    PROVE  IterTypes' /\ IterKept' /\ IterVisits'
  <1>1. IterTypes'
    <2>1. strayed' \subseteq {"next raised", "lost", "replaced"}
      BY DEF IterTypes
    <2> QED
      BY <2>1 DEF IterTypes
  <1>2. IterKept'
    BY DEF IterKept, KeepsAll
  <1>3. ~Orderly'
    BY DEF Orderly
  <1>4. IterVisits'
    BY <1>3 DEF IterVisits
  <1> QED
    BY <1>1, <1>2, <1>4

\* An element is removed.
LEMMA RemovesKeeps ==
    ASSUME IterTypes, IterKept, NEW v \in CellVals, RemovesCell(v)
    PROVE  IterTypes' /\ IterKept' /\ IterVisits'
  <1>1. /\ Len(cells) \in Nat /\ MaxCells \in Nat /\ DOMAIN cells = 1..Len(cells)
        /\ cells \in Seq(CellVals) /\ Len(cells) <= MaxCells
    BY IterFacts DEF IterTypes
  <1> DEFINE at == CHOOSE i \in DOMAIN cells : cells[i] = v /\ \A j \in 1..(i - 1) : cells[j] # v
  <1>2. at \in 1..Len(cells)
    <2> DEFINE places == {i \in 1..Len(cells) : cells[i] = v}
    <2>1. places # {}
      BY <1>1 DEF RemovesCell, ToSet
    <2>2. PICK x \in places : \A y \in places : x <= y
      <3>1. places \in SUBSET (1..Len(cells))
        OBVIOUS
      <3> HIDE DEF places
      <3> QED
        BY <1>1, <2>1, <3>1, LeastPlace
    <2>3. x \in 1..Len(cells) /\ cells[x] = v
      OBVIOUS
    <2>4. \A j \in 1..(x - 1) : cells[j] # v
      <3>1. ASSUME NEW j \in 1..(x - 1), cells[j] = v PROVE FALSE
        <4>1. j \in places
          BY <1>1, <2>3, <3>1
        <4> QED
          BY <1>1, <2>2, <2>3, <4>1
      <3> QED
        BY <3>1
    <2> QED
      BY <1>1, <2>3, <2>4
  <1> HIDE DEF at
  <1>3. /\ pc = "body" /\ source = "list"
        /\ cells' = RemoveAt(cells, at)
        /\ driver' = driver /\ source' = source /\ range' = range /\ pos' = pos
        /\ pc' = pc /\ visited' = visited /\ kept' = kept /\ thrown' = thrown
        /\ outcome' = outcome /\ strayed' = strayed \cup {"lost"}
    BY DEF RemovesCell, ChangesList, setup, at
  <1>4. cells' \in Seq(CellVals) /\ Len(cells') = Len(cells) - 1
    BY <1>1, <1>2, <1>3, RemoveAtTyped
  <1>5. Len(cells') <= MaxCells
    BY <1>1, <1>4
  <1> QED
    BY <1>3, <1>4, <1>5, StraysKeeps

\* An element is replaced.
LEMMA ReplacesKeeps ==
    ASSUME IterTypes, IterKept, NEW v \in CellVals, NEW i \in DOMAIN cells, ReplacesCell(i, v)
    PROVE  IterTypes' /\ IterKept' /\ IterVisits'
  <1>1. /\ cells \in Seq(CellVals) /\ Len(cells) <= MaxCells
    BY DEF IterTypes
  <1>2. /\ pc = "body" /\ source = "list"
        /\ cells' = [cells EXCEPT ![i] = v]
        /\ driver' = driver /\ source' = source /\ range' = range /\ pos' = pos
        /\ pc' = pc /\ visited' = visited /\ kept' = kept /\ thrown' = thrown
        /\ outcome' = outcome /\ strayed' = strayed \cup {"replaced"}
    BY DEF ReplacesCell, ChangesList, setup
  <1>3. cells' \in Seq(CellVals) /\ Len(cells') = Len(cells)
    BY <1>1, <1>2
  <1> QED
    BY <1>1, <1>2, <1>3, StraysKeeps

\* A step that leaves the loop as it is.
LEMMA IterStutter ==
    ASSUME IterInv, UNCHANGED iterationVars
    PROVE  IterInv'
  <1>1. Size' = Size /\ \A k : Place(k)' = Place(k)
    BY DEF Size, Place, iterationVars
  <1>2. Orderly' = Orderly
    BY DEF Orderly, PlainRange, RangeElements, iterationVars
  <1>3. IterTypes' /\ IterKept'
    BY DEF IterInv, IterTypes, IterKept, KeepsAll, iterationVars
  <1>4. ListVisits' = ListVisits /\ ClassVisits' = ClassVisits
    BY DEF ListVisits, ClassVisits, Finished, iterationVars
  <1>5. RangeVisits => RangeVisits'
    BY <1>1 DEF RangeVisits, Finished, iterationVars
  <1>6. IterVisits'
    BY <1>2, <1>4, <1>5 DEF IterInv, IterVisits, iterationVars
  <1> QED
    BY <1>3, <1>6 DEF IterInv

\* The invariant is inductive.
LEMMA NextIterInv == IterInv /\ [IterationNext]_iterationVars => IterInv'
  <1> SUFFICES ASSUME IterInv, [IterationNext]_iterationVars PROVE IterInv'
    OBVIOUS
  <1>0. IterTypes /\ IterKept /\ IterVisits
    BY DEF IterInv
  <1>1. CASE AskNext
    BY <1>0, <1>1, AskNextKeeps, AskNextVisits DEF IterInv
  <1>2. CASE AskCur
    BY <1>0, <1>2, AskCurKeeps DEF IterInv
  <1>3. CASE CurRaises
    BY <1>0, <1>3, CurRaisesKeeps DEF IterInv
  <1>4. CASE BodyEnds
    BY <1>0, <1>4, BodyEndsKeeps DEF IterInv
  <1>5. CASE BodyRaises
    BY <1>0, <1>5, BodyRaisesKeeps DEF IterInv
  <1>6. CASE Break
    BY <1>0, <1>6, BreakKeeps DEF IterInv
  <1>7. ASSUME NEW v \in CellVals, AppendsCell(v) PROVE IterInv'
    BY <1>0, <1>7, AppendsKeeps DEF IterInv
  <1>8. ASSUME NEW v \in CellVals, RemovesCell(v) PROVE IterInv'
    BY <1>0, <1>8, RemovesKeeps DEF IterInv
  <1>9. ASSUME NEW v \in CellVals, NEW i \in DOMAIN cells, ReplacesCell(i, v) PROVE IterInv'
    BY <1>0, <1>9, ReplacesKeeps DEF IterInv
  <1>10. CASE UNCHANGED iterationVars
    BY <1>10, IterStutter
  <1> QED
    BY <1>1, <1>2, <1>3, <1>4, <1>5, <1>6, <1>7, <1>8, <1>9, <1>10 DEF IterationNext

-----------------------------------------------------------------------------
(***************************************************************************)
(* What the invariant says.                                                *)
(***************************************************************************)
\* Sequences that agree on the places of the shorter one.
LEMMA PrefixByPlaces ==
    ASSUME NEW S, NEW s \in Seq(S), NEW T, NEW t \in Seq(T), Len(s) <= Len(t),
           \A i \in 1..Len(s) : s[i] = t[i]
    PROVE  IsPrefix(s, t) /\ (Len(s) = Len(t) => s = t)
  <1>1. Len(s) \in Nat /\ Len(t) \in Nat
    BY LenProperties
  <1> PICK n : n = Len(s)
    OBVIOUS
  <1>2. n \in Nat /\ n <= Len(t) /\ n \in 0..Len(t) /\ n \in 0..Len(s)
    BY <1>1
  <1>3. \A i \in 1..n : i \in 1..n
    OBVIOUS
  <1>4. SubSeq(s, 1, n) = [i \in 1..n |-> s[i]] /\ SubSeq(t, 1, n) = [i \in 1..n |-> t[i]]
    BY <1>2, SubSeqRestrict DEF Restrict
  <1>5. SubSeq(s, 1, Len(s)) = SubSeq(t, 1, Len(s))
    BY <1>4
  <1>6. Len(s) = Len(t) => s = t
    <2>1. s \in [1..Len(s) -> S] /\ t \in [1..Len(t) -> T]
      BY LenProperties, ElementOfSeq
    <2> QED
      BY <2>1
  <1> QED
    BY <1>5, <1>6 DEF IsPrefix

\* The elements a source holds, place by place.
LEMMA ElementsFacts ==
    ASSUME IterTypes, IterVisits, Orderly
    PROVE  /\ Elements \in Seq(CellVals \cup Int)
           /\ Len(visited) <= Len(Elements)
           /\ \A i \in 1..Len(visited) : visited[i] = Elements[i]
           /\ Finished => Len(visited) = Len(Elements)
  <1>1. CASE source = "list"
    <2>1. Elements = cells /\ ListVisits
      BY <1>1 DEF Elements, IterVisits
    <2>2. cells \in Seq(CellVals \cup Int)
      <3>1. Len(cells) \in Nat /\ cells \in [1..Len(cells) -> CellVals]
        BY LenProperties, ElementOfSeq DEF IterTypes
      <3>2. cells \in [1..Len(cells) -> CellVals \cup Int]
        BY <3>1
      <3> QED
        BY <3>1, <3>2, SeqDef
    <2> QED
      BY <2>1, <2>2 DEF ListVisits
  <1>2. CASE source = "range"
    <2>1. Elements = RangeElements /\ RangeVisits /\ PlainRange /\ range \in Ranges
      BY <1>2 DEF Elements, IterVisits, Orderly, IterTypes
    <2>2. /\ Size \in Nat /\ RangeElements \in Seq(Int) /\ Len(RangeElements) = Size
          /\ \A i \in 1..Size : RangeElements[i] = Place(i - 1)
      BY <2>1, RangeFacts
    <2>3. RangeElements \in Seq(CellVals \cup Int)
      <3> PICK t : t = RangeElements
        OBVIOUS
      <3>1. Len(t) \in Nat /\ t \in [1..Len(t) -> Int]
        BY <2>2, LenProperties, ElementOfSeq
      <3>2. t \in [1..Len(t) -> CellVals \cup Int]
        BY <3>1
      <3>3. t \in Seq(CellVals \cup Int)
        BY <3>1, <3>2, SeqDef
      <3> QED
        BY <3>3
    <2>4. Len(visited) \in Nat
      BY IterFacts
    <2>5. Len(visited) <= Size /\ \A i \in 1..Len(visited) : visited[i] = Place(i - 1)
      BY <2>1 DEF RangeVisits
    <2>6. \A i \in 1..Len(visited) : i \in 1..Size
      BY <2>2, <2>4, <2>5
    <2>7. Finished => Len(visited) = Size
      BY <2>1 DEF RangeVisits
    <2> QED
      BY <2>1, <2>2, <2>3, <2>5, <2>6, <2>7
  <1>3. CASE source = "class"
    <2>1. Elements = [i \in 1..pos |-> i] /\ ClassVisits /\ 0 <= pos
      BY <1>3 DEF Elements, IterVisits, IterTypes
    <2>2. pos \in Nat /\ Len(visited) \in Nat
      BY <2>1, IterFacts
    <2> PICK p : p = pos
      OBVIOUS
    <2> DEFINE t == [i \in 1..p |-> i]
    <2>3. t \in [1..p -> CellVals \cup Int] /\ \A i \in 1..p : t[i] = i
      OBVIOUS
    <2>4. t \in Seq(CellVals \cup Int) /\ Len(t) = p
      <3> HIDE DEF t
      <3>1. t \in Seq(CellVals \cup Int)
        BY <2>2, <2>3, SeqDef
      <3> QED
        BY <2>2, <2>3, <3>1, LenProperties
    <2>5. Len(visited) <= p /\ \A i \in 1..Len(visited) : visited[i] = i
      BY <2>1 DEF ClassVisits
    <2>6. \A i \in 1..Len(visited) : i \in 1..p
      BY <2>2, <2>5
    <2>7. Finished => Len(visited) = p
      BY <2>1 DEF ClassVisits
    <2>8. Elements = t
      BY <2>1
    <2> HIDE DEF t
    <2> QED
      BY <2>3, <2>4, <2>5, <2>6, <2>7, <2>8
  <1> QED
    BY <1>1, <1>2, <1>3, IterFacts

\* The invariant says that elements are visited once and in order.
LEMMA InvVisitsInOrder == IterInv => VisitsInOrder
  <1> SUFFICES ASSUME IterInv, Orderly
               PROVE  /\ IsPrefix(visited, Elements)
                      /\ pc = "done" /\ ~thrown /\ driver # "for" => visited = Elements
                      /\ \A i, j \in DOMAIN kept : i < j => kept[i] < kept[j]
                      /\ pc = "done" /\ ~thrown /\ driver \in {"map", "join", "unpack"} =>
                            kept = [i \in DOMAIN Elements |-> i]
    BY DEF VisitsInOrder
  <1>1. IterTypes /\ IterKept /\ IterVisits
    BY DEF IterInv
  <1> PICK t : t = Elements
    OBVIOUS
  <1>2. /\ t \in Seq(CellVals \cup Int) /\ Len(visited) <= Len(t)
        /\ \A i \in 1..Len(visited) : visited[i] = t[i]
        /\ Finished => Len(visited) = Len(t)
    BY <1>1, ElementsFacts
  <1>3. visited \in Seq(CellVals \cup Int)
    BY <1>1 DEF IterTypes
  <1>4. IsPrefix(visited, t) /\ (Len(visited) = Len(t) => visited = t)
    BY <1>2, <1>3, PrefixByPlaces
  <1>5. \A i, j \in DOMAIN kept : i < j => kept[i] < kept[j]
    BY <1>1, IterFacts DEF IterKept
  <1>6. ASSUME pc = "done", ~thrown, driver \in {"map", "join", "unpack"}
        PROVE  kept = [i \in DOMAIN t |-> i]
    <2>1. Finished /\ KeepsAll
      BY <1>6 DEF Finished, KeepsAll
    <2>2. Len(kept) = Len(t) /\ \A i \in 1..Len(kept) : kept[i] = i
      BY <1>1, <1>2, <1>6, <2>1 DEF IterKept
    <2>3. DOMAIN t = 1..Len(t) /\ kept \in [1..Len(kept) -> Nat]
      BY <1>1, <1>2, LenProperties, ElementOfSeq DEF IterTypes
    <2> QED
      BY <2>2, <2>3
  <1> QED
    BY <1>2, <1>4, <1>5, <1>6 DEF Finished

\* The invariant gives the types.
LEMMA InvIterationTypes == IterInv => IterationTypeOK
  <1> SUFFICES ASSUME IterInv PROVE IterationTypeOK
    OBVIOUS
  <1>1. IterTypes
    BY DEF IterInv
  <1>2. cells \in BoundedSeq(CellVals, MaxCells)
    BY <1>1, BoundedIsSeq DEF IterTypes
  <1>3. ToSet(kept) \subseteq DOMAIN visited
    BY <1>1, IterFacts DEF IterTypes, ToSet
  <1> QED
    BY <1>1, <1>2, <1>3 DEF IterTypes, IterationTypeOK

(***************************************************************************)
(* A loop visits every element of what it iterates over once and in order, *)
(* unless a list loses or replaces elements meanwhile, a loop in C goes on *)
(* after a __next__ that raised, or a range is not plain.                  *)
(***************************************************************************)
THEOREM LoopsVisitInOrder == IterationSpecification => []VisitsInOrder
  <1>1. IterationInit => IterInv
    BY InitIterInv
  <1>2. IterInv /\ [IterationNext]_iterationVars => IterInv'
    BY NextIterInv
  <1>3. IterInv => VisitsInOrder
    BY InvVisitsInOrder
  <1> QED
    BY <1>1, <1>2, <1>3, PTL DEF IterationSpecification

(***************************************************************************)
(* The state of a loop has its types.                                      *)
(***************************************************************************)
THEOREM IterationTypeCorrect == IterationSpecification => []IterationTypeOK
  <1>1. IterationInit => IterInv
    BY InitIterInv
  <1>2. IterInv /\ [IterationNext]_iterationVars => IterInv'
    BY NextIterInv
  <1>3. IterInv => IterationTypeOK
    BY InvIterationTypes
  <1> QED
    BY <1>1, <1>2, <1>3, PTL DEF IterationSpecification

-----------------------------------------------------------------------------
(***************************************************************************)
(* The library takes a step of one part and leaves the others as they are: *)
(* every behaviour of it is one of each of its parts.                      *)
(***************************************************************************)
\* A behaviour of the library is one of a linked list.
LEMMA LibraryRunsLists == Spec => ListSpecification
  <1>1. Init => ListInit
    BY DEF Init
  <1>2. [Next]_vars => [ListNext]_listVars
    BY DEF Next, ListStep, MapStep, ImportStep, IterationStep, SearchStep, vars
  <1> QED
    BY <1>1, <1>2, PTL DEF Spec, ListSpecification

\* It is one of a hash map.
LEMMA LibraryRunsMaps == Spec => MapSpecification
  <1>1. Init => MapInit
    BY DEF Init
  <1>2. [Next]_vars => [MapNext]_mapVars
    BY DEF Next, ListStep, MapStep, ImportStep, IterationStep, SearchStep, vars
  <1> QED
    BY <1>1, <1>2, PTL DEF Spec, MapSpecification

\* It is one of the module loader.
LEMMA LibraryRunsImports == Spec => ImportSpecification
  <1>1. Init => ImportInit
    BY DEF Init
  <1>2. [Next]_vars => [ImportNext]_importVars
    BY DEF Next, ListStep, MapStep, ImportStep, IterationStep, SearchStep, vars
  <1> QED
    BY <1>1, <1>2, PTL DEF Spec, ImportSpecification

\* It is one of a loop.
LEMMA LibraryRunsIterations == Spec => IterationSpecification
  <1>1. Init => IterationInit
    BY DEF Init
  <1>2. [Next]_vars => [IterationNext]_iterationVars
    BY DEF Next, ListStep, MapStep, ImportStep, IterationStep, SearchStep, vars
  <1> QED
    BY <1>1, <1>2, PTL DEF Spec, IterationSpecification

\* It is one of the searches.
LEMMA LibraryRunsSearches == Spec => SearchSpecification
  <1>1. Init => SearchInit
    BY DEF Init
  <1>2. [Next]_vars => [SearchNext]_searchVars
    BY DEF Next, ListStep, MapStep, ImportStep, IterationStep, SearchStep, vars
  <1> QED
    BY <1>1, <1>2, PTL DEF Spec, SearchSpecification

-----------------------------------------------------------------------------
(***************************************************************************)
(* In the library a linked list is a sequence with an iterator, in each of *)
(* its two uses (linkedlist_impl.c).                                       *)
(***************************************************************************)
THEOREM LibraryListsAreSequences == Spec => RefinesListSpec
  BY LibraryRunsLists, ListImplementsSpec, PTL

(***************************************************************************)
(* In the library a search of a hash map finds the entry of its key if     *)
(* there is one: a map works as a dictionary (dict.c).                     *)
(***************************************************************************)
THEOREM LibraryMapsAreDictionaries == Spec => []LookupFindsEntries /\ RefinesMapSpec
  BY LibraryRunsMaps, SearchesFindTheirEntry, ImplementsMapSpec, PTL

(***************************************************************************)
(* In the library a module whose name has been used before runs again only *)
(* inside its own run, that is if its name is used while it is running;    *)
(* such runs may be many. The cache never holds a module that is running,  *)
(* nor one that failed before its failure was seen (GaModule_Open and      *)
(* mod_import_file of builtins/module.c).                                  *)
(***************************************************************************)
THEOREM LibraryLoadsModulesOnce == Spec => []ModulesRunOnce /\ []CachedModulesHaveRun
  BY LibraryRunsImports, OneRunForEachName, NothingUnfinishedIsCached, PTL

(***************************************************************************)
(* In the library a loop visits each element of what it iterates over once *)
(* and in order (vm.c, enumerable.c), for integers of any width, in the    *)
(* cases LoopsVisitInOrder is about.                                       *)
(***************************************************************************)
THEOREM LibraryVisitsInOrder == Spec => []VisitsInOrder
  BY LibraryRunsIterations, LoopsVisitInOrder, PTL

(***************************************************************************)
(* In the library a dict has for each key what was stored last under it,   *)
(* apart from the keys in `disturbed': those stored inside a comparison of *)
(* another store of the same key that was at its last entry, and those     *)
(* whose comparison raised in a store (builtins/dict.c). A search meets    *)
(* its key if that was there when it began. A list has a reference to each *)
(* of its elements and removes the one it compared, until a comparison has *)
(* removed that element or one before it and the removal goes by the old   *)
(* index (builtins/list.c).                                                *)
(***************************************************************************)
THEOREM LibrarySearchesAreExact ==
    Spec => []EntriesAreWhatWasStored /\ []SearchesMeetTheirKey /\ []RemovalsAreExact
  BY LibraryRunsSearches, DictHoldsWhatWasStored, NoSearchMissesItsKey,
     ListRemovesWhatItCompared, PTL

(***************************************************************************)
(* The state of the library has its types: those of its parts, and the     *)
(* part a behaviour is about stays the same.                               *)
(***************************************************************************)
THEOREM LibraryTypeCorrect == Spec => []TypeOK
  <1> DEFINE Part == part \in {"list", "map", "import", "iteration", "search"}
  <1>1. Init => Part
    BY DEF Init
  <1>2. Part /\ [Next]_vars => Part'
    BY DEF Next, ListStep, MapStep, ImportStep, IterationStep, SearchStep, vars
  <1>3. Spec => []Part
    <2> HIDE DEF Part
    <2> QED
      BY <1>1, <1>2, PTL DEF Spec
  <1>4. Part /\ ListTypeOK /\ MapTypeOK /\ ImportTypeOK /\ IterationTypeOK /\ SearchTypeOK
          => TypeOK
    BY DEF TypeOK
  <1> HIDE DEF Part
  <1> QED
    BY <1>3, <1>4, LibraryRunsLists, ListTypeCorrect, LibraryRunsMaps, MapTypeCorrect,
       LibraryRunsImports, LoaderTypeCorrect, LibraryRunsIterations, IterationTypeCorrect,
       LibraryRunsSearches, SearchTypeCorrect, PTL

=============================================================================
