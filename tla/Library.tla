------------------------------- MODULE Library -------------------------------
(***************************************************************************)
(* The library under the interpreter: lists, hash maps, the module loader, *)
(* iteration and the searches of dicts and lists.  They share no state; a  *)
(* behaviour is one of a list, of a map, of the programs of a context, of  *)
(* a loop, or of searches, and the other parts stay as they are made.      *)
(***************************************************************************)
EXTENDS LinkedList, HashMap, Import, Iteration, Search

VARIABLE part   \* the part this behaviour is about

vars == <<part, listVars, mapVars, importVars, iterationVars, searchVars>>

\* Types of the state.
TypeOK ==
    /\ part \in {"list", "map", "import", "iteration", "search"}
    /\ ListTypeOK
    /\ MapTypeOK
    /\ ImportTypeOK
    /\ IterationTypeOK
    /\ SearchTypeOK

Init ==
    /\ part \in {"list", "map", "import", "iteration", "search"}
    /\ ListInit /\ (part # "list" => use = "items")
    /\ MapInit
    /\ ImportInit
    /\ IterationInit /\ (part # "iteration" => driver = "for" /\ source = "list" /\ cells = <<>>)
    /\ SearchInit /\ (part # "search" => searched = "dict")

ListStep ==
    /\ part = "list"
    /\ ListNext
    /\ UNCHANGED <<part, mapVars, importVars, iterationVars, searchVars>>

MapStep ==
    /\ part = "map"
    /\ MapNext
    /\ UNCHANGED <<part, listVars, importVars, iterationVars, searchVars>>

ImportStep ==
    /\ part = "import"
    /\ ImportNext
    /\ UNCHANGED <<part, listVars, mapVars, iterationVars, searchVars>>

IterationStep ==
    /\ part = "iteration"
    /\ IterationNext
    /\ UNCHANGED <<part, listVars, mapVars, importVars, searchVars>>

SearchStep ==
    /\ part = "search"
    /\ SearchNext
    /\ UNCHANGED <<part, listVars, mapVars, importVars, iterationVars>>

Next == ListStep \/ MapStep \/ ImportStep \/ IterationStep \/ SearchStep

\* The loop goes on, and the code it calls comes to its end.
LoopGoesOn ==
    /\ part = "iteration"
    /\ Returns
    /\ UNCHANGED <<part, listVars, mapVars, importVars, searchVars>>

Spec == Init /\ [][Next]_vars /\ WF_vars(LoopGoesOn)

-----------------------------------------------------------------------------
(***************************************************************************)
(* Every loop ends: over a list as long as it is not appended to for ever, *)
(* over a range with no element -1, over an object whose __next__ says so. *)
(***************************************************************************)
LoopsEnd == part = "iteration" /\ Orderly ~> (pc = "done" \/ ~Orderly)

=============================================================================
