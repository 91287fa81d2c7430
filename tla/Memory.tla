------------------------------- MODULE Memory -------------------------------
(***************************************************************************)
(* What a program may expect of the memory it runs in: an object that it   *)
(* can still reach is not taken away.  Objects hold references to one      *)
(* another, strong and weak; the program holds some itself, changes what   *)
(* it reaches, and makes new objects.  A weak reference does not keep its  *)
(* object, but never refers to one that is gone.  When an object that is   *)
(* out of reach is reclaimed is left open, and so is whether it is at all. *)
(***************************************************************************)
EXTENDS Reachability

CONSTANT Objs

VARIABLES
    alive,  \* the objects that exist
    held,   \* those the program refers to directly
    edges,  \* pairs of objects, the first of which refers to the second
    weak    \* pairs of objects, the first of which refers weakly to the second

vars == <<alive, held, edges, weak>>

Reached == ReachedFrom(held, edges, Objs)

\* What the program can lay its hands on.
Known == Reached \cup UNION {Targets(o, weak) : o \in Reached}

Init ==
    /\ alive = {}
    /\ held = {}
    /\ edges = {}
    /\ weak = {}

(***************************************************************************)
(* The program goes on with what it knows and what it makes; an object     *)
(* disappears only when the program no longer reaches it.                  *)
(***************************************************************************)
Next ==
    LET known == Known \cup (alive' \ alive)
    IN  /\ held' \subseteq known
        /\ \A o \in Objs :
              \/ Targets(o, edges') = Targets(o, edges)
              \/ o \in known /\ Targets(o, edges') \subseteq known
              \/ o \notin alive'
        /\ Reached' \subseteq alive'
        /\ \A e \in weak' : e[1] \in alive' => e[2] \in alive'

Spec == Init /\ [][Next]_vars

=============================================================================
