---------------------------- MODULE Reachability ----------------------------
(***************************************************************************)
(* What can be reached in a graph, a set of pairs of nodes: the least set  *)
(* that is closed under its edges.  The definition quantifies over sets of *)
(* nodes, so it is for small graphs, and needs no recursion.               *)
(***************************************************************************)

\* No edge of the graph leads out of S.
IsClosed(S, edges) == \A e \in edges : e[1] \in S => e[2] \in S

Targets(x, edges) == {e[2] : e \in {d \in edges : d[1] = x}}

\* The nodes reached from those of From, themselves included.
ReachedFrom(From, edges, Nodes) ==
    {x \in Nodes :
        \A S \in SUBSET Nodes : From \subseteq S /\ IsClosed(S, edges) => x \in S}

\* A path of one edge or more leads from x back to x.
OnCycle(x, edges, Nodes) == x \in ReachedFrom(Targets(x, edges), edges, Nodes)

=============================================================================
