------------------------------ MODULE MCLibrary ------------------------------
(***************************************************************************)
(* Instance of Library for TLC.                                            *)
(***************************************************************************)
EXTENDS Library

\* a and b share a bucket until the map grows; c and the garbage of the long
\* name always share one.
MCHash == "a" :> 1 @@ "b" :> 5 @@ "c" :> 3 @@ "long" :> 0

MCFile(dir, name, home) == [dir |-> dir, name |-> name, home |-> home]

\* p and q in different directories name a file ./x of their own; the program's
\* directory has a file with the name of a builtin module, lib one for all names.
MCFiles ==
    {MCFile("app", "p", "app"), MCFile("app", "./x", "app"),
     MCFile("app", "std/os", "app/std"),
     MCFile("app/std", "./x", "app/std"),
     MCFile("lib", "mod", "lib")}

MCRange(s, e, d) == [start |-> s, end |-> e, stride |-> d]

\* Empty ranges, single elements, -1 at either end and in between, strides that
\* miss it, that miss the end and that pass the largest integer.
MCRanges ==
    {MCRange(s, e, d) : s \in {-4, -1, 0, 2}, e \in {-2, 0, 3, 7}, d \in {-1, 1, 2, 3}}

=============================================================================
