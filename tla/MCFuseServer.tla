--------------------------- MODULE MCFuseServer ---------------------------
(* Small instances of FuseServer for TLC. *)
EXTENDS FuseServer, TLC

CONSTANTS a, m1, m2

\* `result' decides nothing here: states that differ in it only are the same.
WithoutResult == <<state, client, objects, puts, late, failures>>

MountSymmetry == Permutations(Mounts)

\* Object keys are the tuples MakeObjectKey builds.
ObjectKeys ==
    InodeIds \X Mounts \X (0 .. MaxRestarts) \X (1 .. MaxWrites) \X (0 .. MaxWrites * 2)

NoBatches == {}

F(w, ap, tr) == [writable |-> w, append |-> ap, trunc |-> tr]
WriteAndAppend == {F(TRUE, FALSE, FALSE), F(TRUE, TRUE, FALSE)}
AllWrites == WriteAndAppend \cup {F(TRUE, FALSE, TRUE)}
JustAppend == {F(TRUE, TRUE, FALSE)}
=============================================================================
