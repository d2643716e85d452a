------------------------------ MODULE MCFuseGc ------------------------------
(* A small instance of FuseGc for TLC. *)
EXTENDS FuseGc, TLC

CONSTANTS a, m1

\* `result' decides nothing here: states that differ in it only are the same.
WithoutResult ==
    <<state, client, objects, puts, late, failures, store, overdue, gc>>

\* Object keys are the tuples MakeObjectKey builds.
ObjectKeys ==
    InodeIds \X Mounts \X (0 .. MaxRestarts) \X (1 .. MaxWrites) \X (0 .. MaxWrites * 2)

NoBatches == {}

F(w, ap, tr) == [writable |-> w, append |-> ap, trunc |-> tr]
AllWrites == {F(TRUE, FALSE, FALSE), F(TRUE, FALSE, TRUE), F(TRUE, TRUE, FALSE)}
=============================================================================
