----------------------------- MODULE MCFuseDir -----------------------------
(* A small instance of FuseDir. *)
EXTENDS FuseDir

NoExtents == {}
NoKeys == {}

\* `result' decides nothing here: states that differ in it only are the same.
WithoutResult == <<state, parents, request, listing, known>>
=============================================================================
