----------------------------- MODULE MetaBytes -----------------------------
(***************************************************************************)
(* MetaState implements ByteFiles, when every batch is well-formed.        *)
(***************************************************************************)
EXTENDS MetaState

CONSTANT Bytes      \* the byte positions looked at

ASSUME BytesAssumption == Bytes \subseteq Nat

BatchesValid == \A es \in Batches : \A k \in 1 .. Len(es) : ValidExtent(es[k])

\* The files as a reader sees them: GetLayout's size and extents.
FileView ==
    [i \in DOMAIN layouts |->
        [size  |-> GetLayout(i).attrs.size,
         bytes |-> [b \in Bytes |-> CellsAt(GetLayout(i).extents, b)]]]

Abstract == INSTANCE ByteFiles WITH files <- FileView

\* Merging, slicing and truncating extents comes to writing byte by byte:
\* every step of MetaState is a step of ByteFiles on the file it names, and
\* leaves every other file as it was.
ImplementsByteFiles == Abstract!Spec
=============================================================================
