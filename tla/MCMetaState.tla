---------------------------- MODULE MCMetaState ----------------------------
(* Small instances of MetaState. *)
EXTENDS MetaBytes, TLC

CONSTANTS a, b, bad, k1, k2, m1, m2

NameSymmetry == Permutations({a, b})

NoExtents == {}
E(offset, length, key, object_offset) ==
    [offset |-> offset, length |-> length, key |-> key, object_offset |-> object_offset]

\* Writes that start before, inside and after one another, cover one another
\* and split one another, and a batch whose members overlap.
GoodBatches ==
    {<<E(0, 3, k1, 0)>>, <<E(1, 1, k2, 5)>>, <<E(2, 2, k2, 0)>>,
     <<E(1, 2, k1, 0), E(0, 2, k2, 7)>>, <<>>}

\* With one that is refused at its head, before anything is merged.
HeadRefused == GoodBatches \cup {<<E(0, 0, k1, 0)>>}

\* With one that is refused after its head is merged.
HalfMerged == {<<E(0, 3, k1, 0)>>, <<E(1, 2, k2, 0), E(0, 1, NoKey, 0)>>}
=============================================================================
