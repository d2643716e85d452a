--------------------------- MODULE MCMetaService ---------------------------
(* A small instance of MetaService. *)
EXTENDS MetaService, TLC

CONSTANTS c1, c2, a, b, k1

E(offset, length, key) ==
    [offset |-> offset, length |-> length, key |-> key, object_offset |-> 0]

\* One of them is refused half-way.
SomeBatches == {<<E(0, 2, k1)>>, <<E(1, 1, k1), E(0, 0, k1)>>}

\* Each is accepted or refused, depending on what went before.
SomeCommands ==
    {CreateFileCommand(1, a, 0), MkdirCommand(1, b, 0), RmdirCommand(1, a),
     CommitWriteCommand(2, <<E(1, 1, k1), E(0, 0, k1)>>)}

\* One of each kind.
SomeReads ==
    {LookupRequest(1, a), GetAttrRequest(2), ReadDirRequest(1), GetLayoutRequest(2),
     ListLiveObjectsRequest}
=============================================================================
