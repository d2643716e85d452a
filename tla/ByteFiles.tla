----------------------------- MODULE ByteFiles -----------------------------
(***************************************************************************)
(* What the file half of MetaState promises, without extents: a file is a  *)
(* size and, for each byte position, the object byte stored there or Hole. *)
(* A batch of writes is applied byte by byte: the last write of the batch  *)
(* that covers a byte decides it.  An append is a write at the end of the  *)
(* file.  A truncate cuts bytes off, or grows the file with holes.         *)
(***************************************************************************)
EXTENDS Extents

CONSTANTS Bytes,    \* the byte positions looked at
          Batches,  \* lists of well-formed extents
          Sizes

VARIABLE files      \* id -> [size, bytes]

Hole == {}

EmptyFile == [size |-> 0, bytes |-> [b \in Bytes |-> Hole]]

Covering(es, b) == {k \in 1 .. Len(es) : Covers(es[k], b)}

\* Byte b after es was written at base to a file that held `old' there.
Overwritten(old, es, base, b) ==
    IF b < base \/ Covering(es, b - base) = {} THEN old
    ELSE LET k == CHOOSE k \in Covering(es, b - base) :
                     \A l \in Covering(es, b - base) : l <= k
         IN  {Cell(es[k], b - base)}

\* The least size that holds old bytes and every byte of the batch.
GrownSize(size, es, base) ==
    CHOOSE n \in {size} \cup {base + ExtentEnd(es[k]) : k \in 1 .. Len(es)} :
        n >= size /\ \A k \in 1 .. Len(es) : n >= base + ExtentEnd(es[k])

WriteAt(i, es, base) ==
    files' = [files EXCEPT ![i] =
                [size  |-> GrownSize(@.size, es, base),
                 bytes |-> [b \in Bytes |-> Overwritten(@.bytes[b], es, base, b)]]]

Write(i) == \E es \in Batches : WriteAt(i, es, 0)

AppendTo(i) == \E es \in Batches : WriteAt(i, es, files[i].size)

Truncate(i) ==
    \E size \in Sizes :
        files' = [files EXCEPT ![i] =
                    [size  |-> size,
                     bytes |-> [b \in Bytes |-> IF b < size THEN @.bytes[b] ELSE Hole]]]

Create == \E i \in DOMAIN files' \ DOMAIN files :
    files' = [j \in DOMAIN files \cup {i} |-> IF j = i THEN EmptyFile ELSE files[j]]

Remove(i) == files' = [j \in DOMAIN files \ {i} |-> files[j]]

Init == files = [i \in {} |-> EmptyFile]

Next == \/ \E i \in DOMAIN files : Write(i) \/ AppendTo(i) \/ Truncate(i) \/ Remove(i)
        \/ Create

Spec == Init /\ [][Next]_files
=============================================================================
