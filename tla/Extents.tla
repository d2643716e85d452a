------------------------------ MODULE Extents ------------------------------
(***************************************************************************)
(* The extent arithmetic of src/src/meta_state.cc.                         *)
(*                                                                         *)
(* A FileExtent says that the file's bytes offset .. offset + length - 1   *)
(* are the bytes of object `key' that start at object_offset.  etag,       *)
(* checksum and object_size never influence a decision and are left out.   *)
(* The repeated field `extents' of a FileLayout is modelled as the set of  *)
(* its members: MergeExtent sorts by offset (lines 49-51), and the members *)
(* of a layout have distinct offsets (MetaState!ExtentsDisjoint), so the   *)
(* list is that set read in offset order.                                  *)
(*                                                                         *)
(* Offsets are natural numbers.  The extents of a FUSE write have an       *)
(* offset that came from a non-negative off_t and a length bounded by the  *)
(* kernel, so offset + length stays below 2^64.                            *)
(***************************************************************************)
EXTENDS Naturals, Sequences

CONSTANT Keys       \* non-empty object keys
CONSTANT NoKey      \* the empty object_key of a malformed extent

ASSUME NoKeyIsNoKey == NoKey \notin Keys

Extent == [offset : Nat, length : Nat, key : Keys \cup {NoKey}, object_offset : Nat]

ExtentEnd(e) == e.offset + e.length

\* Mutant: an extent that only starts before f is not seen to overlap it.
OverlapsOneSided(e, f) == f.offset <= e.offset /\ e.offset < ExtentEnd(f)

Overlaps(e, f) == e.offset < ExtentEnd(f) /\ f.offset < ExtentEnd(e)

\* Mutant: object_offset is copied as it is.
SliceExtentSameObjectOffset(e, offset, length) ==
    [offset |-> offset, length |-> length, key |-> e.key,
     object_offset |-> e.object_offset]

\* The part of e that starts at file offset `offset'.
SliceExtent(e, offset, length) ==
    [offset |-> offset, length |-> length, key |-> e.key,
     object_offset |-> e.object_offset + (offset - e.offset)]

\* Mutant: the tail is as long as the whole extent was.
RemnantsLongTail(x, e) ==
    IF ~Overlaps(x, e) THEN {x}
    ELSE (IF x.offset < e.offset
             THEN {SliceExtent(x, x.offset, e.offset - x.offset)} ELSE {})
         \cup
         (IF ExtentEnd(e) < ExtentEnd(x)
             THEN {SliceExtent(x, ExtentEnd(e), x.length)} ELSE {})

\* What is left of the stored extent x once e has been written over it.
Remnants(x, e) ==
    IF ~Overlaps(x, e) THEN {x}
    ELSE (IF x.offset < e.offset
             THEN {SliceExtent(x, x.offset, e.offset - x.offset)} ELSE {})
         \cup
         (IF ExtentEnd(e) < ExtentEnd(x)
             THEN {SliceExtent(x, ExtentEnd(e), ExtentEnd(x) - ExtentEnd(e))} ELSE {})

MergeExtent(stored, e) == {e} \cup UNION {Remnants(x, e) : x \in stored}

\* The loop of CommitWrite and AppendWrite over the first n extents of es.
MergeFirst(stored, es, n) ==
    LET merged[i \in Nat] ==
          IF i = 0 THEN stored ELSE MergeExtent(merged[i - 1], es[i])
    IN  merged[n]

\* Mutant: an extent that crosses the new end is kept whole.
TruncateExtentsUncut(stored, size) == {x \in stored : x.offset < size}

\* Mutant: extents that lie behind the new end are not skipped.
TruncateExtentsNoSkip(stored, size) ==
    {x \in stored : ExtentEnd(x) <= size}
    \cup {SliceExtent(x, x.offset, size - x.offset) :
             x \in {y \in stored : size < ExtentEnd(y)}}

\* The extents Truncate keeps.
TruncateExtents(stored, size) ==
    {x \in stored : ExtentEnd(x) <= size}
    \cup {SliceExtent(x, x.offset, size - x.offset) :
             x \in {y \in stored : y.offset < size /\ size < ExtentEnd(y)}}

\* The check at the head of both loops; an extent that fails it is rejected.
ValidExtent(e) == e.length # 0 /\ e.key # NoKey

(***************************************************************************)
(* What a set of extents means: the object byte behind each file byte.     *)
(* CellsAt is a set because nothing in the operators above forbids two     *)
(* extents from covering the same byte; the empty set is a hole.           *)
(***************************************************************************)
Covers(e, b) == e.offset <= b /\ b < ExtentEnd(e)

Cell(e, b) == <<e.key, e.object_offset + (b - e.offset)>>

CellsAt(stored, b) == {Cell(e, b) : e \in {x \in stored : Covers(x, b)}}

Disjoint(stored) == \A x, y \in stored : x # y => ~Overlaps(x, y)
=============================================================================
