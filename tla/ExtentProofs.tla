--------------------------- MODULE ExtentProofs ----------------------------
(***************************************************************************)
(* What the extent arithmetic of meta_state.cc preserves and computes, for *)
(* all extents.                                                            *)
(***************************************************************************)
EXTENDS Extents, NatLemmas

\* A slice inside an extent is an extent.
LEMMA SliceType ==
    ASSUME NEW x \in Extent, NEW o \in Nat, NEW l \in Nat, x.offset <= o
    PROVE  /\ SliceExtent(x, o, l) \in Extent
           /\ SliceExtent(x, o, l).offset = o
           /\ SliceExtent(x, o, l).length = l
           /\ SliceExtent(x, o, l).key = x.key
           /\ SliceExtent(x, o, l).object_offset = x.object_offset + (o - x.offset)
BY DEF SliceExtent, Extent

\* The members of Remnants: a head that ends where e starts and a tail that
\* starts where e ends.
LEMMA RemnantIs ==
    ASSUME NEW x \in Extent, NEW e \in Extent, Overlaps(x, e), NEW r \in Remnants(x, e)
    PROVE  /\ r \in Extent
           /\ r.key = x.key
           /\ r.object_offset = x.object_offset + (r.offset - x.offset)
           /\ 0 < r.length
           /\ x.offset <= r.offset
           /\ ExtentEnd(r) <= ExtentEnd(x)
           /\ \/ r.offset = x.offset /\ ExtentEnd(r) = e.offset
              \/ r.offset = ExtentEnd(e) /\ ExtentEnd(r) = ExtentEnd(x)
<1>1. x.offset \in Nat /\ x.length \in Nat /\ e.offset \in Nat /\ e.length \in Nat
    BY DEF Extent
<1>2. CASE x.offset < e.offset /\ r = SliceExtent(x, x.offset, e.offset - x.offset)
    BY <1>1, <1>2, SliceType DEF Overlaps, ExtentEnd
<1>3. CASE ExtentEnd(e) < ExtentEnd(x)
           /\ r = SliceExtent(x, ExtentEnd(e), ExtentEnd(x) - ExtentEnd(e))
    <2>1. /\ ExtentEnd(e) \in Nat /\ ExtentEnd(x) - ExtentEnd(e) \in Nat
          /\ x.offset < ExtentEnd(e) /\ ExtentEnd(x) \in Nat
        BY <1>1, <1>3 DEF Overlaps, ExtentEnd
    <2>2. /\ r \in Extent /\ r.offset = ExtentEnd(e) /\ r.length = ExtentEnd(x) - ExtentEnd(e)
          /\ r.key = x.key /\ r.object_offset = x.object_offset + (ExtentEnd(e) - x.offset)
        BY <1>1, <1>3, <2>1, SliceType
    <2>3. ExtentEnd(r) = r.offset + r.length
        BY DEF ExtentEnd
    <2> QED BY <1>1, <1>3, <2>1, <2>2, <2>3
<1> QED BY <1>2, <1>3 DEF Remnants

\* Where a member of MergeExtent comes from.
LEMMA MergedIs ==
    ASSUME NEW stored \in SUBSET Extent, NEW e \in Extent, NEW r \in MergeExtent(stored, e)
    PROVE  \/ r = e
           \/ r \in stored /\ ~Overlaps(r, e)
           \/ \E x \in stored : Overlaps(x, e) /\ r \in Remnants(x, e)
<1>1. r = e \/ \E x \in stored : r \in Remnants(x, e)
    BY DEF MergeExtent
<1>2. ASSUME NEW x \in stored, r \in Remnants(x, e), ~Overlaps(x, e) PROVE r = x
    BY <1>2 DEF Remnants
<1> QED BY <1>1, <1>2

\* Merging keeps a layout well typed.
LEMMA MergeExtentType ==
    ASSUME NEW stored \in SUBSET Extent, NEW e \in Extent
    PROVE  MergeExtent(stored, e) \in SUBSET Extent
BY MergedIs, RemnantIs

\* Merging an extent keeps the extents of a layout disjoint.
LEMMA MergeExtentDisjoint ==
    ASSUME NEW stored \in SUBSET Extent, NEW e \in Extent, Disjoint(stored)
    PROVE  Disjoint(MergeExtent(stored, e))
<1> SUFFICES ASSUME NEW r \in MergeExtent(stored, e), NEW s \in MergeExtent(stored, e), r # s
             PROVE  ~Overlaps(r, s)
    BY DEF Disjoint
<1> DEFINE From(t, x) == x \in stored /\ (t = x \/ (Overlaps(x, e) /\ t \in Remnants(x, e)))
<1>0. r \in Extent /\ s \in Extent /\ e \in Extent
    BY MergeExtentType
<1>1. ASSUME NEW t \in MergeExtent(stored, e), t # e
      PROVE  ~Overlaps(t, e) /\ ~Overlaps(e, t) /\ \E x \in stored : From(t, x)
    <2>1. CASE t \in stored /\ ~Overlaps(t, e)
        BY <2>1 DEF Overlaps
    <2>2. ASSUME NEW x \in stored, Overlaps(x, e), t \in Remnants(x, e)
          PROVE  ~Overlaps(t, e) /\ ~Overlaps(e, t)
        BY <2>2, RemnantIs DEF Overlaps, ExtentEnd, Extent
    <2> QED BY <1>1, <2>1, <2>2, MergedIs
<1>2. CASE r = e \/ s = e
    BY <1>1, <1>2
<1>3. CASE r # e /\ s # e
    <2>1. PICK x \in stored : From(r, x)
        BY <1>1, <1>3
    <2>2. PICK y \in stored : From(s, y)
        BY <1>1, <1>3
    <2>3. /\ x.offset <= r.offset /\ ExtentEnd(r) <= ExtentEnd(x)
          /\ y.offset <= s.offset /\ ExtentEnd(s) <= ExtentEnd(y)
        BY <2>1, <2>2, RemnantIs DEF Extent, ExtentEnd
    <2>4. CASE x # y
        <3>1. ~Overlaps(x, y)
            BY <2>4 DEF Disjoint
        <3> QED BY <1>0, <2>3, <3>1 DEF Overlaps, ExtentEnd, Extent
    <2>5. CASE x = y
        <3>1. r # x /\ s # x
            BY <1>1, <1>3, <2>1, <2>2, <2>5
        <3>2. Overlaps(x, e) /\ r \in Remnants(x, e) /\ s \in Remnants(x, e)
            BY <2>1, <2>2, <2>5, <3>1
        <3>3. \/ ExtentEnd(r) = e.offset /\ s.offset = ExtentEnd(e)
              \/ ExtentEnd(s) = e.offset /\ r.offset = ExtentEnd(e)
            <4>1. x.offset \in Nat /\ x.length \in Nat /\ e.offset \in Nat /\ e.length \in Nat
                BY <1>0 DEF Extent
            <4> QED BY <3>2, <4>1 DEF Remnants, SliceExtent, ExtentEnd
        <3> QED BY <1>0, <3>3 DEF Overlaps, ExtentEnd, Extent
    <2> QED BY <2>4, <2>5
<1> QED BY <1>2, <1>3

\* What a reader finds at byte b after a merge: the bytes of e where e covers,
\* what was there before elsewhere.
LEMMA MergeExtentCells ==
    ASSUME NEW stored \in SUBSET Extent, NEW e \in Extent, NEW b \in Nat
    PROVE  CellsAt(MergeExtent(stored, e), b) =
               IF Covers(e, b) THEN {Cell(e, b)} ELSE CellsAt(stored, b)
<1> DEFINE M == MergeExtent(stored, e)
<1>0. e \in M
    BY DEF MergeExtent
<1>1. ASSUME NEW r \in M, Covers(r, b), r # e
      PROVE  ~Covers(e, b) /\ \E x \in stored : Covers(x, b) /\ Cell(x, b) = Cell(r, b)
    <2>1. CASE r \in stored /\ ~Overlaps(r, e)
        BY <1>1, <2>1 DEF Overlaps, Covers, ExtentEnd, Extent
    <2>2. ASSUME NEW x \in stored, Overlaps(x, e), r \in Remnants(x, e)
          PROVE  ~Covers(e, b) /\ Covers(x, b) /\ Cell(x, b) = Cell(r, b)
        BY <1>1, <2>2, RemnantIs DEF Covers, Cell, ExtentEnd, Extent
    <2> QED BY <1>1, <2>1, <2>2, MergedIs
<1>2. ASSUME NEW x \in stored, Covers(x, b), ~Covers(e, b)
      PROVE  \E r \in M : Covers(r, b) /\ Cell(x, b) = Cell(r, b)
    <2>0. /\ x.offset \in Nat /\ x.length \in Nat /\ x.object_offset \in Nat
          /\ e.offset \in Nat /\ e.length \in Nat
        BY DEF Extent
    <2>1. Remnants(x, e) \subseteq M
        BY DEF MergeExtent
    <2>2. CASE ~Overlaps(x, e)
        BY <1>2, <2>1, <2>2 DEF Remnants
    <2>3. CASE Overlaps(x, e) /\ b < e.offset
        <3> DEFINE r == SliceExtent(x, x.offset, e.offset - x.offset)
        <3>1. r \in Remnants(x, e)
            BY <1>2, <2>0, <2>3 DEF Remnants, Covers
        <3>2. Covers(r, b) /\ Cell(x, b) = Cell(r, b)
            BY <1>2, <2>0, <2>3 DEF SliceExtent, Covers, Cell, ExtentEnd
        <3> QED BY <2>1, <3>1, <3>2
    <2>4. CASE Overlaps(x, e) /\ ExtentEnd(e) <= b
        <3> DEFINE r == SliceExtent(x, ExtentEnd(e), ExtentEnd(x) - ExtentEnd(e))
        <3>1. r \in Remnants(x, e)
            BY <1>2, <2>0, <2>4 DEF Remnants, Covers, ExtentEnd
        <3>2. Covers(r, b) /\ Cell(x, b) = Cell(r, b)
            BY <1>2, <2>0, <2>4 DEF SliceExtent, Covers, Cell, ExtentEnd
        <3> QED BY <2>1, <3>1, <3>2
    <2> QED BY <1>2, <2>0, <2>2, <2>3, <2>4 DEF Covers, ExtentEnd
<1>3. CASE Covers(e, b)
    BY <1>0, <1>1, <1>3 DEF CellsAt
<1>4. CASE ~Covers(e, b)
    BY <1>0, <1>1, <1>2, <1>4 DEF CellsAt
<1> QED BY <1>3, <1>4
-----------------------------------------------------------------------------
(* Truncate. *)

\* Where an extent that survives a truncate comes from.
LEMMA TruncateIs ==
    ASSUME NEW stored \in SUBSET Extent, NEW size \in Nat, NEW r \in TruncateExtents(stored, size)
    PROVE  /\ r \in Extent /\ ExtentEnd(r) <= size
           /\ \E x \in stored : /\ x.offset = r.offset /\ ExtentEnd(r) <= ExtentEnd(x)
                               /\ x.key = r.key /\ x.object_offset = r.object_offset
                               /\ r = IF ExtentEnd(x) <= size THEN x
                                      ELSE SliceExtent(x, x.offset, size - x.offset)
<1>1. CASE r \in stored /\ ExtentEnd(r) <= size
    BY <1>1 DEF Extent, ExtentEnd
<1>2. ASSUME NEW x \in stored, x.offset < size, size < ExtentEnd(x),
             r = SliceExtent(x, x.offset, size - x.offset)
      PROVE  /\ r \in Extent /\ ExtentEnd(r) = size
             /\ x.offset = r.offset /\ ExtentEnd(r) <= ExtentEnd(x)
             /\ x.key = r.key /\ x.object_offset = r.object_offset
             /\ ~(ExtentEnd(x) <= size)
    <2>1. /\ x.offset \in Nat /\ x.length \in Nat /\ x.object_offset \in Nat
          /\ size - x.offset \in Nat
        BY <1>2 DEF Extent
    <2> QED BY <1>2, <2>1, SliceType DEF ExtentEnd
<1> QED BY <1>1, <1>2 DEF TruncateExtents

\* Truncating keeps the extents of a layout disjoint.
LEMMA TruncateDisjoint ==
    ASSUME NEW stored \in SUBSET Extent, NEW size \in Nat, Disjoint(stored)
    PROVE  Disjoint(TruncateExtents(stored, size))
<1> SUFFICES ASSUME NEW r \in TruncateExtents(stored, size),
                    NEW s \in TruncateExtents(stored, size), r # s
             PROVE  ~Overlaps(r, s)
    BY DEF Disjoint
<1>1. PICK x \in stored : /\ x.offset = r.offset /\ ExtentEnd(r) <= ExtentEnd(x)
                          /\ r = IF ExtentEnd(x) <= size THEN x
                                 ELSE SliceExtent(x, x.offset, size - x.offset)
    BY TruncateIs
<1>2. PICK y \in stored : /\ y.offset = s.offset /\ ExtentEnd(s) <= ExtentEnd(y)
                          /\ s = IF ExtentEnd(y) <= size THEN y
                                 ELSE SliceExtent(y, y.offset, size - y.offset)
    BY TruncateIs
<1>3. ~Overlaps(x, y)
    BY <1>1, <1>2 DEF Disjoint
<1>4. r \in Extent /\ s \in Extent
    BY TruncateIs
<1> QED BY <1>1, <1>2, <1>3, <1>4 DEF Overlaps, ExtentEnd, Extent

\* What a reader finds at byte b after a truncate.
LEMMA TruncateCells ==
    ASSUME NEW stored \in SUBSET Extent, NEW size \in Nat, NEW b \in Nat
    PROVE  CellsAt(TruncateExtents(stored, size), b) =
               IF b < size THEN CellsAt(stored, b) ELSE {}
<1>1. ASSUME NEW r \in TruncateExtents(stored, size), Covers(r, b)
      PROVE  b < size /\ \E x \in stored : Covers(x, b) /\ Cell(x, b) = Cell(r, b)
    <2>1. PICK x \in stored : /\ x.offset = r.offset /\ ExtentEnd(r) <= ExtentEnd(x)
                              /\ x.key = r.key /\ x.object_offset = r.object_offset
        BY TruncateIs
    <2>2. r \in Extent /\ ExtentEnd(r) <= size
        BY TruncateIs
    <2>3. b < size /\ Covers(x, b) /\ Cell(x, b) = Cell(r, b)
        BY <1>1, <2>1, <2>2 DEF Covers, Cell, ExtentEnd, Extent
    <2> QED BY <2>3
<1>2. ASSUME NEW x \in stored, Covers(x, b), b < size
      PROVE  \E r \in TruncateExtents(stored, size) : Covers(r, b) /\ Cell(x, b) = Cell(r, b)
    <2>0. x.offset \in Nat /\ x.length \in Nat /\ x.object_offset \in Nat
        BY DEF Extent
    <2>1. CASE ExtentEnd(x) <= size
        BY <1>2, <2>1 DEF TruncateExtents
    <2>2. CASE size < ExtentEnd(x)
        <3> DEFINE r == SliceExtent(x, x.offset, size - x.offset)
        <3>1. r \in TruncateExtents(stored, size)
            BY <1>2, <2>0, <2>2 DEF TruncateExtents, Covers
        <3>2. Covers(r, b) /\ Cell(x, b) = Cell(r, b)
            BY <1>2, <2>0, <2>2 DEF SliceExtent, Covers, Cell, ExtentEnd
        <3> QED BY <3>1, <3>2
    <2> QED BY <2>0, <2>1, <2>2 DEF ExtentEnd
<1> QED BY <1>1, <1>2 DEF CellsAt
-----------------------------------------------------------------------------
(* The loop over a batch. *)

\* The recursive function of MergeFirst exists: it is put together from its
\* restrictions to 0 .. n, which exist by induction and agree.
LEMMA MergedExists ==
    ASSUME NEW stored, NEW es
    PROVE  \E f : f = [i \in Nat |-> IF i = 0 THEN stored ELSE MergeExtent(f[i - 1], es[i])]
<1> DEFINE Good(g, n) ==
              /\ g[0] = stored
              /\ \A i \in 0 .. n : i # 0 => g[i] = MergeExtent(g[i - 1], es[i])
<1> DEFINE S == {n \in Nat : \E g : Good(g, n)}
<1>1. 0 \in S
    <2>1. Good([i \in {0} |-> stored], 0)
        OBVIOUS
    <2> QED BY <2>1
<1>2. ASSUME NEW n \in S PROVE n + 1 \in S
    <2>1. PICK g : Good(g, n)
        OBVIOUS
    <2> DEFINE h == [i \in Nat |-> IF i = n + 1 THEN MergeExtent(g[n], es[n + 1]) ELSE g[i]]
    <2>2. h[0] = stored
        BY <2>1
    <2>3. ASSUME NEW i \in 0 .. n + 1, i # 0 PROVE h[i] = MergeExtent(h[i - 1], es[i])
        <3>1. CASE i = n + 1
            BY <2>3, <3>1
        <3>2. CASE i # n + 1
            BY <2>1, <2>3, <3>2
        <3> QED BY <3>1, <3>2
    <2>4. Good(h, n + 1)
        BY <2>2, <2>3
    <2> HIDE DEF h
    <2> QED BY <2>4
<1>3. S = Nat
    <2> HIDE DEF S
    <2>1. S \in SUBSET Nat
        BY DEF S
    <2> QED BY <1>1, <1>2, <2>1, SetInduction
<1> DEFINE G(n) == CHOOSE g : Good(g, n)
<1>4. ASSUME NEW n \in Nat PROVE Good(G(n), n)
    BY <1>3
<1> HIDE DEF G
<1> DEFINE T == {i \in Nat : \A n \in Nat : i <= n => G(n)[i] = G(i)[i]}
<1>5. 0 \in T
    BY <1>4
<1>6. ASSUME NEW i \in T PROVE i + 1 \in T
    <2> SUFFICES ASSUME NEW n \in Nat, i + 1 <= n PROVE G(n)[i + 1] = G(i + 1)[i + 1]
        OBVIOUS
    <2>1. G(n)[i + 1] = MergeExtent(G(n)[i], es[i + 1])
        BY <1>4
    <2>2. G(i + 1)[i + 1] = MergeExtent(G(i + 1)[i], es[i + 1])
        BY <1>4
    <2>3. G(n)[i] = G(i)[i] /\ G(i + 1)[i] = G(i)[i]
        BY <1>6
    <2> QED BY <2>1, <2>2, <2>3
<1>7. T = Nat
    <2> HIDE DEF T
    <2>1. T \in SUBSET Nat
        BY DEF T
    <2> QED BY <1>5, <1>6, <2>1, SetInduction
<1> DEFINE f == [n \in Nat |-> G(n)[n]]
<1>8. ASSUME NEW i \in Nat
      PROVE  f[i] = IF i = 0 THEN stored ELSE MergeExtent(f[i - 1], es[i])
    <2>1. CASE i = 0
        BY <1>4, <2>1
    <2>2. CASE i # 0
        <3>1. G(i)[i] = MergeExtent(G(i)[i - 1], es[i])
            BY <1>4, <2>2
        <3>2. i - 1 \in T
            BY <1>7, <2>2
        <3>3. G(i)[i - 1] = G(i - 1)[i - 1]
            BY <3>2
        <3> QED BY <2>2, <3>1, <3>3
    <2> QED BY <2>1, <2>2
<1>9. f = [i \in Nat |-> IF i = 0 THEN stored ELSE MergeExtent(f[i - 1], es[i])]
    BY <1>8
<1> HIDE DEF f
<1> QED BY <1>9

\* MergeFirst is the loop it stands for: nothing is merged in no iteration,
\* and iteration n + 1 merges the extent of that index.
LEMMA MergeFirstStep ==
    ASSUME NEW stored, NEW es
    PROVE  /\ MergeFirst(stored, es, 0) = stored
           /\ \A n \in Nat : MergeFirst(stored, es, n + 1) =
                                 MergeExtent(MergeFirst(stored, es, n), es[n + 1])
<1> DEFINE D(f) == [i \in Nat |-> IF i = 0 THEN stored ELSE MergeExtent(f[i - 1], es[i])]
           m == CHOOSE f : f = D(f)
<1>1. m = D(m)
    BY MergedExists
<1>2. \A n : MergeFirst(stored, es, n) = m[n]
    BY DEF MergeFirst
<1> HIDE DEF m
<1>3. m[0] = stored /\ \A n \in Nat : m[n + 1] = MergeExtent(m[n], es[n + 1])
    BY <1>1
<1> QED BY <1>2, <1>3

\* The loop keeps the layout well typed and disjoint, whatever the batch.
LEMMA MergeFirstSafe ==
    ASSUME NEW stored \in SUBSET Extent, NEW es \in Seq(Extent), NEW n \in 0 .. Len(es)
    PROVE  /\ MergeFirst(stored, es, n) \in SUBSET Extent
           /\ Disjoint(stored) => Disjoint(MergeFirst(stored, es, n))
<1> DEFINE P(k) == /\ MergeFirst(stored, es, k) \in SUBSET Extent
                   /\ Disjoint(stored) => Disjoint(MergeFirst(stored, es, k))
           S == {k \in Nat : k <= Len(es) => P(k)}
<1>1. 0 \in S
    BY MergeFirstStep
<1>2. ASSUME NEW k \in S PROVE k + 1 \in S
    <2> SUFFICES ASSUME k + 1 <= Len(es) PROVE P(k + 1)
        OBVIOUS
    <2>1. P(k) /\ es[k + 1] \in Extent
        OBVIOUS
    <2>2. MergeFirst(stored, es, k + 1) = MergeExtent(MergeFirst(stored, es, k), es[k + 1])
        BY MergeFirstStep
    <2> QED BY <2>1, <2>2, MergeExtentType, MergeExtentDisjoint
<1>3. S = Nat
    <2> HIDE DEF S
    <2>1. S \in SUBSET Nat
        BY DEF S
    <2> QED BY <1>1, <1>2, <2>1, SetInduction
<1> QED BY <1>3
=============================================================================
