----------------------------- MODULE FuseProofs -----------------------------
(***************************************************************************)
(* What is true of the mounts, the files and the bucket for any number of  *)
(* mounts, writes, failures and restarts: no object that somebody still    *)
(* needs is lost, overwritten or collected too early.                      *)
(***************************************************************************)
EXTENDS FuseGc, MetaBytesProofs

\* Keys has the keys that MakeObjectKey builds.  In the code a key is the text
\* of these five; a run of TLC has those within its bounds.
KeysOfWrites == Nat \X Mounts \X Nat \X Nat \X Nat \subseteq Keys

GoodBatch(es) == es \in Seq(Extent) /\ \A k \in 1 .. Len(es) : ValidExtent(es[k])

\* What open was called with decides whether a handle appends.
AppendFlags == {f.append : f \in Flags}

Handle == [inode_id : Nat, writable : BOOLEAN, append : AppendFlags, layout : LayoutI,
           pending_extents : Seq(Extent), pending_append_extents : Seq(Extent),
           pending_append_length : Nat]

(***************************************************************************)
(* The inductive invariant.                                                *)
(***************************************************************************)
\* A handle waits for well-formed extents, in one of its two lists, and its
\* layout is that of the file while the version is.
LayoutCurrent(h, ino, lay, next) ==
    LET i == h.inode_id
    IN  /\ i < next
        /\ i \in DOMAIN ino => h.layout.attrs.version <= ino[i].version
        /\ i \in DOMAIN ino /\ ino[i].version = h.layout.attrs.version =>
               \A e \in h.layout.extents : i \in DOMAIN lay /\ e \in lay[i].extents

HandleOK(h, ino, lay, next) ==
    /\ h \in Handle
    /\ GoodBatch(h.pending_extents) /\ GoodBatch(h.pending_append_extents)
    /\ IF h.append THEN h.pending_extents = <<>> ELSE h.pending_append_extents = <<>>
    /\ LayoutCurrent(h, ino, lay, next)

OpenRequest ==
    [at : {"created", "truncate", "truncated"}, flags : Flags, inode_id : Nat]

\* A request in the middle names an inode that was there, or a handle.
RequestOK(r, table, next) ==
    \/ r.at \in {"idle", "setattr"}
    \/ r \in OpenRequest /\ r.inode_id < next
    \/ r.at = "reload" /\ r.fh \in DOMAIN table

MountOK(m) ==
    /\ next_handle_id[m] \in Nat /\ next_sequence[m] \in Nat /\ writer[m] \in Nat
    /\ \A fh \in DOMAIN handles[m] :
           /\ fh \in Nat /\ fh < next_handle_id[m]
           /\ HandleOK(handles[m][fh], inodes, layouts, next_inode_id)
    /\ RequestOK(request[m], handles[m], next_inode_id)

MountsOK ==
    /\ DOMAIN handles = Mounts /\ DOMAIN next_handle_id = Mounts
    /\ DOMAIN next_sequence = Mounts /\ DOMAIN writer = Mounts /\ DOMAIN request = Mounts
    /\ \A m \in Mounts : MountOK(m)

GoodCommand(c) ==
    \/ c.op = "truncate" /\ c.size \in Nat
    \/ c.op \in {"commit_write", "append_write"} /\ GoodBatch(c.extents)

LateOK == \A l \in late : GoodCommand(l.command)

\* A key in the bucket was made by an earlier start of its mount or by an
\* earlier write of this one.
KeyUsed(k) ==
    /\ k \in Nat \X Mounts \X Nat \X Nat \X Nat
    /\ k[3] < writer[k[2]] \/ (k[3] = writer[k[2]] /\ k[4] < next_sequence[k[2]])

BucketOK == \A k \in DOMAIN objects : KeyUsed(k) /\ objects[k].length \in Nat

FuseInv ==
    /\ MetaInv
    /\ MountsOK
    /\ LateOK
    /\ BucketOK
    /\ LiveExtentsBacked

-----------------------------------------------------------------------------
(***************************************************************************)
(* What becomes of the extents of the files.                               *)
(***************************************************************************)
\* The object bytes of e are among those of x.
Part(e, x) ==
    e.key = x.key /\ e.object_offset + e.length <= x.object_offset + x.length

\* Each member of S is a part of one of T.
PartsOf(S, T) == \A e \in S : \E x \in T : Part(e, x)

\* Every extent is a part of itself.
LEMMA PartsOfItself ==
    ASSUME NEW S \in SUBSET Extent, NEW T, S \subseteq T
    PROVE  PartsOf(S, T)
<1>1. \A e \in S : e.object_offset + e.length <= e.object_offset + e.length
    BY DEF Extent
<1> QED BY <1>1 DEF PartsOf, Part

\* A part of a part is a part.
LEMMA PartOfPart ==
    ASSUME NEW e \in Extent, NEW x \in Extent, NEW y \in Extent, Part(e, x), Part(x, y)
    PROVE  Part(e, y)
BY DEF Part, Extent

\* MergeExtent keeps parts of what was stored.
LEMMA MergeParts ==
    ASSUME NEW stored \in SUBSET Extent, NEW e \in Extent
    PROVE  PartsOf(MergeExtent(stored, e), stored \cup {e})
<1> SUFFICES ASSUME NEW r \in MergeExtent(stored, e)
             PROVE  \E x \in stored \cup {e} : Part(r, x)
    BY DEF PartsOf
<1>1. CASE r = e \/ r \in stored
    <2>1. r \in stored \cup {e} /\ r \in Extent
        BY <1>1
    <2> QED BY <2>1 DEF Part, Extent
<1>2. ASSUME NEW x \in stored, Overlaps(x, e), r \in Remnants(x, e) PROVE Part(r, x)
    <2>1. /\ r \in Extent /\ x \in Extent /\ r.key = x.key
          /\ r.object_offset = x.object_offset + (r.offset - x.offset)
          /\ x.offset <= r.offset /\ ExtentEnd(r) <= ExtentEnd(x)
        BY <1>2, RemnantIs
    <2> QED BY <2>1 DEF Part, Extent, ExtentEnd
<1> QED BY <1>1, <1>2, MergedIs

Members(es) == {es[k] : k \in 1 .. Len(es)}

\* So does the loop over a batch.
LEMMA MergeFirstParts ==
    ASSUME NEW stored \in SUBSET Extent, NEW es \in Seq(Extent), NEW n \in 0 .. Len(es)
    PROVE  PartsOf(MergeFirst(stored, es, n), stored \cup Members(es))
<1> DEFINE T == stored \cup Members(es)
           P(k) == PartsOf(MergeFirst(stored, es, k), T)
           S == {k \in Nat : k <= Len(es) => P(k)}
<1>0. Len(es) \in Nat /\ T \in SUBSET Extent
    BY DEF Members
<1>1. 0 \in S
    BY <1>0, MergeFirstStep, PartsOfItself
<1>2. ASSUME NEW k \in S PROVE k + 1 \in S
    <2> SUFFICES ASSUME k + 1 <= Len(es) PROVE P(k + 1)
        OBVIOUS
    <2> DEFINE M == MergeFirst(stored, es, k)
               e == es[k + 1]
    <2>1. P(k) /\ k \in 0 .. Len(es) /\ k + 1 \in 1 .. Len(es)
        BY <1>0
    <2>2. M \in SUBSET Extent /\ e \in Extent /\ e \in T
        <3>1. M \in SUBSET Extent
            BY <2>1, MergeFirstSafe
        <3> QED BY <2>1, <3>1 DEF Members
    <2>3. MergeFirst(stored, es, k + 1) = MergeExtent(M, e)
        BY <2>1, MergeFirstStep
    <2>4. PartsOf(M, T)
        BY <2>1
    <2> HIDE DEF M, e, T
    <2>5. ASSUME NEW r \in MergeExtent(M, e) PROVE \E x \in T : Part(r, x)
        <3>1. r \in Extent
            BY <2>2, MergeExtentType
        <3>2. PICK y \in M \cup {e} : Part(r, y)
            BY <2>2, MergeParts DEF PartsOf
        <3>3. CASE y = e
            BY <2>2, <3>2, <3>3
        <3>4. CASE y \in M
            <4>1. PICK x \in T : Part(y, x)
                BY <2>4, <3>4 DEF PartsOf
            <4> QED BY <1>0, <2>2, <3>1, <3>2, <3>4, <4>1, PartOfPart
        <3> QED BY <3>3, <3>4
    <2> QED BY <2>3, <2>5 DEF PartsOf
<1> HIDE DEF P
<1>3. S = Nat
    BY <1>1, <1>2, SetInduction
<1>4. P(n)
    BY <1>0, <1>3
<1> QED BY <1>4 DEF P

\* A shift moves extents in the file and not in their objects.
LEMMA ShiftParts ==
    ASSUME NEW es \in Seq(Extent), NEW start \in Nat
    PROVE  PartsOf(Members(ShiftBatch(es, start)), Members(es))
<1> DEFINE sh == ShiftBatch(es, start)
<1>1. /\ Len(sh) = Len(es)
      /\ \A k \in 1 .. Len(es) : /\ sh[k].length = es[k].length /\ sh[k].key = es[k].key
                                 /\ sh[k].object_offset = es[k].object_offset
    BY ShiftBatchIs
<1> HIDE DEF sh
<1>2. \A k \in 1 .. Len(es) : es[k] \in Extent
    OBVIOUS
<1>3. \A k \in 1 .. Len(es) : Part(sh[k], es[k])
    BY <1>1, <1>2 DEF Part, Extent
<1>4. PartsOf(Members(sh), Members(es))
    BY <1>1, <1>3 DEF PartsOf, Members
<1> QED BY <1>4 DEF sh

\* Truncate keeps parts of what was stored.
LEMMA TruncateParts ==
    ASSUME NEW stored \in SUBSET Extent, NEW size \in Nat
    PROVE  PartsOf(TruncateExtents(stored, size), stored)
<1> SUFFICES ASSUME NEW r \in TruncateExtents(stored, size) PROVE \E x \in stored : Part(r, x)
    BY DEF PartsOf
<1>1. r \in Extent
    BY TruncateIs
<1>2. PICK x \in stored : /\ x.offset = r.offset /\ ExtentEnd(r) <= ExtentEnd(x)
                          /\ x.key = r.key /\ x.object_offset = r.object_offset
    BY TruncateIs
<1> QED BY <1>1, <1>2 DEF Part, Extent, ExtentEnd

-----------------------------------------------------------------------------
(***************************************************************************)
(* A step of the metadata by which no extents get into files but parts of  *)
(* those that were there and of those in E.                                *)
(***************************************************************************)
MetaChange(E) ==
    \/ UNCHANGED state
    \/ \E X : NamespaceChange(X)
    \/ \E i : AttrChange(i)
    \/ \E i, size, extents : /\ FileChange(i, size, extents)
                             /\ PartsOf(extents, layouts[i].extents \cup E)

\* The calls that name entries.
LEMMA NamespaceCall ==
    ASSUME MetaInv, NamespaceStep
    PROVE  MetaInv' /\ MetaChange({})
BY NamespaceInv, NamespaceEffect DEF MetaChange

\* setattr.
LEMMA SetAttrCall ==
    ASSUME MetaInv, NEW i, NEW m \in Modes, SetAttr(i, m)
    PROVE  MetaInv' /\ MetaChange({})
<1>1. MetaInv'
    <2>1. CASE Reject("NotFound")
        BY <2>1, NoEffectStep DEF Reject, Kinds
    <2>2. CASE ~Reject("NotFound")
        BY <2>2, SetAttrStep DEF SetAttr
    <2> QED BY <2>1, <2>2
<1> QED BY <1>1, AttrEffect DEF MetaChange

\* truncate.
LEMMA TruncateCall ==
    ASSUME MetaInv, NEW i, NEW size \in Nat, Truncate(i, size)
    PROVE  MetaInv' /\ MetaChange({})
<1>1. MetaInv'
    <2>1. CASE Reject(FileError(i))
        BY <2>1, NoEffectStep, ErrorKinds DEF Reject
    <2>2. CASE ~Reject(FileError(i))
        BY <2>2, TruncateStep DEF Truncate
    <2> QED BY <2>1, <2>2
<1>2. ASSUME TruncateChange(i, size) PROVE MetaChange({})
    <2>1. i \in DOMAIN layouts /\ FileChange(i, size, TruncateExtents(layouts[i].extents, size))
        BY <1>2 DEF TruncateChange, FileChange
    <2>2. layouts[i].extents \in SUBSET Extent
        BY <2>1 DEF MetaInv, TypeI, LayoutI
    <2>3. PartsOf(TruncateExtents(layouts[i].extents, size), layouts[i].extents \cup {})
        BY <2>2, TruncateParts DEF PartsOf
    <2> QED BY <2>1, <2>3 DEF MetaChange
<1> QED BY <1>1, <1>2, TruncateEffect DEF MetaChange

\* commit_write and append_write of a batch as PulpfsWrite makes them.
LEMMA WriteCall ==
    ASSUME MetaInv, NEW i, NEW es, GoodBatch(es), CommitWrite(i, es) \/ AppendWrite(i, es)
    PROVE  MetaInv' /\ MetaChange(Members(es))
<1>0. es \in Seq(Extent) /\ \A k \in 1 .. Len(es) : ValidExtent(es[k])
    BY DEF GoodBatch
<1>1. MetaInv'
    <2>1. CASE Reject(FileError(i))
        BY <2>1, NoEffectStep, ErrorKinds DEF Reject
    <2>2. CASE ~Reject(FileError(i))
        BY <1>0, <2>2, WriteStep DEF CommitWrite, AppendWrite
    <2> QED BY <2>1, <2>2
<1> DEFINE stored == layouts[i].extents
<1>2. ASSUME CommitChange(i, es) PROVE MetaChange(Members(es))
    <2> DEFINE size == LargerOf(inodes[i].size, BatchEnd(es))
    <2>1. i \in DOMAIN layouts /\ FileChange(i, size, MergeFirst(stored, es, Len(es)))
        BY <1>2 DEF CommitChange, FileChange
    <2>2. stored \in SUBSET Extent
        BY <2>1 DEF MetaInv, TypeI, LayoutI
    <2>3. Len(es) \in 0 .. Len(es)
        BY <1>0
    <2>4. PartsOf(MergeFirst(stored, es, Len(es)), stored \cup Members(es))
        BY <1>0, <2>2, <2>3, MergeFirstParts
    <2> HIDE DEF size
    <2> QED BY <2>1, <2>4 DEF MetaChange
<1>3. ASSUME AppendChange(i, es) PROVE MetaChange(Members(es))
    <2> DEFINE size == inodes[i].size + BatchEnd(es)
               sh == ShiftBatch(es, inodes[i].size)
    <2>1. /\ i \in DOMAIN layouts /\ i \in DOMAIN inodes
          /\ FileChange(i, size, MergeFirst(stored, sh, Len(es)))
        BY <1>3 DEF AppendChange, FileChange
    <2>2. stored \in SUBSET Extent /\ inodes[i].size \in Nat
        BY <2>1 DEF MetaInv, TypeI, LayoutI, AttrsI
    <2>3. sh \in Seq(Extent) /\ Len(sh) = Len(es) /\ Len(es) \in 0 .. Len(sh)
        BY <1>0, <2>2, ShiftBatchIs
    <2>4. PartsOf(Members(sh), Members(es))
        BY <1>0, <2>2, ShiftParts
    <2> HIDE DEF size, sh, stored
    <2>5. PartsOf(MergeFirst(stored, sh, Len(es)), stored \cup Members(sh))
        BY <2>2, <2>3, MergeFirstParts
    <2>6. MergeFirst(stored, sh, Len(es)) \in SUBSET Extent
        BY <2>2, <2>3, MergeFirstSafe
    <2>7. Members(sh) \subseteq Extent /\ Members(es) \subseteq Extent
        BY <1>0, <2>3 DEF Members
    <2>8. PartsOf(MergeFirst(stored, sh, Len(es)), stored \cup Members(es))
        <3> SUFFICES ASSUME NEW r \in MergeFirst(stored, sh, Len(es))
                     PROVE  \E x \in stored \cup Members(es) : Part(r, x)
            BY DEF PartsOf
        <3>1. PICK y \in stored \cup Members(sh) : Part(r, y)
            BY <2>5 DEF PartsOf
        <3>2. CASE y \in stored
            BY <3>1, <3>2
        <3>3. CASE y \in Members(sh)
            <4>1. PICK x \in Members(es) : Part(y, x)
                BY <2>4, <3>3 DEF PartsOf
            <4> QED BY <2>6, <2>7, <3>1, <3>3, <4>1, PartOfPart
        <3> QED BY <3>2, <3>3
    <2> QED BY <2>1, <2>8 DEF MetaChange, stored
<1> QED BY <1>0, <1>1, <1>2, <1>3, WriteEffect DEF MetaChange

\* A command that a mount sends, whenever it is applied.
LEMMA CommandCall ==
    ASSUME MetaInv, NEW c, GoodCommand(c), ApplyCommand(c)
    PROVE  MetaInv' /\ MetaChange(CommandExtents(c))
<1>1. CASE c.op = "truncate" /\ c.size \in Nat
    <2>1. Truncate(c.inode_id, c.size) /\ CommandExtents(c) = {}
        BY <1>1 DEF ApplyCommand, CommandExtents
    <2> QED BY <1>1, <2>1, TruncateCall
<1>2. CASE c.op \in {"commit_write", "append_write"} /\ GoodBatch(c.extents)
    <2>1. CommitWrite(c.inode_id, c.extents) \/ AppendWrite(c.inode_id, c.extents)
        BY <1>2 DEF ApplyCommand
    <2>2. CommandExtents(c) = Members(c.extents)
        BY <1>2 DEF CommandExtents, Members
    <2> QED BY <1>2, <2>1, <2>2, WriteCall
<1> QED BY <1>1, <1>2 DEF GoodCommand

\* The extents of all files.
StoredExtents == UNION {layouts[i].extents : i \in DOMAIN layouts}

\* What such a step does to inodes, versions and extents.
LEMMA MetaChangeIs ==
    ASSUME MetaInv, MetaInv', NEW E, MetaChange(E)
    PROVE  /\ next_inode_id \in Nat /\ next_inode_id' \in Nat /\ next_inode_id <= next_inode_id'
           /\ \A j \in DOMAIN inodes' : j \in Nat /\ (j < next_inode_id => j \in DOMAIN inodes)
           /\ \A j \in DOMAIN inodes \cap DOMAIN inodes' :
                  /\ inodes[j].version \in Nat /\ inodes'[j].version \in Nat
                  /\ inodes[j].version <= inodes'[j].version
                  /\ inodes[j].version = inodes'[j].version /\ j \in DOMAIN layouts =>
                         j \in DOMAIN layouts' /\ layouts'[j].extents = layouts[j].extents
           /\ \A j \in DOMAIN layouts' :
                  PartsOf(layouts'[j].extents, StoredExtents \cup E)
<1>0. \/ UNCHANGED state
      \/ \E X : NamespaceChange(X)
      \/ \E i : AttrChange(i)
      \/ \E i, size, extents : FileChange(i, size, extents)
    BY DEF MetaChange
<1>1. next_inode_id \in Nat /\ next_inode_id' \in Nat /\ DOMAIN inodes' \subseteq Nat
    BY DEF MetaInv, TypeI
<1>2. /\ next_inode_id' \in {next_inode_id, next_inode_id + 1}
      /\ \A j \in DOMAIN inodes' : j \in DOMAIN inodes \/ j = next_inode_id
    BY <1>0, FileChangeIs DEF state, NamespaceChange, IdsInOrder, AttrChange, Aged, FileChange
<1>3. ASSUME NEW j \in DOMAIN inodes \cap DOMAIN inodes'
      PROVE  /\ inodes[j].version \in Nat /\ inodes'[j].version \in Nat
             /\ inodes[j].version <= inodes'[j].version
             /\ inodes[j].version = inodes'[j].version /\ j \in DOMAIN layouts =>
                    j \in DOMAIN layouts' /\ layouts'[j].extents = layouts[j].extents
    <2>1. VersionTells(j)
        BY <1>0, ChangeTells
    <2>2. inodes[j].version \in Nat /\ inodes'[j].version \in Nat
        BY DEF MetaInv, TypeI, AttrsI
    <2>3. CASE inodes'[j] = inodes[j] /\ Contents(j)' = Contents(j)
        <3>1. j \in DOMAIN layouts => j \in DOMAIN layouts'
            BY <2>3 DEF MetaInv, LayoutsInSync, IsFile
        <3>2. j \in DOMAIN layouts => layouts'[j].extents = layouts[j].extents
            BY <2>3, <3>1, ContentsIs
        <3> QED BY <2>2, <2>3, <3>1, <3>2
    <2>4. CASE inodes'[j].version > inodes[j].version
        BY <2>2, <2>4
    <2> QED BY <2>1, <2>3, <2>4 DEF VersionTells
<1>4. ASSUME NEW j \in DOMAIN layouts'
      PROVE  PartsOf(layouts'[j].extents, StoredExtents \cup E)
    <2> DEFINE all == StoredExtents \cup E
    <2>0. layouts'[j].extents \in SUBSET Extent
        BY DEF MetaInv, TypeI, LayoutI
    <2>1. E \subseteq all /\ \A i \in DOMAIN layouts : layouts[i].extents \subseteq all
        BY DEF StoredExtents
    <2> HIDE DEF all
    <2>2. ASSUME j \in DOMAIN layouts, layouts'[j].extents = layouts[j].extents
          PROVE  PartsOf(layouts'[j].extents, all)
        BY <2>0, <2>1, <2>2, PartsOfItself
    <2>3. ASSUME layouts'[j].extents = {} PROVE PartsOf(layouts'[j].extents, all)
        BY <2>3 DEF PartsOf
    <2>4. ASSUME NEW i, NEW size, NEW extents, FileChange(i, size, extents),
                 PartsOf(extents, layouts[i].extents \cup E)
          PROVE  PartsOf(layouts'[j].extents, all)
        <3>1. /\ DOMAIN layouts' = DOMAIN layouts /\ i \in DOMAIN layouts
              /\ layouts'[i].extents = extents
              /\ \A l \in DOMAIN layouts : l # i => layouts'[l] = layouts[l]
            BY <2>4, FileChangeIs
        <3>2. CASE j # i
            BY <2>2, <3>1, <3>2
        <3>3. CASE j = i
            <4>1. layouts[i].extents \subseteq all /\ E \subseteq all
                BY <2>1, <3>1
            <4> QED BY <2>4, <3>1, <3>3, <4>1 DEF PartsOf
        <3> QED BY <3>2, <3>3
    <2>5. ASSUME UNCHANGED state PROVE PartsOf(layouts'[j].extents, all)
        BY <2>2, <2>5 DEF state
    <2>6. ASSUME NEW X, NamespaceChange(X) PROVE PartsOf(layouts'[j].extents, all)
        BY <2>2, <2>3, <2>6 DEF NamespaceChange, FileComes, FileGoes
    <2>7. ASSUME NEW i, AttrChange(i) PROVE PartsOf(layouts'[j].extents, all)
        BY <2>2, <2>7 DEF AttrChange
    <2> QED BY <2>4, <2>5, <2>6, <2>7 DEF MetaChange, all
<1>5. /\ next_inode_id <= next_inode_id'
      /\ \A j \in DOMAIN inodes' : j \in Nat /\ (j < next_inode_id => j \in DOMAIN inodes)
    BY <1>1, <1>2
<1> QED BY <1>1, <1>3, <1>4, <1>5

-----------------------------------------------------------------------------
(***************************************************************************)
(* The handle table.                                                       *)
(***************************************************************************)
\* What WantedExtents is made of.
LEMMA WantedIs ==
    /\ \A e : e \in WantedExtents <=>
          \/ e \in StoredExtents
          \/ \E m \in Mounts : \E fh \in DOMAIN handles[m] : e \in Pending(handles[m][fh])
          \/ \E l \in late : e \in CommandExtents(l.command)
    /\ \A e : e \in WantedExtents' <=>
          \/ e \in StoredExtents'
          \/ \E m \in Mounts : \E fh \in DOMAIN handles'[m] : e \in Pending(handles'[m][fh])
          \/ \E l \in late' : e \in CommandExtents(l.command)
BY DEF WantedExtents, StoredExtents

\* GetLayout of a file is a layout, with the attributes of the inode.
LEMMA GetLayoutIs ==
    ASSUME MetaInv, NEW i, FileError(i) = "Ok"
    PROVE  /\ i \in DOMAIN inodes /\ i \in DOMAIN layouts
           /\ GetLayout(i) \in LayoutI /\ GetLayout(i).attrs = inodes[i]
           /\ GetLayout(i).extents = layouts[i].extents
<1>1. i \in DOMAIN inodes /\ i \in DOMAIN layouts
    BY FileOk
<1>2. layouts[i] \in LayoutI /\ inodes[i] \in AttrsI
    BY <1>1 DEF MetaInv, TypeI
<1> QED BY <1>1, <1>2 DEF GetLayout, LayoutI

\* A handle that create or open makes.
LEMMA NewHandleOK ==
    ASSUME MetaInv, NEW i \in Nat, i < next_inode_id, NEW flags \in Flags, NEW layout,
           layout = EmptyLayout \/ (FileError(i) = "Ok" /\ layout = GetLayout(i))
    PROVE  /\ HandleOK(NewHandle(i, flags, layout), inodes, layouts, next_inode_id)
           /\ Pending(NewHandle(i, flags, layout)) = {}
<1> DEFINE h == NewHandle(i, flags, layout)
<1>1. /\ h.inode_id = i /\ h.layout = layout /\ h.pending_extents = <<>>
      /\ h.pending_append_extents = <<>>
    BY DEF NewHandle
<1>2. /\ layout \in LayoutI
      /\ i \in DOMAIN inodes => layout.attrs.version <= inodes[i].version
      /\ \A e \in layout.extents : i \in DOMAIN layouts /\ e \in layouts[i].extents
    <2>0. i \in DOMAIN inodes => inodes[i].version \in Nat
        BY DEF MetaInv, TypeI, AttrsI
    <2>1. CASE layout = EmptyLayout
        <3>1. layout \in LayoutI
            BY <2>1, MetaStateAssumption DEF EmptyLayout, NewAttrs, LayoutI, AttrsI
        <3>2. layout.attrs.version = 0 /\ layout.extents = {}
            BY <2>1 DEF EmptyLayout, NewAttrs
        <3> QED BY <2>0, <3>1, <3>2
    <2>2. CASE FileError(i) = "Ok" /\ layout = GetLayout(i)
        BY <2>0, <2>2, GetLayoutIs
    <2> QED BY <2>1, <2>2
<1>3. flags.writable \in BOOLEAN /\ flags.append \in AppendFlags
    BY FuseAssumption DEF AppendFlags
<1>4. h \in Handle
    BY <1>2, <1>3 DEF NewHandle, Handle
<1>5. GoodBatch(<<>>)
    BY DEF GoodBatch
<1> HIDE DEF h
<1>6. HandleOK(h, inodes, layouts, next_inode_id)
    BY <1>1, <1>2, <1>4, <1>5 DEF HandleOK, LayoutCurrent
<1>7. Pending(h) = {}
    BY <1>1 DEF Pending
<1> QED BY <1>6, <1>7 DEF h

\* A handle whose layout is fetched anew.
LEMMA ReloadedOK ==
    ASSUME MetaInv, NEW h, HandleOK(h, inodes, layouts, next_inode_id), FileError(h.inode_id) = "Ok",
           NEW g, g = [h EXCEPT !.layout = GetLayout(h.inode_id)]
    PROVE  HandleOK(g, inodes, layouts, next_inode_id) /\ Pending(g) = Pending(h)
<1> DEFINE i == h.inode_id
<1>1. /\ i \in DOMAIN inodes /\ i \in DOMAIN layouts /\ GetLayout(i) \in LayoutI
      /\ GetLayout(i).attrs = inodes[i] /\ GetLayout(i).extents = layouts[i].extents
    BY GetLayoutIs
<1>2. h \in Handle
    BY DEF HandleOK
<1>3. /\ g \in Handle /\ g.inode_id = i /\ g.layout = GetLayout(i) /\ g.append = h.append
      /\ g.pending_extents = h.pending_extents
      /\ g.pending_append_extents = h.pending_append_extents
    BY <1>1, <1>2 DEF Handle
<1>4. inodes[i].version \in Nat
    BY <1>1 DEF MetaInv, TypeI, AttrsI
<1>5. LayoutCurrent(g, inodes, layouts, next_inode_id)
    BY <1>1, <1>3, <1>4 DEF HandleOK, LayoutCurrent
<1> QED BY <1>3, <1>5 DEF HandleOK, Pending

\* A handle whose writes were committed.
LEMMA CommittedOK ==
    ASSUME NEW h, NEW ino, NEW lay, NEW next, HandleOK(h, ino, lay, next)
    PROVE  HandleOK(Committed(h), ino, lay, next) /\ Pending(Committed(h)) = {}
<1> DEFINE g == Committed(h)
<1>1. h \in Handle
    BY DEF HandleOK
<1>2. /\ g \in Handle /\ g.inode_id = h.inode_id /\ g.layout = h.layout /\ g.append = h.append
      /\ g.pending_extents = <<>> /\ g.pending_append_extents = <<>>
    <2>1. <<>> \in Seq(Extent) /\ 0 \in Nat
        OBVIOUS
    <2>2. g = [inode_id |-> h.inode_id, writable |-> h.writable, append |-> h.append,
               layout |-> h.layout, pending_extents |-> <<>>,
               pending_append_extents |-> <<>>, pending_append_length |-> 0]
        <3> DEFINE none == <<>>
        <3>1. g = [h EXCEPT !.pending_extents = none, !.pending_append_extents = none,
                            !.pending_append_length = 0]
            BY DEF Committed
        <3> HIDE DEF none, g
        <3>2. g = [inode_id |-> h.inode_id, writable |-> h.writable, append |-> h.append,
                   layout |-> h.layout, pending_extents |-> none,
                   pending_append_extents |-> none, pending_append_length |-> 0]
            BY <1>1, <3>1 DEF Handle
        <3> QED BY <3>2 DEF none
    <2>3. /\ h.inode_id \in Nat /\ h.writable \in BOOLEAN /\ h.append \in AppendFlags
          /\ h.layout \in LayoutI
        BY <1>1 DEF Handle
    <2>4. g \in Handle
        BY <2>1, <2>2, <2>3 DEF Handle
    <2> HIDE DEF g
    <2> QED BY <2>2, <2>4
<1> HIDE DEF g
<1>3. GoodBatch(<<>>)
    BY DEF GoodBatch
<1>4. HandleOK(g, ino, lay, next)
    BY <1>2, <1>3 DEF HandleOK, LayoutCurrent
<1>5. Pending(g) = {}
    BY <1>2 DEF Pending
<1> QED BY <1>4, <1>5 DEF g

\* A well-formed batch with another extent behind it.
LEMMA LongerBatch ==
    ASSUME NEW es, GoodBatch(es), NEW e \in Extent, ValidExtent(e)
    PROVE  GoodBatch(Append(es, e)) /\ Members(Append(es, e)) = Members(es) \cup {e}
<1>1. /\ es \in Seq(Extent) /\ Append(es, e) \in Seq(Extent)
      /\ Len(Append(es, e)) = Len(es) + 1 /\ Append(es, e)[Len(es) + 1] = e
      /\ \A k \in 1 .. Len(es) : Append(es, e)[k] = es[k]
    BY DEF GoodBatch
<1>2. Len(es) \in Nat
    BY <1>1
<1>3. \A k \in 1 .. Len(Append(es, e)) : ValidExtent(Append(es, e)[k])
    BY <1>1, <1>2 DEF GoodBatch
<1>4. Members(Append(es, e)) = Members(es) \cup {e}
    <2> DEFINE app == Append(es, e)
    <2>1. ASSUME NEW x \in Members(app) PROVE x \in Members(es) \cup {e}
        BY <1>1, <1>2, <2>1 DEF Members
    <2>2. ASSUME NEW x \in Members(es) \cup {e} PROVE x \in Members(app)
        <3>1. CASE x = e
            <4>1. Len(es) + 1 \in 1 .. Len(app)
                BY <1>1, <1>2
            <4> QED BY <1>1, <3>1, <4>1 DEF Members
        <3>2. CASE x \in Members(es)
            <4>1. PICK k \in 1 .. Len(es) : x = es[k]
                BY <3>2 DEF Members
            <4>2. k \in 1 .. Len(app) /\ app[k] = x
                BY <1>1, <1>2, <4>1
            <4> QED BY <4>2 DEF Members
        <3> QED BY <2>2, <3>1, <3>2
    <2> QED BY <2>1, <2>2
<1> QED BY <1>1, <1>3, <1>4 DEF GoodBatch

\* A handle after a write, whether the put worked or not.
LEMMA WrittenOK ==
    ASSUME NEW h, NEW ino, NEW lay, NEW next, HandleOK(h, ino, lay, next),
           NEW e \in Extent, ValidExtent(e), NEW ok \in BOOLEAN
    PROVE  /\ HandleOK(AfterPut(h, e, ok), ino, lay, next)
           /\ Pending(AfterPut(h, e, ok)) = IF ok THEN Pending(h) \cup {e} ELSE Pending(h)
<1> DEFINE g == WithPending(h, e)
<1>0. h \in Handle /\ e.length \in Nat
    BY DEF HandleOK, Extent
<1>1. CASE h.append
    <2>1. /\ g \in Handle /\ g.inode_id = h.inode_id /\ g.layout = h.layout /\ g.append = h.append
          /\ g.pending_extents = h.pending_extents
          /\ g.pending_append_extents = Append(h.pending_append_extents, e)
        <3>1. /\ h.inode_id \in Nat /\ h.writable \in BOOLEAN /\ h.append \in AppendFlags
              /\ h.layout \in LayoutI /\ h.pending_extents \in Seq(Extent)
              /\ h.pending_append_extents \in Seq(Extent) /\ h.pending_append_length \in Nat
            BY <1>0 DEF Handle
        <3>2. g = [inode_id |-> h.inode_id, writable |-> h.writable, append |-> h.append,
                   layout |-> h.layout, pending_extents |-> h.pending_extents,
                   pending_append_extents |-> Append(h.pending_append_extents, e),
                   pending_append_length |-> h.pending_append_length + e.length]
            BY <1>0, <1>1 DEF WithPending, Handle
        <3>3. /\ Append(h.pending_append_extents, e) \in Seq(Extent)
              /\ h.pending_append_length + e.length \in Nat
            BY <1>0, <3>1
        <3>4. g \in Handle
            BY <3>1, <3>2, <3>3 DEF Handle
        <3> HIDE DEF g
        <3> QED BY <3>2, <3>4
    <2> HIDE DEF g
    <2>2. /\ GoodBatch(g.pending_append_extents)
          /\ Members(g.pending_append_extents) = Members(h.pending_append_extents) \cup {e}
        BY <2>1, LongerBatch DEF HandleOK
    <2>3. HandleOK(g, ino, lay, next)
        BY <1>1, <2>1, <2>2 DEF HandleOK, LayoutCurrent
    <2>4. Pending(g) = Pending(h) \cup {e}
        BY <2>1, <2>2 DEF Pending, Members
    <2> QED BY <2>3, <2>4 DEF AfterPut, g
<1>2. CASE ~h.append
    <2>1. /\ g \in Handle /\ g.inode_id = h.inode_id /\ g.layout = h.layout /\ g.append = h.append
          /\ g.pending_append_extents = h.pending_append_extents
          /\ g.pending_extents = Append(h.pending_extents, e)
        <3>1. /\ h.inode_id \in Nat /\ h.writable \in BOOLEAN /\ h.append \in AppendFlags
              /\ h.layout \in LayoutI /\ h.pending_extents \in Seq(Extent)
              /\ h.pending_append_extents \in Seq(Extent) /\ h.pending_append_length \in Nat
            BY <1>0 DEF Handle
        <3>2. g = [inode_id |-> h.inode_id, writable |-> h.writable, append |-> h.append,
                   layout |-> h.layout, pending_extents |-> Append(h.pending_extents, e),
                   pending_append_extents |-> h.pending_append_extents,
                   pending_append_length |-> h.pending_append_length]
            BY <1>0, <1>2 DEF WithPending, Handle
        <3>3. Append(h.pending_extents, e) \in Seq(Extent)
            BY <3>1
        <3>4. g \in Handle
            BY <3>1, <3>2, <3>3 DEF Handle
        <3> HIDE DEF g
        <3> QED BY <3>2, <3>4
    <2> HIDE DEF g
    <2>2. /\ GoodBatch(g.pending_extents)
          /\ Members(g.pending_extents) = Members(h.pending_extents) \cup {e}
        BY <2>1, LongerBatch DEF HandleOK
    <2>3. HandleOK(g, ino, lay, next)
        BY <1>2, <2>1, <2>2 DEF HandleOK, LayoutCurrent
    <2>4. Pending(g) = Pending(h) \cup {e}
        BY <2>1, <2>2 DEF Pending, Members
    <2> QED BY <2>3, <2>4 DEF AfterPut, g
<1> QED BY <1>1, <1>2

\* No step of the metadata makes a handle wrong.
LEMMA HandleKept ==
    ASSUME MetaInv, MetaInv', NEW E, MetaChange(E),
           NEW h, HandleOK(h, inodes, layouts, next_inode_id)
    PROVE  HandleOK(h, inodes', layouts', next_inode_id')
<1> DEFINE i == h.inode_id
           v == h.layout.attrs.version
<1>1. /\ next_inode_id \in Nat /\ next_inode_id' \in Nat /\ next_inode_id <= next_inode_id'
      /\ \A j \in DOMAIN inodes' : j < next_inode_id => j \in DOMAIN inodes
      /\ \A j \in DOMAIN inodes \cap DOMAIN inodes' :
             /\ inodes[j].version \in Nat /\ inodes'[j].version \in Nat
             /\ inodes[j].version <= inodes'[j].version
             /\ inodes[j].version = inodes'[j].version /\ j \in DOMAIN layouts =>
                    j \in DOMAIN layouts' /\ layouts'[j].extents = layouts[j].extents
    BY MetaChangeIs
<1>2. i \in Nat /\ v \in Nat
    BY DEF HandleOK, Handle, LayoutI, AttrsI
<1>3. /\ i < next_inode_id
      /\ i \in DOMAIN inodes => v <= inodes[i].version
      /\ i \in DOMAIN inodes /\ inodes[i].version = v =>
             \A e \in h.layout.extents : i \in DOMAIN layouts /\ e \in layouts[i].extents
    BY DEF HandleOK, LayoutCurrent
<1> HIDE DEF i, v
<1>4. i < next_inode_id'
    BY <1>1, <1>2, <1>3
<1>5. ASSUME i \in DOMAIN inodes'
      PROVE  /\ v <= inodes'[i].version
             /\ inodes'[i].version = v =>
                    \A e \in h.layout.extents : i \in DOMAIN layouts' /\ e \in layouts'[i].extents
    <2>1. i \in DOMAIN inodes \cap DOMAIN inodes'
        BY <1>1, <1>3, <1>5
    <2>2. v <= inodes[i].version
        BY <1>3, <2>1
    <2>3. /\ inodes[i].version \in Nat /\ inodes'[i].version \in Nat
          /\ inodes[i].version <= inodes'[i].version
        BY <1>1, <2>1
    <2>4. inodes'[i].version = v => inodes[i].version = v
        BY <1>2, <2>2, <2>3
    <2> QED BY <1>1, <1>2, <1>3, <2>1, <2>2, <2>3, <2>4
<1>6. LayoutCurrent(h, inodes', layouts', next_inode_id')
    BY <1>4, <1>5 DEF LayoutCurrent, i, v
<1> QED BY <1>6 DEF HandleOK

-----------------------------------------------------------------------------
(***************************************************************************)
(* One step of the system.                                                 *)
(***************************************************************************)
BackedIn(e, bucket) ==
    e.key \in DOMAIN bucket /\ e.object_offset + e.length <= bucket[e.key].length

\* What a step leaves in the bucket is enough for what was wanted before it.
BucketStep ==
    /\ \A e \in WantedExtents : BackedIn(e, objects')
    /\ \A k \in DOMAIN objects' : KeyUsed(k)' /\ objects'[k].length \in Nat

\* Commands that are still under way bring no extents but wanted ones.
LateStep ==
    \A l \in late' : GoodCommand(l.command) /\ CommandExtents(l.command) \subseteq WantedExtents

\* What mount m has after a step is right for the metadata before it.
MountStep(m) ==
    /\ next_handle_id'[m] \in Nat /\ next_sequence'[m] \in Nat /\ writer'[m] \in Nat
    /\ \A fh \in DOMAIN handles'[m] :
           /\ fh \in Nat /\ fh < next_handle_id'[m]
           /\ HandleOK(handles'[m][fh], inodes, layouts, next_inode_id)
           /\ \A e \in Pending(handles'[m][fh]) : e \in WantedExtents \/ BackedIn(e, objects')
    /\ RequestOK(request'[m], handles'[m], next_inode_id')

Still(k) ==
    /\ handles'[k] = handles[k] /\ next_handle_id'[k] = next_handle_id[k]
    /\ next_sequence'[k] = next_sequence[k] /\ writer'[k] = writer[k]
    /\ request'[k] = request[k]

\* The other mounts do nothing meanwhile.
OthersIdle(m) ==
    /\ DOMAIN handles' = Mounts /\ DOMAIN next_handle_id' = Mounts
    /\ DOMAIN next_sequence' = Mounts /\ DOMAIN writer' = Mounts /\ DOMAIN request' = Mounts
    /\ \A k \in Mounts \ {m} : Still(k)

\* All wanted extents are well-formed.
LEMMA WantedType ==
    ASSUME FuseInv
    PROVE  WantedExtents \subseteq Extent
<1> SUFFICES ASSUME NEW e \in WantedExtents PROVE e \in Extent
    OBVIOUS
<1>1. CASE e \in StoredExtents
    BY <1>1 DEF FuseInv, MetaInv, TypeI, LayoutI, StoredExtents
<1>2. ASSUME NEW m \in Mounts, NEW fh \in DOMAIN handles[m], e \in Pending(handles[m][fh])
      PROVE  e \in Extent
    <2> DEFINE h == handles[m][fh]
    <2>1. GoodBatch(h.pending_extents) /\ GoodBatch(h.pending_append_extents)
        BY DEF FuseInv, MountsOK, MountOK, HandleOK
    <2> HIDE DEF h
    <2>2. e \in Pending(h)
        BY <1>2 DEF h
    <2> QED BY <2>1, <2>2 DEF GoodBatch, Pending
<1>3. ASSUME NEW l \in late, e \in CommandExtents(l.command) PROVE e \in Extent
    <2> DEFINE c == l.command
    <2>1. GoodCommand(c)
        BY DEF FuseInv, LateOK
    <2> HIDE DEF c
    <2>2. e \in CommandExtents(c)
        BY <1>3 DEF c
    <2>3. c.op \in {"commit_write", "append_write"}
        BY <2>2 DEF CommandExtents
    <2>4. GoodBatch(c.extents)
        BY <2>1, <2>3 DEF GoodCommand
    <2> QED BY <2>2, <2>3, <2>4 DEF CommandExtents, GoodBatch
<1> QED BY <1>1, <1>2, <1>3, WantedIs

\* A part of what is backed is backed.
LEMMA PartBacked ==
    ASSUME NEW e \in Extent, NEW x \in Extent, Part(e, x), NEW bucket,
           \A k \in DOMAIN bucket : bucket[k].length \in Nat, BackedIn(x, bucket)
    PROVE  BackedIn(e, bucket)
BY DEF Part, BackedIn, Extent

\* The invariant after a step of mount m.
LEMMA StepOK ==
    ASSUME FuseInv, MetaInv', NEW E, E \subseteq WantedExtents, MetaChange(E),
           BucketStep, LateStep, NEW m, OthersIdle(m), m \in Mounts => MountStep(m) \/ Still(m)
    PROVE  FuseInv'
<1>1. \A k \in Mounts : MountStep(k)
    <2> SUFFICES ASSUME NEW k \in Mounts, Still(k) PROVE MountStep(k)
        BY DEF OthersIdle
    <2>1. MountOK(k)
        BY DEF FuseInv, MountsOK
    <2>2. /\ handles'[k] = handles[k] /\ next_handle_id'[k] = next_handle_id[k]
          /\ next_sequence'[k] = next_sequence[k] /\ writer'[k] = writer[k]
          /\ request'[k] = request[k]
        BY DEF Still
    <2>3. \A fh \in DOMAIN handles[k] : \A e \in Pending(handles[k][fh]) : e \in WantedExtents
        BY WantedIs
    <2>4. next_inode_id \in Nat /\ next_inode_id' \in Nat /\ next_inode_id <= next_inode_id'
        BY MetaChangeIs DEF FuseInv
    <2>5. RequestOK(request[k], handles[k], next_inode_id')
        BY <2>1, <2>4 DEF MountOK, RequestOK, OpenRequest
    <2> QED BY <2>1, <2>2, <2>3, <2>5 DEF MountOK, MountStep
<1>2. MountsOK'
    <2>1. ASSUME NEW k \in Mounts PROVE MountOK(k)'
        <3>1. MountStep(k)
            BY <1>1
        <3>2. ASSUME NEW fh \in DOMAIN handles'[k]
              PROVE  HandleOK(handles'[k][fh], inodes', layouts', next_inode_id')
            <4>1. HandleOK(handles'[k][fh], inodes, layouts, next_inode_id)
                BY <3>1 DEF MountStep
            <4> QED BY <4>1, HandleKept DEF FuseInv
        <3> QED BY <3>1, <3>2 DEF MountStep, MountOK
    <2> QED BY <2>1 DEF OthersIdle, MountsOK
<1>3. LateOK'
    BY DEF LateStep, LateOK
<1>4. BucketOK'
    BY DEF BucketStep, BucketOK
<1>5. LiveExtentsBacked'
    <2>1. ASSUME NEW e \in WantedExtents' PROVE BackedIn(e, objects')
        <3>1. CASE e \in StoredExtents'
            <4>1. PICK j \in DOMAIN layouts' : e \in layouts'[j].extents
                BY <3>1 DEF StoredExtents
            <4>2. e \in Extent
                BY <4>1 DEF MetaInv, TypeI, LayoutI
            <4>3. PICK x \in StoredExtents \cup E : Part(e, x)
                BY <4>1, MetaChangeIs DEF FuseInv, PartsOf
            <4>4. x \in WantedExtents
                BY <4>3, WantedIs
            <4>5. x \in Extent /\ BackedIn(x, objects')
                BY <4>4, WantedType DEF BucketStep
            <4>6. \A k \in DOMAIN objects' : objects'[k].length \in Nat
                BY DEF BucketStep
            <4> QED BY <4>2, <4>3, <4>5, <4>6, PartBacked
        <3>2. ASSUME NEW k \in Mounts, NEW fh \in DOMAIN handles'[k],
                     e \in Pending(handles'[k][fh])
              PROVE  BackedIn(e, objects')
            BY <1>1, <3>2 DEF MountStep, BucketStep
        <3>3. ASSUME NEW l \in late', e \in CommandExtents(l.command)
              PROVE  BackedIn(e, objects')
            BY <3>3 DEF LateStep, BucketStep
        <3> QED BY <3>1, <3>2, <3>3, WantedIs
    <2> QED BY <2>1 DEF LiveExtentsBacked, Backed, BackedIn
<1> QED BY <1>2, <1>3, <1>4, <1>5 DEF FuseInv

\* The counters of the mounts do not go back.
CountersGrow ==
    \A k \in Mounts :
        /\ next_sequence'[k] \in Nat /\ writer'[k] \in Nat
        /\ \/ writer[k] < writer'[k]
           \/ writer'[k] = writer[k] /\ next_sequence[k] <= next_sequence'[k]

\* A key that was used stays used.
LEMMA KeyStaysUsed ==
    ASSUME FuseInv, CountersGrow, NEW k, KeyUsed(k)
    PROVE  KeyUsed(k)'
<1>1. k[2] \in Mounts /\ k[3] \in Nat /\ k[4] \in Nat
    BY DEF KeyUsed
<1> DEFINE w == writer[k[2]]
           s == next_sequence[k[2]]
           v == writer'[k[2]]
           t == next_sequence'[k[2]]
<1>2. w \in Nat /\ s \in Nat
    BY <1>1 DEF FuseInv, MountsOK, MountOK
<1>3. v \in Nat /\ t \in Nat /\ (w < v \/ (v = w /\ s <= t))
    BY <1>1 DEF CountersGrow
<1>4. k[3] < w \/ (k[3] = w /\ k[4] < s)
    BY DEF KeyUsed
<1> HIDE DEF w, s, v, t
<1>5. k[3] < v \/ (k[3] = v /\ k[4] < t)
    BY <1>1, <1>2, <1>3, <1>4
<1> QED BY <1>5 DEF KeyUsed, v, t

\* Steps that put and delete no object and let no counter go back.
LEMMA BucketKept ==
    ASSUME FuseInv, objects' = objects, CountersGrow
    PROVE  BucketStep
<1>1. \A e \in WantedExtents : BackedIn(e, objects')
    BY DEF FuseInv, LiveExtentsBacked, Backed, BackedIn
<1> QED BY <1>1, KeyStaysUsed DEF BucketStep, FuseInv, BucketOK

\* No new command is under way.
LEMMA LateKept ==
    ASSUME FuseInv, late' \subseteq late
    PROVE  LateStep
BY WantedIs DEF FuseInv, LateOK, LateStep

\* A call failed, and its command may still be under way.
LEMMA LateAdded ==
    ASSUME FuseInv, NEW c, RpcFails(c), GoodCommand(c), CommandExtents(c) \subseteq WantedExtents
    PROVE  LateStep
<1>1. late' = late \/ late' = late \cup {[id |-> failures, command |-> c]}
    BY DEF RpcFails
<1>2. \A l \in late : GoodCommand(l.command) /\ CommandExtents(l.command) \subseteq WantedExtents
    BY WantedIs DEF FuseInv, LateOK
<1> QED BY <1>1, <1>2 DEF LateStep

\* A handle table that a step may leave behind.
TableOK(table, bound) ==
    /\ bound \in Nat
    /\ \A fh \in DOMAIN table :
           /\ fh \in Nat /\ fh < bound
           /\ HandleOK(table[fh], inodes, layouts, next_inode_id)
           /\ Pending(table[fh]) \subseteq WantedExtents

\* The one that is there.
LEMMA TableNow ==
    ASSUME FuseInv, NEW m \in Mounts
    PROVE  TableOK(handles[m], next_handle_id[m])
<1>1. MountOK(m)
    BY DEF FuseInv, MountsOK
<1>2. \A fh \in DOMAIN handles[m] : Pending(handles[m][fh]) \subseteq WantedExtents
    BY WantedIs
<1> QED BY <1>1, <1>2 DEF MountOK, TableOK

\* A step of mount m that may change its table and what it is in the middle of.
LEMMA TableStep ==
    ASSUME FuseInv, MetaInv', NEW E, E \subseteq WantedExtents, MetaChange(E), LateStep,
           NEW m \in Mounts, OthersIdle(m), next_sequence' = next_sequence, writer' = writer,
           objects' = objects, TableOK(handles'[m], next_handle_id'[m]),
           RequestOK(request'[m], handles'[m], next_inode_id')
    PROVE  FuseInv'
<1>1. \A k \in Mounts : next_sequence[k] \in Nat /\ writer[k] \in Nat
    BY DEF FuseInv, MountsOK, MountOK
<1>2. BucketStep
    <2>1. CountersGrow
        BY <1>1 DEF CountersGrow
    <2> QED BY <2>1, BucketKept
<1>3. MountStep(m)
    BY <1>1 DEF MountStep, TableOK
<1> QED BY <1>2, <1>3, StepOK

\* A step that leaves all tables alone.
LEMMA QuietStep ==
    ASSUME FuseInv, MetaInv', NEW E, E \subseteq WantedExtents, MetaChange(E), LateStep,
           UNCHANGED <<handles, next_handle_id, next_sequence, writer, objects>>, NEW m,
           \/ request' = request
           \/ \E r : /\ m \in Mounts /\ request' = [request EXCEPT ![m] = r]
                     /\ RequestOK(r, handles[m], next_inode_id')
    PROVE  FuseInv'
<1>1. OthersIdle(m)
    BY DEF FuseInv, MountsOK, OthersIdle, Still
<1>2. CASE m \in Mounts
    <2>1. TableOK(handles'[m], next_handle_id'[m])
        BY <1>2, TableNow
    <2>2. RequestOK(request[m], handles[m], next_inode_id')
        <3>1. next_inode_id \in Nat /\ next_inode_id' \in Nat /\ next_inode_id <= next_inode_id'
            BY MetaChangeIs DEF FuseInv
        <3>2. RequestOK(request[m], handles[m], next_inode_id)
            BY <1>2 DEF FuseInv, MountsOK, MountOK
        <3> QED BY <3>1, <3>2 DEF RequestOK, OpenRequest
    <2>3. RequestOK(request'[m], handles'[m], next_inode_id')
        BY <1>2, <2>2 DEF FuseInv, MountsOK
    <2> QED BY <1>1, <1>2, <2>1, <2>3, TableStep
<1>3. CASE m \notin Mounts
    <2>1. BucketStep
        <3>1. \A k \in Mounts : next_sequence[k] \in Nat /\ writer[k] \in Nat
            BY DEF FuseInv, MountsOK, MountOK
        <3>2. CountersGrow
            BY <3>1 DEF CountersGrow
        <3> QED BY <3>2, BucketKept
    <2> QED BY <1>1, <1>3, <2>1, StepOK
<1> QED BY <1>2, <1>3

\* A step that leaves the metadata alone.
LEMMA MetaKept ==
    ASSUME FuseInv, UNCHANGED vars
    PROVE  /\ MetaInv' /\ MetaChange({}) /\ UNCHANGED <<inodes, layouts, next_inode_id>>
           /\ \A i : FileError(i)' = FileError(i) /\ GetLayout(i)' = GetLayout(i)
<1>1. /\ inodes' = inodes /\ dentries' = dentries /\ layouts' = layouts
      /\ next_inode_id' = next_inode_id /\ result' = result
    BY DEF vars
<1>2. MetaInv'
    BY <1>1, NoEffectStep DEF FuseInv, state, MetaInv, TypeI
<1>3. MetaChange({})
    BY <1>1 DEF MetaChange, state
<1> QED BY <1>1, <1>2, <1>3 DEF FileError, IsFile, GetLayout

\* create, up to the reply of CreateFile.
LEMMA CreateCallStep ==
    ASSUME FuseInv, NEW m \in Mounts, NEW p \in InodeIds, NEW n \in AnyName, NEW flags \in Flags,
           PulpfsCreate(m, p, n, flags)
    PROVE  FuseInv'
<1>1. PICK mode \in Modes : CreateFile(p, n, mode)
    BY DEF PulpfsCreate
<1>2. MetaInv' /\ MetaChange({})
    <2>1. NamespaceStep
        BY <1>1 DEF NamespaceStep
    <2> QED BY <2>1, NamespaceCall DEF FuseInv
<1>3. LateStep
    BY LateKept DEF PulpfsCreate, NoCallFails, CallFails
<1>4. next_inode_id \in Nat
    BY DEF FuseInv, MetaInv, TypeI
<1>5. result' = "Ok" => next_inode_id' = next_inode_id + 1
    BY <1>1 DEF CreateFile, CreateNode, Reject
<1>6. result' = "Ok" =>
          RequestOK([at |-> "created", flags |-> flags, inode_id |-> next_inode_id],
                    handles[m], next_inode_id')
    BY <1>4, <1>5 DEF RequestOK, OpenRequest
<1>7. UNCHANGED <<handles, next_handle_id, next_sequence, writer, objects>>
    BY DEF PulpfsCreate
<1>8. \/ request' = request
      \/ \E r : /\ m \in Mounts /\ request' = [request EXCEPT ![m] = r]
                /\ RequestOK(r, handles[m], next_inode_id')
    BY <1>6 DEF PulpfsCreate
<1> QED BY <1>2, <1>3, <1>7, <1>8, QuietStep

\* A new handle is put into the table, after the last RPC of create or open.
LEMMA AllocateStep ==
    ASSUME FuseInv, UNCHANGED vars, LateStep, NEW m \in Mounts, NEW i \in Nat, i < next_inode_id,
           NEW flags \in Flags, NEW layout,
           layout = EmptyLayout \/ (FileError(i) = "Ok" /\ layout = GetLayout(i)),
           AllocateFileHandle(m, NewHandle(i, flags, layout)),
           (request' = request /\ request[m] = Idle) \/ request' = [request EXCEPT ![m] = Idle],
           UNCHANGED <<next_sequence, writer, objects>>
    PROVE  FuseInv'
<1> DEFINE h == NewHandle(i, flags, layout)
           id == next_handle_id[m]
<1>1. HandleOK(h, inodes, layouts, next_inode_id) /\ Pending(h) = {}
    BY NewHandleOK DEF FuseInv
<1>2. TableOK(handles[m], id)
    BY TableNow
<1>3. DOMAIN handles = Mounts /\ DOMAIN next_handle_id = Mounts /\ DOMAIN request = Mounts
    BY DEF FuseInv, MountsOK
<1>4. /\ handles' = [handles EXCEPT ![m] = Emplace(handles[m], id, h)]
      /\ next_handle_id' = [next_handle_id EXCEPT ![m] = id + 1]
    BY DEF AllocateFileHandle
<1> HIDE DEF h
<1>5. OthersIdle(m)
    BY <1>3, <1>4 DEF OthersIdle, Still, FuseInv, MountsOK
<1>6. handles'[m] = Emplace(handles[m], id, h) /\ next_handle_id'[m] = id + 1
    BY <1>3, <1>4
<1> DEFINE t == Emplace(handles[m], id, h)
<1>7. /\ DOMAIN t = DOMAIN handles[m] \cup {id} /\ t[id] = h
      /\ \A fh \in DOMAIN handles[m] : fh # id => t[fh] = handles[m][fh]
    BY DEF Emplace
<1> HIDE DEF t, id
<1>8. TableOK(t, id + 1)
    <2>1. id \in Nat
        BY <1>2 DEF TableOK
    <2>2. ASSUME NEW fh \in DOMAIN t
          PROVE  /\ fh \in Nat /\ fh < id + 1
                 /\ HandleOK(t[fh], inodes, layouts, next_inode_id)
                 /\ Pending(t[fh]) \subseteq WantedExtents
        <3>1. CASE fh = id
            BY <1>1, <1>7, <2>1, <3>1
        <3>2. CASE fh \in DOMAIN handles[m] /\ fh # id
            BY <1>2, <1>7, <2>1, <3>2 DEF TableOK
        <3> QED BY <1>7, <3>1, <3>2
    <2> QED BY <2>1, <2>2 DEF TableOK
<1>9. RequestOK(request'[m], handles'[m], next_inode_id')
    BY <1>3 DEF RequestOK, Idle
<1>10. {} \subseteq WantedExtents
    OBVIOUS
<1> QED BY <1>5, <1>6, <1>8, <1>9, <1>10, MetaKept, TableStep DEF t

\* What a request in the middle of open knows.
LEMMA OpenRequestIs ==
    ASSUME FuseInv, NEW m \in Mounts, request[m].at \in {"created", "truncate", "truncated"}
    PROVE  /\ request[m] \in OpenRequest /\ request[m].inode_id \in Nat
           /\ request[m].flags \in Flags /\ request[m].inode_id < next_inode_id
<1>1. RequestOK(request[m], handles[m], next_inode_id)
    BY DEF FuseInv, MountsOK, MountOK
<1> QED BY <1>1 DEF RequestOK, OpenRequest

\* create, from the reply of CreateFile.
LEMMA CreatedStep ==
    ASSUME FuseInv, NEW m \in Mounts, Created(m)
    PROVE  FuseInv'
<1> DEFINE i == request[m].inode_id
           flags == request[m].flags
<1>1. i \in Nat /\ flags \in Flags /\ i < next_inode_id
    BY OpenRequestIs DEF Created
<1>2. UNCHANGED vars /\ LateStep
    BY LateKept DEF Created, GetLayoutWorks, GetLayoutFails, NoCallFails, CallFails
<1>3. /\ request' = [request EXCEPT ![m] = Idle]
      /\ UNCHANGED <<next_sequence, writer, objects>>
    BY DEF Created
<1>4. \/ FileError(i) = "Ok" /\ AllocateFileHandle(m, NewHandle(i, flags, GetLayout(i)))
      \/ AllocateFileHandle(m, NewHandle(i, flags, EmptyLayout))
    BY DEF Created, GetLayoutWorks
<1> QED BY <1>1, <1>2, <1>3, <1>4, AllocateStep

\* open: GetLayout, and without O_TRUNC the handle.
LEMMA OpenStepOK ==
    ASSUME FuseInv, NEW m \in Mounts, NEW i \in InodeIds, NEW flags \in Flags,
           PulpfsOpen(m, i, flags)
    PROVE  FuseInv'
<1>1. FileError(i) = "Ok" /\ UNCHANGED vars /\ LateStep
    BY LateKept DEF PulpfsOpen, GetLayoutWorks, NoCallFails
<1>2. i \in Nat /\ i < next_inode_id
    <2>1. i \in DOMAIN inodes
        BY <1>1 DEF FileError
    <2> QED BY <2>1 DEF FuseInv, MetaInv, TypeI, IdsBelowNext
<1>3. UNCHANGED <<next_sequence, writer, objects>> /\ request[m] = Idle
    BY DEF PulpfsOpen, CanOpen
<1>4. CASE Truncates(flags)
    <2> DEFINE r == [at |-> "truncate", flags |-> flags, inode_id |-> i]
    <2>1. /\ request' = [request EXCEPT ![m] = r]
          /\ UNCHANGED <<handles, next_handle_id>>
        BY <1>4 DEF PulpfsOpen
    <2>2. RequestOK(r, handles[m], next_inode_id')
        BY <1>1, <1>2 DEF RequestOK, OpenRequest, vars
    <2>3. {} \subseteq WantedExtents
        OBVIOUS
    <2> HIDE DEF r
    <2> QED BY <1>1, <1>3, <2>1, <2>2, <2>3, MetaKept, QuietStep
<1>5. CASE ~Truncates(flags)
    <2>1. AllocateFileHandle(m, NewHandle(i, flags, GetLayout(i))) /\ request' = request
        BY <1>5 DEF PulpfsOpen
    <2> QED BY <1>1, <1>2, <1>3, <2>1, AllocateStep
<1> QED BY <1>4, <1>5

\* The Truncate of an open with O_TRUNC.
LEMMA OpenTruncateStep ==
    ASSUME FuseInv, NEW m \in Mounts, OpenTruncate(m)
    PROVE  FuseInv'
<1>1. PICK r : r = request[m]
    OBVIOUS
<1>2. PICK c : c = TruncateCommand(r.inode_id, 0)
    OBVIOUS
<1>3. r \in OpenRequest /\ r.inode_id < next_inode_id /\ next_inode_id \in Nat
    BY <1>1, OpenRequestIs DEF OpenTruncate, FuseInv, MetaInv, TypeI
<1>4. GoodCommand(c) /\ CommandExtents(c) = {}
    BY <1>2 DEF TruncateCommand, GoodCommand, CommandExtents
<1>5. UNCHANGED <<handles, next_handle_id, next_sequence, writer, objects>>
    BY DEF OpenTruncate
<1>6. RequestOK(Idle, handles[m], next_inode_id')
    BY DEF RequestOK, Idle
<1>7. CASE RpcFails(c)
    <2>1. UNCHANGED vars /\ LateStep
        BY <1>4, <1>7, LateAdded DEF RpcFails
    <2>2. request' = [request EXCEPT ![m] = Idle] \/ ApplyCommand(c)
        BY <1>1, <1>2 DEF OpenTruncate
    <2>3. \E q : request' = [request EXCEPT ![m] = q] /\ RequestOK(q, handles[m], next_inode_id')
        <3>1. [r EXCEPT !.at = "truncated"] \in OpenRequest
            BY <1>3 DEF OpenRequest
        <3>2. RequestOK([r EXCEPT !.at = "truncated"], handles[m], next_inode_id')
            BY <1>3, <2>1, <3>1 DEF RequestOK, OpenRequest, vars
        <3> QED BY <1>1, <1>6, <3>2 DEF OpenTruncate
    <2>4. {} \subseteq WantedExtents
        OBVIOUS
    <2> QED BY <1>5, <2>1, <2>3, <2>4, MetaKept, QuietStep
<1>8. CASE ApplyCommand(c) /\ NoCallFails
    <2>1. MetaInv' /\ MetaChange({})
        BY <1>4, <1>8, CommandCall DEF FuseInv
    <2>2. LateStep
        BY <1>8, LateKept DEF NoCallFails
    <2>3. next_inode_id \in Nat /\ next_inode_id' \in Nat /\ next_inode_id <= next_inode_id'
        BY <2>1, MetaChangeIs DEF FuseInv
    <2>4. \E q : request' = [request EXCEPT ![m] = q] /\ RequestOK(q, handles[m], next_inode_id')
        <3>1. [r EXCEPT !.at = "truncated"] \in OpenRequest
            BY <1>3 DEF OpenRequest
        <3>2. RequestOK([r EXCEPT !.at = "truncated"], handles[m], next_inode_id')
            BY <1>3, <2>3, <3>1 DEF RequestOK, OpenRequest
        <3> QED BY <1>1, <1>6, <3>2 DEF OpenTruncate
    <2>5. {} \subseteq WantedExtents
        OBVIOUS
    <2> QED BY <1>5, <2>1, <2>2, <2>4, <2>5, QuietStep
<1> QED BY <1>1, <1>2, <1>7, <1>8 DEF OpenTruncate

\* The GetLayout after it.
LEMMA OpenTruncatedStep ==
    ASSUME FuseInv, NEW m \in Mounts, OpenTruncated(m)
    PROVE  FuseInv'
<1> DEFINE i == request[m].inode_id
           flags == request[m].flags
<1>1. i \in Nat /\ flags \in Flags /\ i < next_inode_id
    BY OpenRequestIs DEF OpenTruncated
<1>2. UNCHANGED vars /\ LateStep
    BY LateKept DEF OpenTruncated, GetLayoutWorks, GetLayoutFails, NoCallFails, CallFails
<1>3. /\ request' = [request EXCEPT ![m] = Idle]
      /\ UNCHANGED <<next_sequence, writer, objects>>
    BY DEF OpenTruncated
<1>4. CASE FileError(i) = "Ok" /\ AllocateFileHandle(m, NewHandle(i, flags, GetLayout(i)))
    BY <1>1, <1>2, <1>3, <1>4, AllocateStep
<1>5. CASE UNCHANGED <<handles, next_handle_id>>
    <2>1. RequestOK(Idle, handles[m], next_inode_id')
        BY DEF RequestOK, Idle
    <2>2. {} \subseteq WantedExtents
        OBVIOUS
    <2> QED BY <1>2, <1>3, <1>5, <2>1, <2>2, MetaKept, QuietStep
<1> QED BY <1>4, <1>5 DEF OpenTruncated, GetLayoutWorks

\* Requests that leave the table alone, and commands that come late.
LEMMA OtherRequestStep ==
    ASSUME FuseInv, NEW m \in Mounts,
           \/ \E i \in DirsOpened : PulpfsOpenDir(m, i)
           \/ PulpfsNamespace(m)
           \/ \E i \in InodeIds : PulpfsSetAttr(m, i)
           \/ SetAttrRest(m)
    PROVE  FuseInv'
<1>0. {} \subseteq WantedExtents
    OBVIOUS
<1>1. CASE \E i \in DirsOpened : PulpfsOpenDir(m, i)
    <2>1. /\ UNCHANGED vars /\ late' \subseteq late /\ request' = request
          /\ UNCHANGED <<handles, next_handle_id, next_sequence, writer, objects>>
        BY <1>1 DEF PulpfsOpenDir, NoCallFails
    <2> QED BY <1>0, <2>1, MetaKept, LateKept, QuietStep
<1>2. CASE PulpfsNamespace(m)
    <2>1. /\ NamespaceStep /\ late' \subseteq late /\ request' = request
          /\ UNCHANGED <<handles, next_handle_id, next_sequence, writer, objects>>
        BY <1>2 DEF PulpfsNamespace, NamespaceStep, client
    <2>2. MetaInv' /\ MetaChange({})
        BY <2>1, NamespaceCall DEF FuseInv
    <2> QED BY <1>0, <2>1, <2>2, LateKept, QuietStep
<1>3. ASSUME NEW i, NEW mode \in Modes, SetAttr(i, mode), NoCallFails,
             request' = request \/ request' = [request EXCEPT ![m] = Idle],
             UNCHANGED <<handles, next_handle_id, next_sequence, writer, objects>>
      PROVE  FuseInv'
    <2>1. MetaInv' /\ MetaChange({})
        BY <1>3, SetAttrCall DEF FuseInv
    <2>2. LateStep
        BY <1>3, LateKept DEF NoCallFails
    <2>3. RequestOK(Idle, handles[m], next_inode_id')
        BY DEF RequestOK, Idle
    <2> QED BY <1>0, <1>3, <2>1, <2>2, <2>3, QuietStep
<1>4. CASE SetAttrRest(m)
    <2>1. /\ request' = [request EXCEPT ![m] = Idle]
          /\ UNCHANGED <<handles, next_handle_id, next_sequence, writer, objects>>
        BY <1>4 DEF SetAttrRest
    <2>2. CASE UNCHANGED vars /\ late' \subseteq late
        <3>1. RequestOK(Idle, handles[m], next_inode_id')
            BY DEF RequestOK, Idle
        <3> QED BY <1>0, <2>1, <2>2, <3>1, MetaKept, LateKept, QuietStep
    <2> QED BY <1>3, <1>4, <2>1, <2>2 DEF SetAttrRest, CallFails
<1>5. ASSUME NEW i \in InodeIds, PulpfsSetAttr(m, i) PROVE FuseInv'
    <2>1. UNCHANGED <<handles, next_handle_id, next_sequence, writer, objects>>
        BY <1>5 DEF PulpfsSetAttr
    <2>2. ASSUME NEW size \in Sizes, ApplyCommand(TruncateCommand(i, size)), NoCallFails,
                 \/ request' = request
                 \/ request' = [request EXCEPT ![m] = [at |-> "setattr", inode_id |-> i]]
          PROVE  FuseInv'
        <3>1. PICK c : c = TruncateCommand(i, size)
            OBVIOUS
        <3>2. GoodCommand(c) /\ CommandExtents(c) = {}
            BY <3>1, MetaStateAssumption DEF TruncateCommand, GoodCommand, CommandExtents
        <3>3. MetaInv' /\ MetaChange({})
            BY <2>2, <3>1, <3>2, CommandCall DEF FuseInv
        <3>4. LateStep
            BY <2>2, LateKept DEF NoCallFails
        <3>5. RequestOK([at |-> "setattr", inode_id |-> i], handles[m], next_inode_id')
            BY DEF RequestOK
        <3> QED BY <1>0, <2>1, <2>2, <3>3, <3>4, <3>5, QuietStep
    <2>3. ASSUME NEW size \in Sizes, RpcFails(TruncateCommand(i, size)), request' = request
          PROVE  FuseInv'
        <3>1. PICK c : c = TruncateCommand(i, size)
            OBVIOUS
        <3>2. GoodCommand(c) /\ CommandExtents(c) = {}
            BY <3>1, MetaStateAssumption DEF TruncateCommand, GoodCommand, CommandExtents
        <3>3. UNCHANGED vars /\ LateStep
            BY <2>3, <3>1, <3>2, LateAdded DEF RpcFails
        <3> QED BY <1>0, <2>1, <2>3, <3>3, MetaKept, QuietStep
    <2> QED BY <1>3, <1>5, <2>1, <2>2, <2>3 DEF PulpfsSetAttr
<1> QED BY <1>1, <1>2, <1>4, <1>5

\* A command is applied after its client was told of an error.
LEMMA ApplyLateStep ==
    ASSUME FuseInv, ApplyLate
    PROVE  FuseInv'
<1>1. PICK l \in late : ApplyCommand(l.command) /\ late' = late \ {l}
    BY DEF ApplyLate
<1>2. UNCHANGED <<handles, next_handle_id, next_sequence, writer, objects>> /\ request' = request
    BY DEF ApplyLate, client
<1>3. CommandExtents(l.command) \subseteq WantedExtents
    BY WantedIs
<1>4. MetaInv' /\ MetaChange(CommandExtents(l.command))
    BY <1>1, CommandCall DEF FuseInv, LateOK
<1>5. LateStep
    BY <1>1, LateKept
<1> QED BY <1>2, <1>3, <1>4, <1>5, QuietStep

\* The reply to flush, fsync, release or releasedir.
LEMMA ReplyStep ==
    ASSUME FuseInv, MetaInv', NEW E, E \subseteq WantedExtents, MetaChange(E), LateStep,
           NEW m \in Mounts, NEW fh, NEW op, NEW table, TableOK(table, next_handle_id[m]),
           Reply(m, fh, op, table), UNCHANGED <<next_handle_id, next_sequence, writer, objects>>
    PROVE  FuseInv'
<1> DEFINE t == IF op = "flush" THEN table ELSE Erase(table, fh)
<1>1. TableOK(t, next_handle_id[m])
    <2>1. \A x \in DOMAIN t : x \in DOMAIN table /\ t[x] = table[x]
        BY DEF Erase
    <2> HIDE DEF t
    <2> QED BY <2>1 DEF TableOK
<1>2. handles' = [handles EXCEPT ![m] = t] /\ request' = [request EXCEPT ![m] = Idle]
    BY DEF Reply
<1> HIDE DEF t
<1>3. DOMAIN handles = Mounts /\ DOMAIN request = Mounts
    BY DEF FuseInv, MountsOK
<1>4. OthersIdle(m)
    BY <1>2, <1>3 DEF OthersIdle, Still, FuseInv, MountsOK
<1>5. handles'[m] = t /\ request'[m] = Idle
    BY <1>2, <1>3
<1>6. RequestOK(request'[m], handles'[m], next_inode_id')
    BY <1>5 DEF RequestOK, Idle
<1> QED BY <1>1, <1>4, <1>5, <1>6, TableStep

\* What CommitHandle sends.
LEMMA CommitCommandIs ==
    ASSUME FuseInv, NEW m \in Mounts, NEW fh \in DOMAIN handles[m],
           NEW c, c = CommitCommand(handles[m][fh])
    PROVE  /\ GoodCommand(c) /\ CommandExtents(c) \subseteq WantedExtents
           /\ CommandExtents(c) = Pending(handles[m][fh])
<1>1. PICK h : h = handles[m][fh]
    OBVIOUS
<1>2. HandleOK(h, inodes, layouts, next_inode_id)
    BY <1>1 DEF FuseInv, MountsOK, MountOK
<1>3. c = CommitCommand(h)
    BY <1>1
<1>4. GoodCommand(c)
    BY <1>2, <1>3 DEF CommitCommand, AppendWriteCommand, CommitWriteCommand, GoodCommand, HandleOK
<1>5. CommandExtents(c) = Pending(h)
    <2>1. CASE h.append
        <3>1. c.op = "append_write" /\ c.extents = h.pending_append_extents
            BY <1>3, <2>1 DEF CommitCommand, AppendWriteCommand
        <3>2. h.pending_extents = <<>>
            BY <1>2, <2>1 DEF HandleOK
        <3> QED BY <3>1, <3>2 DEF CommandExtents, Pending
    <2>2. CASE ~h.append
        <3>1. c.op = "commit_write" /\ c.extents = h.pending_extents
            BY <1>3, <2>2 DEF CommitCommand, CommitWriteCommand
        <3>2. h.pending_append_extents = <<>>
            BY <1>2, <2>2 DEF HandleOK
        <3> QED BY <3>1, <3>2 DEF CommandExtents, Pending
    <2> QED BY <2>1, <2>2
<1>6. Pending(h) \subseteq WantedExtents
    BY <1>1, WantedIs
<1> QED BY <1>1, <1>4, <1>5, <1>6

\* flush, fsync, release and releasedir up to the first RPC.
LEMMA CommitHandleStep ==
    ASSUME FuseInv, NEW m \in Mounts, NEW fh, NEW op, CommitHandle(m, fh, op)
    PROVE  FuseInv'
<1>0. /\ TableOK(handles[m], next_handle_id[m]) /\ {} \subseteq WantedExtents
      /\ UNCHANGED <<next_handle_id, next_sequence, writer, objects>>
    BY TableNow DEF CommitHandle
<1>1. PICK h : h = handles[m][fh]
    OBVIOUS
<1>2. PICK c : c = CommitCommand(h)
    OBVIOUS
<1>3. HasPending(m, fh) => /\ fh \in DOMAIN handles[m] /\ GoodCommand(c)
                           /\ CommandExtents(c) \subseteq WantedExtents
    BY <1>1, <1>2, CommitCommandIs DEF HasPending
<1>4. CASE Reply(m, fh, op, handles[m]) /\ NoCallFails /\ UNCHANGED vars
    BY <1>0, <1>4, MetaKept, LateKept, ReplyStep DEF NoCallFails
<1>5. CASE HasPending(m, fh) /\ RpcFails(c) /\ Reply(m, fh, op, NotCommitted(m, fh))
    <2>1. UNCHANGED vars /\ LateStep /\ Reply(m, fh, op, handles[m])
        BY <1>3, <1>5, LateAdded DEF RpcFails, NotCommitted
    <2> QED BY <1>0, <2>1, MetaKept, ReplyStep
<1>6. CASE /\ HasPending(m, fh) /\ ApplyCommand(c) /\ NoCallFails
           /\ Reply(m, fh, op, NotCommitted(m, fh))
    <2>1. MetaInv' /\ MetaChange(CommandExtents(c))
        BY <1>3, <1>6, CommandCall DEF FuseInv
    <2>2. LateStep /\ Reply(m, fh, op, handles[m])
        BY <1>6, LateKept DEF NoCallFails, NotCommitted
    <2> QED BY <1>0, <1>3, <1>6, <2>1, <2>2, ReplyStep
<1>7. CASE /\ HasPending(m, fh) /\ ApplyCommand(c) /\ NoCallFails
           /\ handles' = [handles EXCEPT ![m][fh] = Committed(h)]
           /\ request' = [request EXCEPT ![m] = [at |-> "reload", fh |-> fh, op |-> op]]
    <2>1. MetaInv' /\ MetaChange(CommandExtents(c)) /\ LateStep
        BY <1>3, <1>7, CommandCall, LateKept DEF FuseInv, NoCallFails
    <2>2. DOMAIN handles = Mounts /\ DOMAIN request = Mounts
        BY DEF FuseInv, MountsOK
    <2> DEFINE g == Committed(h)
               t == [handles[m] EXCEPT ![fh] = g]
    <2>3. HandleOK(g, inodes, layouts, next_inode_id) /\ Pending(g) = {}
        <3>1. HandleOK(h, inodes, layouts, next_inode_id)
            BY <1>0, <1>1, <1>3, <1>7 DEF TableOK
        <3> QED BY <3>1, CommittedOK
    <2> HIDE DEF g
    <2>4. handles' = [handles EXCEPT ![m] = t]
        BY <1>7 DEF g
    <2>5. /\ DOMAIN t = DOMAIN handles[m] /\ t[fh] = g
          /\ \A x \in DOMAIN handles[m] : x # fh => t[x] = handles[m][x]
        BY <1>3, <1>7
    <2> HIDE DEF t
    <2>6. TableOK(t, next_handle_id[m])
        BY <1>0, <2>3, <2>5 DEF TableOK
    <2>7. OthersIdle(m)
        BY <1>0, <1>7, <2>2, <2>4 DEF OthersIdle, Still, FuseInv, MountsOK
    <2>8. handles'[m] = t
        BY <2>2, <2>4
    <2>9. request'[m] = [at |-> "reload", fh |-> fh, op |-> op]
        BY <1>7, <2>2
    <2>10. RequestOK(request'[m], handles'[m], next_inode_id')
        BY <1>3, <1>7, <2>5, <2>8, <2>9 DEF RequestOK
    <2> QED BY <1>0, <1>3, <1>7, <2>1, <2>6, <2>7, <2>8, <2>10, TableStep
<1> QED BY <1>1, <1>2, <1>4, <1>5, <1>6, <1>7 DEF CommitHandle

\* The GetLayout that follows a commit.
LEMMA ReloadStep ==
    ASSUME FuseInv, NEW m \in Mounts, Reload(m)
    PROVE  FuseInv'
<1>0. /\ TableOK(handles[m], next_handle_id[m]) /\ {} \subseteq WantedExtents
      /\ UNCHANGED <<next_handle_id, next_sequence, writer, objects>>
    BY TableNow DEF Reload
<1>1. PICK r : r = request[m]
    OBVIOUS
<1>2. r.fh \in DOMAIN handles[m]
    <2>1. RequestOK(r, handles[m], next_inode_id) /\ r.at = "reload"
        BY <1>1 DEF FuseInv, MountsOK, MountOK, Reload
    <2> QED BY <2>1 DEF RequestOK, OpenRequest
<1>3. PICK fh, h : fh = r.fh /\ h = handles[m][fh]
    OBVIOUS
<1>4. UNCHANGED vars /\ LateStep
    BY LateKept DEF Reload, GetLayoutWorks, GetLayoutFails, NoCallFails, CallFails
<1>5. CASE Reply(m, fh, r.op, handles[m])
    BY <1>0, <1>4, <1>5, MetaKept, ReplyStep
<1>6. CASE /\ FileError(h.inode_id) = "Ok"
           /\ Reply(m, fh, r.op, [handles[m] EXCEPT ![fh].layout = GetLayout(h.inode_id)])
    <2> DEFINE g == [h EXCEPT !.layout = GetLayout(h.inode_id)]
               t == [handles[m] EXCEPT ![fh] = g]
    <2>1. HandleOK(h, inodes, layouts, next_inode_id) /\ Pending(h) \subseteq WantedExtents
        BY <1>0, <1>2, <1>3 DEF TableOK
    <2>2. HandleOK(g, inodes, layouts, next_inode_id) /\ Pending(g) = Pending(h)
        BY <1>6, <2>1, ReloadedOK DEF FuseInv
    <2>3. [handles[m] EXCEPT ![fh].layout = GetLayout(h.inode_id)] = t
        BY <1>3
    <2> HIDE DEF g
    <2>4. /\ DOMAIN t = DOMAIN handles[m] /\ t[fh] = g
          /\ \A x \in DOMAIN handles[m] : x # fh => t[x] = handles[m][x]
        BY <1>2, <1>3
    <2> HIDE DEF t
    <2>5. TableOK(t, next_handle_id[m])
        BY <1>0, <2>1, <2>2, <2>4 DEF TableOK
    <2> QED BY <1>0, <1>4, <1>6, <2>3, <2>5, MetaKept, ReplyStep
<1> QED BY <1>1, <1>3, <1>5, <1>6 DEF Reload, GetLayoutWorks

\* A mount dies and starts again.
LEMMA RestartStep ==
    ASSUME FuseInv, NEW m \in Mounts, Restart(m)
    PROVE  FuseInv'
<1>1. /\ UNCHANGED vars /\ late' \subseteq late /\ objects' = objects
      /\ handles' = [handles EXCEPT ![m] = [fh \in {} |-> 0]]
      /\ next_handle_id' = [next_handle_id EXCEPT ![m] = 1]
      /\ next_sequence' = [next_sequence EXCEPT ![m] = 1]
      /\ writer' = [writer EXCEPT ![m] = writer[m] + 1]
      /\ request' = [request EXCEPT ![m] = Idle]
    BY DEF Restart
<1>2. /\ DOMAIN handles = Mounts /\ DOMAIN next_handle_id = Mounts
      /\ DOMAIN next_sequence = Mounts /\ DOMAIN writer = Mounts /\ DOMAIN request = Mounts
    BY DEF FuseInv, MountsOK
<1>3. \A k \in Mounts : next_sequence[k] \in Nat /\ writer[k] \in Nat
    BY DEF FuseInv, MountsOK, MountOK
<1>4. OthersIdle(m)
    BY <1>1, <1>2 DEF OthersIdle, Still
<1>5. /\ handles'[m] = [fh \in {} |-> 0] /\ next_handle_id'[m] = 1 /\ next_sequence'[m] = 1
      /\ writer'[m] = writer[m] + 1 /\ request'[m] = Idle
    BY <1>1, <1>2
<1>6. CountersGrow
    <2>1. ASSUME NEW k \in Mounts, k # m
          PROVE  next_sequence'[k] = next_sequence[k] /\ writer'[k] = writer[k]
        BY <1>4, <2>1 DEF OthersIdle, Still
    <2> QED BY <1>3, <1>5, <2>1 DEF CountersGrow
<1>7. MountStep(m)
    <2>1. DOMAIN handles'[m] = {}
        BY <1>5
    <2>2. writer'[m] \in Nat
        BY <1>3, <1>5
    <2> QED BY <1>5, <2>1, <2>2 DEF MountStep, RequestOK, Idle
<1>8. BucketStep /\ LateStep
    BY <1>1, <1>6, BucketKept, LateKept
<1> QED BY <1>1, <1>4, <1>7, <1>8, MetaKept, StepOK

\* The bucket after a put under a new key.
LEMMA PutStep ==
    ASSUME FuseInv, CountersGrow, NEW key, key \notin DOMAIN objects, KeyUsed(key)',
           NEW v, v.length \in Nat, objects' = objects \/ objects' = Emplace(objects, key, v)
    PROVE  BucketStep
<1>1. CASE objects' = objects
    BY <1>1, BucketKept
<1>2. CASE objects' = Emplace(objects, key, v)
    <2>1. /\ DOMAIN objects' = DOMAIN objects \cup {key} /\ objects'[key] = v
          /\ \A x \in DOMAIN objects : objects'[x] = objects[x]
        BY <1>2 DEF Emplace
    <2>2. \A e \in WantedExtents : BackedIn(e, objects')
        BY <2>1 DEF FuseInv, LiveExtentsBacked, Backed, BackedIn
    <2>3. ASSUME NEW x \in DOMAIN objects' PROVE KeyUsed(x)' /\ objects'[x].length \in Nat
        <3>1. CASE x = key
            BY <2>1, <3>1
        <3>2. CASE x \in DOMAIN objects
            BY <2>1, <3>2, KeyStaysUsed DEF FuseInv, BucketOK
        <3> QED BY <2>1, <3>1, <3>2
    <2> QED BY <2>2, <2>3 DEF BucketStep
<1> QED BY <1>1, <1>2

\* The key of a write is used by that write for the first time.
LEMMA NewKey ==
    ASSUME FuseInv, NEW m \in Mounts, NEW i \in Nat, NEW offset \in Nat,
           NEW key, key = MakeObjectKey(m, i, offset)
    PROVE  /\ key \in Nat \X Mounts \X Nat \X Nat \X Nat /\ key \notin DOMAIN objects
           /\ key[2] = m /\ key[3] = writer[m] /\ key[4] = next_sequence[m]
<1>1. next_sequence[m] \in Nat /\ writer[m] \in Nat
    BY DEF FuseInv, MountsOK, MountOK
<1>2. /\ key \in Nat \X Mounts \X Nat \X Nat \X Nat
      /\ key[2] = m /\ key[3] = writer[m] /\ key[4] = next_sequence[m]
    BY <1>1 DEF MakeObjectKey
<1>3. ~KeyUsed(key)
    BY <1>1, <1>2 DEF KeyUsed
<1> QED BY <1>2, <1>3 DEF FuseInv, BucketOK

\* write.
LEMMA PutAndWait ==
    ASSUME FuseInv, KeysOfWrites, NEW m \in Mounts, NEW fh, NEW off \in Offsets, NEW len \in Lengths,
           PulpfsWrite(m, fh, off, len)
    PROVE  FuseInv'
<1>1. PICK h : h = handles[m][fh]
    OBVIOUS
<1>2. PICK offset : offset = IF h.append THEN h.pending_append_length ELSE off
    OBVIOUS
<1>3. PICK key : key = MakeObjectKey(m, h.inode_id, offset)
    OBVIOUS
<1>4. PICK e : e = [offset |-> offset, length |-> len, key |-> key, object_offset |-> 0]
    OBVIOUS
<1>5. PICK v : v = [put |-> puts, length |-> len]
    OBVIOUS
<1>6. PICK ok \in BOOLEAN :
          /\ IF ok THEN NoCallFails /\ objects' = Emplace(objects, key, v)
                   ELSE CallFails /\ objects' \in {objects, Emplace(objects, key, v)}
          /\ handles' = [handles EXCEPT ![m][fh] = AfterPut(h, e, ok)]
    BY <1>1, <1>2, <1>3, <1>4, <1>5 DEF PulpfsWrite
<1>7. /\ fh \in DOMAIN handles[m] /\ UNCHANGED <<vars, next_handle_id, writer, request>>
      /\ next_sequence' = [next_sequence EXCEPT ![m] = next_sequence[m] + 1] /\ request[m] = Idle
    BY DEF PulpfsWrite
<1>8. TableOK(handles[m], next_handle_id[m])
    BY TableNow
<1>9. HandleOK(h, inodes, layouts, next_inode_id) /\ Pending(h) \subseteq WantedExtents
    BY <1>1, <1>7, <1>8 DEF TableOK
<1>10. offset \in Nat /\ h.inode_id \in Nat /\ len \in Nat /\ len # 0
    BY <1>2, <1>9, FuseAssumption DEF HandleOK, Handle
<1>11. /\ key \in Nat \X Mounts \X Nat \X Nat \X Nat /\ key \notin DOMAIN objects
       /\ key[2] = m /\ key[3] = writer[m] /\ key[4] = next_sequence[m]
    <2>1. PICK i : i = h.inode_id
        OBVIOUS
    <2>2. i \in Nat /\ key = MakeObjectKey(m, i, offset)
        BY <1>3, <1>10, <2>1
    <2>3. offset \in Nat
        BY <1>10
    <2> QED BY <2>2, <2>3, NewKey
<1>12. e \in Extent /\ ValidExtent(e)
    <2>1. key \in Keys /\ key # NoKey
        BY <1>11, NoKeyIsNoKey DEF KeysOfWrites
    <2> QED BY <1>4, <1>10, <2>1 DEF Extent, ValidExtent
<1>13. /\ \A k \in Mounts : next_sequence[k] \in Nat /\ writer[k] \in Nat /\ next_handle_id[k] \in Nat
       /\ DOMAIN handles = Mounts /\ DOMAIN next_sequence = Mounts
    BY DEF FuseInv, MountsOK, MountOK
<1>14. /\ next_sequence'[m] = next_sequence[m] + 1
       /\ \A k \in Mounts : k # m => next_sequence'[k] = next_sequence[k]
    BY <1>7, <1>13
<1>15. CountersGrow
    BY <1>7, <1>13, <1>14 DEF CountersGrow
<1>16. BucketStep
    <2>1. KeyUsed(key)'
        BY <1>7, <1>11, <1>13, <1>14 DEF KeyUsed
    <2>2. v.length \in Nat
        BY <1>5, <1>10
    <2>3. objects' = objects \/ objects' = Emplace(objects, key, v)
        BY <1>6
    <2> QED BY <1>11, <1>15, <2>1, <2>2, <2>3, PutStep
<1>17. LateStep
    BY <1>6, LateKept DEF NoCallFails, CallFails
<1> DEFINE g == AfterPut(h, e, ok)
           t == [handles[m] EXCEPT ![fh] = g]
<1>18. /\ HandleOK(g, inodes, layouts, next_inode_id)
       /\ Pending(g) = IF ok THEN Pending(h) \cup {e} ELSE Pending(h)
    BY <1>9, <1>12, WrittenOK
<1>19. ok => BackedIn(e, objects')
    <2> SUFFICES ASSUME ok PROVE BackedIn(e, objects')
        OBVIOUS
    <2>1. key \in DOMAIN objects' /\ objects'[key] = v
        BY <1>6 DEF Emplace
    <2> QED BY <1>4, <1>5, <1>10, <2>1 DEF BackedIn
<1> HIDE DEF g
<1>20. handles' = [handles EXCEPT ![m] = t]
    BY <1>6 DEF g
<1>21. /\ DOMAIN t = DOMAIN handles[m] /\ t[fh] = g
       /\ \A x \in DOMAIN handles[m] : x # fh => t[x] = handles[m][x]
    BY <1>7
<1> HIDE DEF t
<1>22. handles'[m] = t /\ OthersIdle(m)
    BY <1>7, <1>13, <1>20 DEF OthersIdle, Still, FuseInv, MountsOK
<1>23. ASSUME NEW x \in DOMAIN t
       PROVE  /\ x \in Nat /\ x < next_handle_id[m]
              /\ HandleOK(t[x], inodes, layouts, next_inode_id)
              /\ \A y \in Pending(t[x]) : y \in WantedExtents \/ BackedIn(y, objects')
    BY <1>8, <1>9, <1>18, <1>19, <1>21 DEF TableOK
<1>24. MountStep(m)
    <2>1. RequestOK(request'[m], handles'[m], next_inode_id')
        BY <1>7 DEF RequestOK, Idle
    <2> QED BY <1>7, <1>13, <1>14, <1>22, <1>23, <2>1 DEF MountStep
<1> QED BY <1>7, <1>16, <1>17, <1>22, <1>24, MetaKept, StepOK

-----------------------------------------------------------------------------
\* Nothing is open, stored or late at the start.
LEMMA FuseInvInit == FuseInit => FuseInv
<1> SUFFICES ASSUME FuseInit PROVE FuseInv
    OBVIOUS
<1>1. MetaInv
    BY MetaInvInit DEF FuseInit
<1>2. MountsOK
    <2>1. ASSUME NEW m \in Mounts PROVE MountOK(m)
        BY DEF FuseInit, MountOK, RequestOK, Idle
    <2> QED BY <2>1 DEF FuseInit, MountsOK
<1>3. LateOK /\ BucketOK
    BY DEF FuseInit, LateOK, BucketOK
<1>4. LiveExtentsBacked
    <2>1. \A m \in Mounts : DOMAIN handles[m] = {}
        BY DEF FuseInit
    <2>2. StoredExtents = {} /\ late = {}
        BY DEF FuseInit, Init, StoredExtents
    <2>3. WantedExtents = {}
        BY <2>1, <2>2, WantedIs
    <2> QED BY <2>3 DEF LiveExtentsBacked
<1> QED BY <1>1, <1>2, <1>3, <1>4 DEF FuseInv

\* Every step keeps the invariant.
LEMMA FuseInvStep ==
    ASSUME FuseInv, KeysOfWrites, [FuseNext]_fuseVars
    PROVE  FuseInv'
<1>1. CASE UNCHANGED fuseVars
    <2>1. /\ UNCHANGED vars /\ late' \subseteq late
          /\ UNCHANGED <<handles, next_handle_id, next_sequence, writer, objects>>
          /\ request' = request
        BY <1>1 DEF fuseVars, client
    <2> QED BY <2>1, MetaKept, LateKept, QuietStep
<1>2. CASE ApplyLate
    BY <1>2, ApplyLateStep
<1>3. ASSUME NEW m \in Mounts, OpenStep(m) PROVE FuseInv'
    BY <1>3, CreateCallStep, OpenStepOK, CreatedStep, OpenTruncateStep, OpenTruncatedStep,
       OtherRequestStep DEF OpenStep
<1>4. ASSUME NEW m \in Mounts, FileIoStep(m) PROVE FuseInv'
    BY <1>4, PutAndWait, CommitHandleStep, ReloadStep
       DEF FileIoStep, PulpfsFlush, PulpfsRelease, PulpfsReleaseDir
<1>5. ASSUME NEW m \in Mounts,
             PulpfsNamespace(m) \/ SetAttrRest(m) \/ \E i \in InodeIds : PulpfsSetAttr(m, i)
      PROVE  FuseInv'
    BY <1>5, OtherRequestStep
<1>6. ASSUME NEW m \in Mounts, Restart(m) PROVE FuseInv'
    BY <1>6, RestartStep
<1> QED BY <1>1, <1>2, <1>3, <1>4, <1>5, <1>6 DEF FuseNext

\* The mounts, the files and the bucket fit together in every reachable state.
THEOREM FuseInvariant == KeysOfWrites /\ FuseSpec => []FuseInv
<1> DEFINE I == FuseInv /\ KeysOfWrites
<1>1. KeysOfWrites /\ FuseInit => I
    BY FuseInvInit
<1>2. I /\ [FuseNext]_fuseVars => I'
    <2>1. KeysOfWrites => KeysOfWrites'
        BY DEF KeysOfWrites
    <2> QED BY <2>1, FuseInvStep
<1>3. I => FuseInv
    OBVIOUS
<1> QED BY <1>1, <1>2, <1>3, PTL DEF FuseSpec

\* Every extent of a file, or that may still be committed, lies inside an object
\* that was put: a put goes before its extent, a failed put leaves none, and
\* MergeExtent and TruncateExtents cut extents without reaching beyond the object.
THEOREM WantedExtentsBacked == KeysOfWrites /\ FuseSpec => []LiveExtentsBacked
<1>1. FuseInv => LiveExtentsBacked
    BY DEF FuseInv
<1> QED BY <1>1, FuseInvariant, PTL

\* The bytes of an object do not change while it is there.
LEMMA ObjectsStay ==
    ASSUME FuseInv, [FuseNext]_fuseVars, NEW k \in DOMAIN objects \cap DOMAIN objects'
    PROVE  objects'[k] = objects[k]
<1>1. CASE objects' = objects
    BY <1>1
<1>2. ASSUME NEW m \in Mounts, NEW fh, NEW off \in Offsets, NEW len \in Lengths,
             PulpfsWrite(m, fh, off, len)
      PROVE  objects'[k] = objects[k]
    <2>1. PICK h : h = handles[m][fh]
        OBVIOUS
    <2>2. PICK i, offset, key : /\ i = h.inode_id /\ key = MakeObjectKey(m, i, offset)
                                /\ offset = IF h.append THEN h.pending_append_length ELSE off
        OBVIOUS
    <2>3. PICK v : objects' \in {objects, Emplace(objects, key, v)}
        BY <1>2, <2>1, <2>2 DEF PulpfsWrite
    <2>4. HandleOK(h, inodes, layouts, next_inode_id)
        BY <1>2, <2>1, TableNow DEF PulpfsWrite, TableOK
    <2>5. i \in Nat /\ offset \in Nat
        BY <2>2, <2>4, FuseAssumption DEF HandleOK, Handle
    <2>6. key \notin DOMAIN objects
        BY <2>2, <2>5, NewKey
    <2> QED BY <2>3, <2>6 DEF Emplace
<1>3. ASSUME NEW m \in Mounts, OpenStep(m) PROVE objects' = objects
    BY <1>3 DEF OpenStep, PulpfsCreate, PulpfsOpen, Created, OpenTruncate, OpenTruncated, PulpfsOpenDir
<1>4. ASSUME NEW m \in Mounts, PulpfsFlush(m) \/ PulpfsRelease(m) \/ PulpfsReleaseDir(m) \/ Reload(m)
      PROVE  objects' = objects
    BY <1>4 DEF PulpfsFlush, PulpfsRelease, PulpfsReleaseDir, CommitHandle, Reload
<1>5. ASSUME NEW m \in Mounts,
             \/ PulpfsNamespace(m) \/ SetAttrRest(m) \/ Restart(m)
             \/ \E i \in InodeIds : PulpfsSetAttr(m, i)
      PROVE  objects' = objects
    BY <1>5 DEF PulpfsNamespace, SetAttrRest, Restart, PulpfsSetAttr
<1>6. ApplyLate \/ UNCHANGED fuseVars => objects' = objects
    BY DEF ApplyLate, fuseVars
<1> QED BY <1>1, <1>2, <1>3, <1>4, <1>5, <1>6 DEF FuseNext, FileIoStep

\* No put ever goes to a key that is in use, neither of another mount nor of an
\* earlier life of the same one.
THEOREM ObjectsAreImmutable == KeysOfWrites /\ FuseSpec => ObjectsNeverOverwritten
<1>1. FuseInv /\ [FuseNext]_fuseVars =>
          [\A k \in DOMAIN objects \cap DOMAIN objects' : objects'[k] = objects[k]]_fuseVars
    BY ObjectsStay
<1> QED BY <1>1, FuseInvariant, PTL DEF FuseSpec, ObjectsNeverOverwritten

-----------------------------------------------------------------------------
(***************************************************************************)
(* What an accepted commit leaves in the file.                             *)
(***************************************************************************)
\* A batch that covers byte b has a last extent that does.
LEMMA LastCovering ==
    ASSUME NEW es \in Seq(Extent), NEW b, NEW k \in 1 .. Len(es), Covers(es[k], b)
    PROVE  \E j \in 1 .. Len(es) : Covers(es[j], b) /\ \A l \in 1 .. Len(es) : Covers(es[l], b) => l <= j
<1> DEFINE over == {j \in 1 .. Len(es) : Covers(es[j], b)}
<1>1. over \in SUBSET (0 .. Len(es)) /\ over # {} /\ Len(es) \in Nat
    OBVIOUS
<1>2. PICK j \in over : \A l \in over : l <= j
    <2> HIDE DEF over
    <2> QED BY <1>1, GreatestMember
<1> QED BY <1>2

\* Reading the stored extents and the waiting ones over them, as a handle does,
\* is reading what MergeExtent makes of both.
LEMMA MergedIsOverlay ==
    ASSUME NEW stored \in SUBSET Extent, NEW es \in Seq(Extent), NEW b \in Nat
    PROVE  CellsAt(MergeFirst(stored, es, Len(es)), b) = Overlay(CellsAt(stored, b), es, b)
<1> DEFINE over == {j \in 1 .. Len(es) : Covers(es[j], b)}
<1>1. CASE over = {}
    <2>1. \A k \in 1 .. Len(es) : ~Covers(es[k], b)
        BY <1>1
    <2>2. Overlay(CellsAt(stored, b), es, b) = CellsAt(stored, b)
        BY <1>1 DEF Overlay
    <2> QED BY <2>1, <2>2, MergeFirstCells
<1>2. CASE over # {}
    <2>1. PICK k \in 1 .. Len(es) : Covers(es[k], b) /\ \A l \in 1 .. Len(es) : Covers(es[l], b) => l <= k
        BY <1>2, LastCovering
    <2>2. \A l \in k + 1 .. Len(es) : ~Covers(es[l], b)
        BY <2>1
    <2>3. CellsAt(MergeFirst(stored, es, Len(es)), b) = {Cell(es[k], b)}
        BY <2>1, <2>2, MergeFirstCells
    <2>4. {j \in over : \A l \in over : l <= j} = {k}
        BY <2>1
    <2>5. Overlay(CellsAt(stored, b), es, b) = {Cell(es[j], b) : j \in {k}}
        BY <1>2, <2>4 DEF Overlay
    <2> QED BY <2>3, <2>5
<1> QED BY <1>1, <1>2

\* The last waiting extent over a byte does not ask what is below it.
LEMMA OverlayOnTop ==
    ASSUME NEW cells, NEW es, NEW b
    PROVE  /\ Overlay({}, es, b) \subseteq Overlay(cells, es, b)
           /\ (\A k \in 1 .. Len(es) : ~Covers(es[k], b)) => Overlay(cells, es, b) = cells
<1>1. CASE \A k \in 1 .. Len(es) : ~Covers(es[k], b)
    BY <1>1 DEF Overlay
<1>2. CASE \E k \in 1 .. Len(es) : Covers(es[k], b)
    <2>1. {k \in 1 .. Len(es) : Covers(es[k], b)} # {}
        BY <1>2
    <2>2. Overlay({}, es, b) = Overlay(cells, es, b)
        BY <2>1 DEF Overlay
    <2> QED BY <1>2, <2>2
<1> QED BY <1>1, <1>2

\* A byte that an extent of the batch covers is there after the merge, and with
\* it an extent of the object that the last such extent names.
LEMMA CoveredIsStored ==
    ASSUME NEW stored \in SUBSET Extent, NEW es \in Seq(Extent), NEW b \in Nat,
           NEW k \in 1 .. Len(es), Covers(es[k], b)
    PROVE  /\ CellsAt(MergeFirst(stored, es, Len(es)), b) # {}
           /\ (\A l \in k + 1 .. Len(es) : ~Covers(es[l], b)) =>
                  \E e \in MergeFirst(stored, es, Len(es)) : e.key = es[k].key
<1> DEFINE merged == MergeFirst(stored, es, Len(es))
<1>1. PICK j \in 1 .. Len(es) : Covers(es[j], b) /\ \A l \in 1 .. Len(es) : Covers(es[l], b) => l <= j
    BY LastCovering
<1>2. \A l \in j + 1 .. Len(es) : ~Covers(es[l], b)
    BY <1>1
<1>3. CellsAt(merged, b) = {Cell(es[j], b)}
    BY <1>1, <1>2, MergeFirstCells
<1>4. ASSUME \A l \in k + 1 .. Len(es) : ~Covers(es[l], b)
      PROVE  \E e \in merged : e.key = es[k].key
    <2>1. CellsAt(merged, b) = {Cell(es[k], b)}
        BY <1>4, MergeFirstCells
    <2> HIDE DEF merged
    <2>2. PICK e \in merged : Cell(e, b) = Cell(es[k], b)
        BY <2>1 DEF CellsAt
    <2> QED BY <2>2 DEF Cell
<1> QED BY <1>3, <1>4

\* CommitHandle of handle fh of mount m, when its first RPC is accepted.
Accepted(m, fh, op) ==
    /\ request[m] = Idle /\ HasPending(m, fh) /\ NoCallFails /\ UNCHANGED objects
    /\ ApplyCommand(CommitCommand(handles[m][fh])) /\ result' = "Ok"
    /\ handles' = [handles EXCEPT ![m][fh] = Committed(handles[m][fh])]
    /\ request' = [request EXCEPT ![m] = [at |-> "reload", fh |-> fh, op |-> op]]

\* A command that writes, answered with "Ok", has written its whole batch; one
\* that was answered with an error has changed nothing.
LEMMA WriteAnswer ==
    ASSUME MetaInv, NEW i, NEW es, GoodBatch(es)
    PROVE  /\ CommitWrite(i, es) => IF result' = "Ok" THEN CommitChange(i, es) ELSE UNCHANGED state
           /\ AppendWrite(i, es) => IF result' = "Ok" THEN AppendChange(i, es) ELSE UNCHANGED state
<1>0. es \in Seq(Extent) /\ \A k \in 1 .. Len(es) : ValidExtent(es[k])
    BY DEF GoodBatch
<1>1. CASE FileError(i) # "Ok"
    BY <1>1 DEF CommitWrite, AppendWrite, MergeBatch, Reject
<1>2. CASE FileError(i) = "Ok"
    <2>1. inodes[i].size \in Nat /\ BatchEnd(es) \in Nat
        BY <1>0, <1>2, FileOk, BatchEndIs
    <2>2. /\ LargerOf(inodes[i].size, BatchEnd(es)) \in Nat
          /\ inodes[i].size + BatchEnd(es) \in Nat
        BY <2>1 DEF LargerOf
    <2>3. PICK sh : sh = ShiftBatch(es, inodes[i].size)
        OBVIOUS
    <2>4. sh \in Seq(Extent) /\ Len(sh) = Len(es) /\ \A k \in 1 .. Len(sh) : ValidExtent(sh[k])
        BY <1>0, <2>1, <2>3, ShiftBatchIs, ShiftedValid
    <2>5. AcceptedPrefix(es) = Len(es) /\ AcceptedPrefix(sh) = Len(sh)
        BY <1>0, <2>4, WholeBatch
    <2>6. ASSUME CommitWrite(i, es) PROVE result' = "Ok" /\ CommitChange(i, es)
        <3>1. MergeBatch(i, es, LargerOf(inodes[i].size, BatchEnd(es)))
            BY <1>2, <2>6 DEF CommitWrite
        <3>2. result' = "Ok"
            BY <1>0, <2>5, <3>1 DEF MergeBatch
        <3> QED BY <1>0, <2>2, <3>1, <3>2, MergeEffect DEF CommitChange
    <2>7. ASSUME AppendWrite(i, es) PROVE result' = "Ok" /\ AppendChange(i, es)
        <3>1. MergeBatch(i, sh, inodes[i].size + BatchEnd(es))
            BY <1>2, <2>3, <2>7 DEF AppendWrite
        <3>2. result' = "Ok"
            BY <2>4, <2>5, <3>1 DEF MergeBatch
        <3>3. FileChange(i, inodes[i].size + BatchEnd(es),
                         MergeFirst(layouts[i].extents, sh, Len(sh)))
            BY <2>2, <2>4, <3>1, MergeEffect
        <3> QED BY <2>3, <2>4, <3>2, <3>3 DEF AppendChange
    <2> QED BY <2>6, <2>7
<1> QED BY <1>1, <1>2

\* So the answer tells what became of the batch of a handle.
LEMMA CommitAnswer ==
    ASSUME FuseInv, NEW m \in Mounts, NEW fh \in DOMAIN handles[m], NEW h, h = handles[m][fh],
           ApplyCommand(CommitCommand(h))
    PROVE  IF result' = "Ok"
           THEN IF h.append THEN AppendChange(h.inode_id, h.pending_append_extents)
                            ELSE CommitChange(h.inode_id, h.pending_extents)
           ELSE UNCHANGED state
<1>1. MetaInv /\ GoodBatch(h.pending_extents) /\ GoodBatch(h.pending_append_extents)
    BY DEF FuseInv, MountsOK, MountOK, HandleOK
<1>2. CASE h.append
    <2>1. AppendWrite(h.inode_id, h.pending_append_extents)
        BY <1>2 DEF CommitCommand, AppendWriteCommand, ApplyCommand
    <2> QED BY <1>1, <1>2, <2>1, WriteAnswer
<1>3. CASE ~h.append
    <2>1. CommitWrite(h.inode_id, h.pending_extents)
        BY <1>3 DEF CommitCommand, CommitWriteCommand, ApplyCommand
    <2> QED BY <1>1, <1>3, <2>1, WriteAnswer
<1> QED BY <1>2, <1>3

-----------------------------------------------------------------------------
(***************************************************************************)
(* The writes that wait in handles: only a put adds to them and only an    *)
(* accepted commit takes them away.                                        *)
(***************************************************************************)
NoWrites(g) ==
    g.pending_extents = <<>> /\ g.pending_append_extents = <<>> /\ g.pending_append_length = 0

SameWrites(g, h) ==
    /\ g.append = h.append /\ g.pending_extents = h.pending_extents
    /\ g.pending_append_extents = h.pending_append_extents
    /\ g.pending_append_length = h.pending_append_length

\* In `table', made from `old', what was there waits as before and what is new
\* waits for nothing.
TableQuiet(table, old) ==
    \A fh \in DOMAIN table :
        IF fh \in DOMAIN old THEN SameWrites(table[fh], old[fh]) ELSE NoWrites(table[fh])

\* No mount changes the writes that wait, and none ends up behind a commit that
\* was accepted in this step.
WritesQuiet ==
    \A m \in Mounts : /\ TableQuiet(handles'[m], handles[m])
                      /\ request[m] = Idle => request'[m].at # "reload"

\* A table stays as it is, or loses handles.
LEMMA TableSame ==
    ASSUME NEW old, NEW fh
    PROVE  TableQuiet(old, old) /\ TableQuiet(Erase(old, fh), old)
BY DEF TableQuiet, SameWrites, Erase

\* The request of a mount that does not get behind an accepted commit.
LEMMA RequestMoves ==
    ASSUME FuseInv, NEW m,
           \/ request' = request
           \/ \E r : request' = [request EXCEPT ![m] = r] /\ r.at # "reload",
           NEW k \in Mounts, request[k] = Idle
    PROVE  request'[k].at # "reload"
<1>1. DOMAIN request = Mounts
    BY DEF FuseInv, MountsOK
<1>2. CASE request' = request
    BY <1>2 DEF Idle
<1>3. ASSUME NEW r, request' = [request EXCEPT ![m] = r], r.at # "reload"
      PROVE  request'[k].at # "reload"
    <2>1. request'[k] = request[k] \/ request'[k] = r
        BY <1>1, <1>3
    <2> QED BY <1>3, <2>1 DEF Idle
<1> QED BY <1>2, <1>3

\* Steps that leave the handles alone.
LEMMA HandlesStay ==
    ASSUME FuseInv, handles' = handles, NEW m,
           \/ request' = request
           \/ \E r : request' = [request EXCEPT ![m] = r] /\ r.at # "reload"
    PROVE  WritesQuiet
BY RequestMoves, TableSame DEF WritesQuiet

\* Steps that change the table of one mount.
LEMMA TableChanges ==
    ASSUME FuseInv, NEW m \in Mounts, NEW t, handles' = [handles EXCEPT ![m] = t],
           TableQuiet(t, handles[m]),
           \/ request' = request
           \/ \E r : request' = [request EXCEPT ![m] = r] /\ r.at # "reload"
    PROVE  WritesQuiet
<1>1. DOMAIN handles = Mounts
    BY DEF FuseInv, MountsOK
<1>2. handles'[m] = t /\ \A k \in Mounts : k # m => handles'[k] = handles[k]
    BY <1>1
<1> QED BY <1>2, RequestMoves, TableSame DEF WritesQuiet

\* A new handle waits for nothing.
LEMMA AllocateQuiet ==
    ASSUME FuseInv, NEW m \in Mounts, NEW i, NEW flags, NEW layout,
           AllocateFileHandle(m, NewHandle(i, flags, layout)),
           \/ request' = request
           \/ \E r : request' = [request EXCEPT ![m] = r] /\ r.at # "reload"
    PROVE  WritesQuiet
<1>1. PICK h : h = NewHandle(i, flags, layout)
    OBVIOUS
<1>2. NoWrites(h)
    BY <1>1 DEF NewHandle, NoWrites
<1>3. PICK id : id = next_handle_id[m]
    OBVIOUS
<1>4. PICK t : t = Emplace(handles[m], id, h)
    OBVIOUS
<1>5. handles' = [handles EXCEPT ![m] = t]
    BY <1>1, <1>3, <1>4 DEF AllocateFileHandle
<1>6. id \notin DOMAIN handles[m]
    <2>1. \A fh \in DOMAIN handles[m] : fh \in Nat /\ fh < next_handle_id[m]
        BY DEF FuseInv, MountsOK, MountOK
    <2> QED BY <1>3, <2>1
<1>7. TableQuiet(t, handles[m])
    BY <1>2, <1>4, <1>6 DEF TableQuiet, SameWrites, Emplace
<1> QED BY <1>5, <1>7, TableChanges

\* create, open, opendir.
LEMMA OpenQuiet ==
    ASSUME FuseInv, NEW m \in Mounts, OpenStep(m)
    PROVE  WritesQuiet
<1>0. Idle.at # "reload"
    BY DEF Idle
<1>1. ASSUME NEW p \in InodeIds, NEW n \in AnyName, NEW flags \in Flags, PulpfsCreate(m, p, n, flags)
      PROVE  WritesQuiet
    <2>1. PICK r : r = [at |-> "created", flags |-> flags, inode_id |-> next_inode_id]
        OBVIOUS
    <2>2. r.at # "reload" /\ handles' = handles
        BY <1>1, <2>1 DEF PulpfsCreate
    <2>3. request' = request \/ request' = [request EXCEPT ![m] = r]
        BY <1>1, <2>1 DEF PulpfsCreate
    <2> QED BY <2>2, <2>3, HandlesStay
<1>2. CASE Created(m)
    BY <1>0, <1>2, AllocateQuiet DEF Created
<1>3. ASSUME NEW i \in InodeIds, NEW flags \in Flags, PulpfsOpen(m, i, flags)
      PROVE  WritesQuiet
    <2>1. CASE Truncates(flags)
        <3>1. PICK r : r = [at |-> "truncate", flags |-> flags, inode_id |-> i]
            OBVIOUS
        <3>2. r.at # "reload" /\ handles' = handles /\ request' = [request EXCEPT ![m] = r]
            BY <1>3, <2>1, <3>1 DEF PulpfsOpen
        <3> QED BY <3>2, HandlesStay
    <2>2. CASE ~Truncates(flags)
        BY <1>3, <2>2, AllocateQuiet DEF PulpfsOpen
    <2> QED BY <2>1, <2>2
<1>4. CASE OpenTruncate(m)
    <2>1. PICK r : r = [request[m] EXCEPT !.at = "truncated"]
        OBVIOUS
    <2>2. r.at # "reload"
        <3>1. request[m] \in OpenRequest
            BY <1>4, OpenRequestIs DEF OpenTruncate
        <3> QED BY <2>1, <3>1 DEF OpenRequest
    <2>3. handles' = handles
        BY <1>4 DEF OpenTruncate
    <2>4. request' = [request EXCEPT ![m] = r] \/ request' = [request EXCEPT ![m] = Idle]
        BY <1>4, <2>1 DEF OpenTruncate
    <2> QED BY <1>0, <2>2, <2>3, <2>4, HandlesStay
<1>5. CASE OpenTruncated(m)
    BY <1>0, <1>5, AllocateQuiet, HandlesStay DEF OpenTruncated
<1>6. ASSUME NEW i \in DirsOpened, PulpfsOpenDir(m, i) PROVE WritesQuiet
    BY <1>6, HandlesStay DEF PulpfsOpenDir
<1> QED BY <1>1, <1>2, <1>3, <1>4, <1>5, <1>6 DEF OpenStep

\* The reply to flush, fsync, release or releasedir.
LEMMA ReplyQuiet ==
    ASSUME FuseInv, NEW m \in Mounts, NEW fh, NEW op, NEW table, Reply(m, fh, op, table),
           DOMAIN table = DOMAIN handles[m],
           \A x \in DOMAIN table : SameWrites(table[x], handles[m][x])
    PROVE  WritesQuiet
<1>1. PICK t : t = IF op = "flush" THEN table ELSE Erase(table, fh)
    OBVIOUS
<1>2. handles' = [handles EXCEPT ![m] = t] /\ request' = [request EXCEPT ![m] = Idle]
    BY <1>1 DEF Reply
<1>3. TableQuiet(t, handles[m])
    BY <1>1 DEF TableQuiet, Erase
<1>4. Idle.at # "reload"
    BY DEF Idle
<1> QED BY <1>2, <1>3, <1>4, TableChanges

\* flush, fsync, release and releasedir up to the first RPC.
LEMMA CommitQuiet ==
    ASSUME FuseInv, NEW m \in Mounts, NEW fh, NEW op, CommitHandle(m, fh, op)
    PROVE  WritesQuiet \/ Accepted(m, fh, op)
<1>1. \A x \in DOMAIN handles[m] : SameWrites(handles[m][x], handles[m][x])
    BY DEF SameWrites
<1>2. CASE Reply(m, fh, op, handles[m])
    BY <1>1, <1>2, ReplyQuiet
<1>3. CASE ~Reply(m, fh, op, handles[m])
    BY <1>3 DEF CommitHandle, NotCommitted, Accepted
<1> QED BY <1>2, <1>3

\* The GetLayout that follows a commit.
LEMMA ReloadQuiet ==
    ASSUME FuseInv, NEW m \in Mounts, Reload(m)
    PROVE  WritesQuiet
<1>1. PICK r : r = request[m]
    OBVIOUS
<1>2. PICK fh, i : fh = r.fh /\ i = handles[m][fh].inode_id
    OBVIOUS
<1>3. PICK table : /\ Reply(m, fh, r.op, table)
                   /\ \/ table = handles[m]
                      \/ table = [handles[m] EXCEPT ![fh].layout = GetLayout(i)]
    BY <1>1, <1>2 DEF Reload
<1>4. \A x \in DOMAIN handles[m] : handles[m][x] \in Handle
    BY DEF FuseInv, MountsOK, MountOK, HandleOK
<1>5. DOMAIN table = DOMAIN handles[m]
    BY <1>3
<1>6. ASSUME NEW x \in DOMAIN table PROVE SameWrites(table[x], handles[m][x])
    <2>1. PICK h, layout : h = handles[m][x] /\ layout = GetLayout(i)
        OBVIOUS
    <2>2. h \in Handle
        BY <1>4, <1>5, <2>1
    <2>3. table[x] = h \/ table[x] = [h EXCEPT !.layout = layout]
        BY <1>3, <2>1
    <2>4. SameWrites([h EXCEPT !.layout = layout], h)
        BY <2>2 DEF SameWrites, Handle
    <2> QED BY <2>1, <2>3, <2>4 DEF SameWrites
<1> QED BY <1>3, <1>5, <1>6, ReplyQuiet

\* Every step.
LEMMA StepWrites ==
    ASSUME FuseInv, [FuseNext]_fuseVars
    PROVE  \/ WritesQuiet
           \/ \E m \in Mounts : \E fh, op : Accepted(m, fh, op)
           \/ \E m \in Mounts : \E fh \in files_open[m], off \in Offsets, len \in Lengths :
                  PulpfsWrite(m, fh, off, len)
<1>0. Idle.at # "reload"
    BY DEF Idle
<1>1. CASE ApplyLate \/ UNCHANGED fuseVars
    <2>1. handles' = handles /\ request' = request
        BY <1>1 DEF ApplyLate, fuseVars, client
    <2> QED BY <2>1, HandlesStay
<1>2. ASSUME NEW m \in Mounts, FileIoStep(m), WritesQuiet => FALSE
      PROVE  \/ \E fh, op : Accepted(m, fh, op)
             \/ \E fh \in files_open[m], off \in Offsets, len \in Lengths :
                    PulpfsWrite(m, fh, off, len)
    BY <1>2, CommitQuiet, ReloadQuiet
       DEF FileIoStep, PulpfsFlush, PulpfsRelease, PulpfsReleaseDir
<1>3. ASSUME NEW m \in Mounts, PulpfsNamespace(m) PROVE WritesQuiet
    <2>1. handles' = handles /\ request' = request
        BY <1>3 DEF PulpfsNamespace, client
    <2> QED BY <2>1, HandlesStay
<1>4. ASSUME NEW m \in Mounts, SetAttrRest(m) PROVE WritesQuiet
    <2>1. handles' = handles /\ request' = [request EXCEPT ![m] = Idle]
        BY <1>4 DEF SetAttrRest
    <2> QED BY <1>0, <2>1, HandlesStay
<1>5. ASSUME NEW m \in Mounts, NEW i \in InodeIds, PulpfsSetAttr(m, i) PROVE WritesQuiet
    <2>1. PICK r : r = [at |-> "setattr", inode_id |-> i]
        OBVIOUS
    <2>2. r.at # "reload" /\ handles' = handles
        BY <1>5, <2>1 DEF PulpfsSetAttr
    <2>3. request' = request \/ request' = [request EXCEPT ![m] = r]
        BY <1>5, <2>1 DEF PulpfsSetAttr
    <2> QED BY <2>2, <2>3, HandlesStay
<1>6. ASSUME NEW m \in Mounts, Restart(m) PROVE WritesQuiet
    <2>1. PICK t : t = [fh \in {} |-> 0]
        OBVIOUS
    <2>2. handles' = [handles EXCEPT ![m] = t] /\ request' = [request EXCEPT ![m] = Idle]
        BY <1>6, <2>1 DEF Restart
    <2>3. TableQuiet(t, handles[m])
        BY <2>1 DEF TableQuiet
    <2> QED BY <1>0, <2>2, <2>3, TableChanges
<1> QED BY <1>1, <1>2, <1>3, <1>4, <1>5, <1>6, OpenQuiet DEF FuseNext

-----------------------------------------------------------------------------
(***************************************************************************)
(* The appends that wait in a handle follow one another from 0.            *)
(***************************************************************************)
\* The offsets that PulpfsWrite takes from pending_append_length leave no byte
\* out and give no byte twice, up to that length.
AppendsFollow(h) ==
    LET es == h.pending_append_extents
        n  == h.pending_append_length
    IN  /\ \A k \in 1 .. Len(es) : ExtentEnd(es[k]) <= n
        /\ \A k, l \in 1 .. Len(es) : k < l => ExtentEnd(es[k]) <= es[l].offset
        /\ \A b \in Nat : b < n => \E k \in 1 .. Len(es) : Covers(es[k], b)

AppendInv == \A m \in Mounts : \A fh \in DOMAIN handles[m] : AppendsFollow(handles[m][fh])

\* Nothing waits.
LEMMA NoneFollow ==
    ASSUME NEW h, NoWrites(h)
    PROVE  AppendsFollow(h)
BY DEF NoWrites, AppendsFollow

\* One more write.
LEMMA OneMoreFollows ==
    ASSUME NEW h \in Handle, AppendsFollow(h), NEW e \in Extent,
           h.append => e.offset = h.pending_append_length, NEW ok \in BOOLEAN
    PROVE  AppendsFollow(AfterPut(h, e, ok))
<1>1. CASE ~ok
    BY <1>1 DEF AfterPut
<1>2. CASE ok /\ ~h.append
    <2>1. PICK g : g = WithPending(h, e)
        OBVIOUS
    <2>2. /\ g.pending_append_extents = h.pending_append_extents
          /\ g.pending_append_length = h.pending_append_length
        BY <1>2, <2>1 DEF WithPending, Handle
    <2>3. AppendsFollow(g)
        BY <2>2 DEF AppendsFollow
    <2> QED BY <1>2, <2>1, <2>3 DEF AfterPut
<1>3. CASE ok /\ h.append
    <2>1. PICK g : g = WithPending(h, e)
        OBVIOUS
    <2>2. PICK es, n : es = h.pending_append_extents /\ n = h.pending_append_length
        OBVIOUS
    <2>3. /\ g.pending_append_extents = Append(es, e)
          /\ g.pending_append_length = n + e.length
        BY <1>3, <2>1, <2>2 DEF WithPending, Handle
    <2>4. /\ es \in Seq(Extent) /\ n \in Nat /\ Len(es) \in Nat
          /\ e.length \in Nat /\ e.offset = n /\ ExtentEnd(e) = n + e.length
        BY <1>3, <2>2 DEF Handle, Extent, ExtentEnd
    <2>5. PICK fs : fs = Append(es, e)
        OBVIOUS
    <2>6. /\ Len(fs) = Len(es) + 1 /\ fs[Len(es) + 1] = e
          /\ \A k \in 1 .. Len(es) : fs[k] = es[k]
        BY <2>4, <2>5
    <2>7. /\ \A k \in 1 .. Len(es) : ExtentEnd(es[k]) <= n
          /\ \A k, l \in 1 .. Len(es) : k < l => ExtentEnd(es[k]) <= es[l].offset
          /\ \A b \in Nat : b < n => \E k \in 1 .. Len(es) : Covers(es[k], b)
        BY <2>2 DEF AppendsFollow
    <2>8. \A k \in 1 .. Len(es) : ExtentEnd(es[k]) \in Nat
        <3>1. \A k \in 1 .. Len(es) : es[k] \in Extent
            BY <2>4
        <3> QED BY <3>1 DEF Extent, ExtentEnd
    <2>9. ASSUME NEW k \in 1 .. Len(fs) PROVE ExtentEnd(fs[k]) <= n + e.length
        <3>1. CASE k = Len(es) + 1
            BY <2>4, <2>6, <3>1
        <3>2. CASE k # Len(es) + 1
            <4>1. k \in 1 .. Len(es)
                BY <2>4, <2>6, <3>2
            <4> QED BY <2>4, <2>6, <2>7, <2>8, <4>1
        <3> QED BY <3>1, <3>2
    <2>10. ASSUME NEW k \in 1 .. Len(fs), NEW l \in 1 .. Len(fs), k < l
           PROVE  ExtentEnd(fs[k]) <= fs[l].offset
        <3>1. k \in 1 .. Len(es)
            BY <2>4, <2>6, <2>10
        <3>2. CASE l = Len(es) + 1
            BY <2>4, <2>6, <2>7, <3>1, <3>2
        <3>3. CASE l # Len(es) + 1
            <4>1. l \in 1 .. Len(es)
                BY <2>4, <2>6, <3>3
            <4> QED BY <2>6, <2>7, <2>10, <3>1, <4>1
        <3> QED BY <3>2, <3>3
    <2>11. ASSUME NEW b \in Nat, b < n + e.length
           PROVE  \E k \in 1 .. Len(fs) : Covers(fs[k], b)
        <3>1. CASE b < n
            <4>1. PICK k \in 1 .. Len(es) : Covers(es[k], b)
                BY <2>7, <3>1
            <4>2. k \in 1 .. Len(fs) /\ Covers(fs[k], b)
                BY <2>4, <2>6, <4>1
            <4> QED BY <4>2
        <3>2. CASE ~(b < n)
            <4>1. Covers(e, b) /\ Len(es) + 1 \in 1 .. Len(fs)
                BY <2>4, <2>6, <2>11, <3>2 DEF Covers
            <4> QED BY <2>6, <4>1
        <3> QED BY <3>1, <3>2
    <2>12. AppendsFollow(g)
        BY <2>3, <2>5, <2>9, <2>10, <2>11 DEF AppendsFollow
    <2> QED BY <1>3, <2>1, <2>12 DEF AfterPut
<1> QED BY <1>1, <1>2, <1>3

\* A write that made extent e, under a new key that tells its offset; ok is the
\* outcome of the put.
Wrote(m, fh, h, e, ok) ==
    /\ handles' = [handles EXCEPT ![m][fh] = AfterPut(h, e, ok)]
    /\ ValidExtent(e) /\ e.key \notin DOMAIN objects
    /\ e.key[5] = e.offset /\ e.object_offset = 0
    /\ h.append => e.offset = h.pending_append_length
    /\ IF ok THEN NoCallFails ELSE CallFails

\* What a put does to the table, and the extent it makes.
LEMMA WriteIs ==
    ASSUME FuseInv, KeysOfWrites, NEW m \in Mounts, NEW fh, NEW off \in Offsets, NEW len \in Lengths,
           PulpfsWrite(m, fh, off, len), NEW h, h = handles[m][fh]
    PROVE  /\ fh \in DOMAIN handles[m] /\ h \in Handle /\ UNCHANGED vars /\ request' = request
           /\ \E e \in Extent, ok \in BOOLEAN : Wrote(m, fh, h, e, ok)
<1>1. PICK offset : offset = IF h.append THEN h.pending_append_length ELSE off
    OBVIOUS
<1>2. PICK i : i = h.inode_id
    OBVIOUS
<1>3. PICK key : key = MakeObjectKey(m, i, offset)
    OBVIOUS
<1>4. PICK e : e = [offset |-> offset, length |-> len, key |-> key, object_offset |-> 0]
    OBVIOUS
<1>5. PICK ok \in BOOLEAN :
          /\ IF ok THEN NoCallFails ELSE CallFails
          /\ handles' = [handles EXCEPT ![m][fh] = AfterPut(h, e, ok)]
    BY <1>1, <1>2, <1>3, <1>4 DEF PulpfsWrite
<1>6. fh \in DOMAIN handles[m] /\ UNCHANGED vars /\ request' = request
    BY DEF PulpfsWrite
<1>7. h \in Handle
    BY <1>6, TableNow DEF TableOK, HandleOK
<1>8. offset \in Nat /\ i \in Nat /\ len \in Nat /\ len # 0
    BY <1>1, <1>2, <1>7, FuseAssumption DEF Handle
<1>9. key \in Nat \X Mounts \X Nat \X Nat \X Nat /\ key \notin DOMAIN objects
    BY <1>3, <1>8, NewKey
<1>10. key \in Keys /\ key # NoKey
    BY <1>9, NoKeyIsNoKey DEF KeysOfWrites
<1>11. e \in Extent /\ ValidExtent(e)
    BY <1>4, <1>8, <1>10 DEF Extent, ValidExtent
<1>12. key[5] = offset
    BY <1>3 DEF MakeObjectKey
<1>13. Wrote(m, fh, h, e, ok)
    BY <1>1, <1>4, <1>5, <1>9, <1>11, <1>12 DEF Wrote
<1> QED BY <1>6, <1>7, <1>11, <1>13

\* No handle is open at the start.
LEMMA AppendInvInit == FuseInit => AppendInv
BY DEF FuseInit, AppendInv

\* A write puts its extent at the end of the pending appends, a commit takes all.
LEMMA AppendInvStep ==
    ASSUME FuseInv, AppendInv, KeysOfWrites, [FuseNext]_fuseVars
    PROVE  AppendInv'
<1>0. DOMAIN handles = Mounts
    BY DEF FuseInv, MountsOK
<1>1. SUFFICES ASSUME NEW m \in Mounts, NEW fh \in DOMAIN handles'[m]
               PROVE  AppendsFollow(handles'[m][fh])
    BY DEF AppendInv
<1>2. fh \in DOMAIN handles[m] => AppendsFollow(handles[m][fh])
    BY DEF AppendInv
<1>3. CASE WritesQuiet
    <2>1. CASE fh \in DOMAIN handles[m]
        <3>1. PICK g, h : g = handles'[m][fh] /\ h = handles[m][fh]
            OBVIOUS
        <3>2. SameWrites(g, h)
            BY <1>3, <2>1, <3>1 DEF WritesQuiet, TableQuiet
        <3>3. AppendsFollow(h)
            BY <1>2, <2>1, <3>1
        <3>4. AppendsFollow(g)
            BY <3>2, <3>3 DEF AppendsFollow, SameWrites
        <3> QED BY <3>1, <3>4
    <2>2. CASE fh \notin DOMAIN handles[m]
        <3>1. PICK g : g = handles'[m][fh]
            OBVIOUS
        <3>2. NoWrites(g)
            BY <1>3, <2>2, <3>1 DEF WritesQuiet, TableQuiet
        <3> QED BY <3>1, <3>2, NoneFollow
    <2> QED BY <2>1, <2>2
<1>4. ASSUME NEW n \in Mounts, NEW gh \in DOMAIN handles[n], NEW g, AppendsFollow(g),
             handles' = [handles EXCEPT ![n][gh] = g]
      PROVE  AppendsFollow(handles'[m][fh])
    <2>1. CASE m = n /\ fh = gh
        <3>1. handles'[m][fh] = g
            BY <1>0, <1>4, <2>1
        <3> QED BY <1>4, <3>1
    <2>2. CASE ~(m = n /\ fh = gh)
        <3>1. fh \in DOMAIN handles[m] /\ handles'[m][fh] = handles[m][fh]
            BY <1>0, <1>4, <2>2
        <3> QED BY <1>2, <3>1
    <2> QED BY <2>1, <2>2
<1>5. ASSUME NEW n \in Mounts, NEW gh, NEW op, Accepted(n, gh, op)
      PROVE  AppendsFollow(handles'[m][fh])
    <2>1. PICK h : h = handles[n][gh]
        OBVIOUS
    <2>2. gh \in DOMAIN handles[n] /\ handles' = [handles EXCEPT ![n][gh] = Committed(h)]
        BY <1>5, <2>1 DEF Accepted, HasPending
    <2>3. h \in Handle
        BY <2>1, <2>2, TableNow DEF TableOK, HandleOK
    <2>4. NoWrites(Committed(h))
        BY <2>3 DEF NoWrites, Committed, Handle
    <2> QED BY <1>4, <2>2, <2>4, NoneFollow
<1>6. ASSUME NEW n \in Mounts, NEW gh, NEW off \in Offsets, NEW len \in Lengths,
             PulpfsWrite(n, gh, off, len)
      PROVE  AppendsFollow(handles'[m][fh])
    <2>1. PICK h : h = handles[n][gh]
        OBVIOUS
    <2>2. gh \in DOMAIN handles[n] /\ h \in Handle
        BY <1>6, <2>1, WriteIs
    <2>3. PICK e \in Extent, ok \in BOOLEAN : Wrote(n, gh, h, e, ok)
        BY <1>6, <2>1, WriteIs
    <2>4. AppendsFollow(h) /\ (h.append => e.offset = h.pending_append_length)
        BY <2>1, <2>2, <2>3 DEF AppendInv, Wrote
    <2>5. AppendsFollow(AfterPut(h, e, ok))
        BY <2>2, <2>4, OneMoreFollows
    <2>6. handles' = [handles EXCEPT ![n][gh] = AfterPut(h, e, ok)]
        BY <2>3 DEF Wrote
    <2> QED BY <1>4, <2>2, <2>5, <2>6
<1> QED BY <1>3, <1>5, <1>6, StepWrites

-----------------------------------------------------------------------------
(***************************************************************************)
(* The three promises about a commit.                                      *)
(***************************************************************************)
\* A mount that comes to wait for the layout after a commit has had that commit
\* accepted in this step.
LEMMA CommitsIs ==
    ASSUME FuseInv, KeysOfWrites, [FuseNext]_fuseVars, NEW m \in Mounts, Commits(m)
    PROVE  \E op : Accepted(m, request'[m].fh, op)
<1>0. request[m] = Idle /\ request'[m].at = "reload" /\ DOMAIN request = Mounts
    BY DEF Commits, FuseInv, MountsOK
<1>1. CASE WritesQuiet
    BY <1>0, <1>1 DEF WritesQuiet
<1>2. ASSUME NEW n \in Mounts, NEW fh, NEW op, Accepted(n, fh, op)
      PROVE  \E o : Accepted(m, request'[m].fh, o)
    <2>1. request' = [request EXCEPT ![n] = [at |-> "reload", fh |-> fh, op |-> op]]
        BY <1>2 DEF Accepted
    <2>2. n = m
        BY <1>0, <2>1 DEF Idle
    <2>3. request'[m].fh = fh
        BY <1>0, <2>1, <2>2
    <2> QED BY <1>2, <2>2, <2>3
<1>3. ASSUME NEW n \in Mounts, NEW fh, NEW off \in Offsets, NEW len \in Lengths,
             PulpfsWrite(n, fh, off, len)
      PROVE  FALSE
    <2>1. request' = request
        BY <1>3 DEF PulpfsWrite
    <2> QED BY <1>0, <2>1 DEF Idle
<1> QED BY <1>1, <1>2, <1>3, StepWrites

\* What an accepted commit does to the file: nothing waits in the other list,
\* and the batch is merged as it is, or behind the end of the file.
LEMMA AcceptedIs ==
    ASSUME FuseInv, NEW m \in Mounts, NEW fh, NEW op, Accepted(m, fh, op),
           NEW h, h = handles[m][fh], NEW i, i = h.inode_id
    PROVE  /\ fh \in DOMAIN handles[m] /\ HandleOK(h, inodes, layouts, next_inode_id)
           /\ i \in DOMAIN inodes /\ i \in DOMAIN layouts /\ inodes[i].size \in Nat
           /\ layouts[i].extents \in SUBSET Extent
           /\ IF h.append
              THEN LET es == h.pending_append_extents
                   IN  /\ es \in Seq(Extent) /\ es # <<>> /\ h.pending_extents = <<>>
                       /\ FileChange(i, inodes[i].size + BatchEnd(es),
                              MergeFirst(layouts[i].extents, ShiftBatch(es, inodes[i].size), Len(es)))
              ELSE LET es == h.pending_extents
                   IN  /\ es \in Seq(Extent) /\ es # <<>> /\ h.pending_append_extents = <<>>
                       /\ FileChange(i, LargerOf(inodes[i].size, BatchEnd(es)),
                              MergeFirst(layouts[i].extents, es, Len(es)))
<1>1. fh \in DOMAIN handles[m] /\ CommitCommand(h).extents # <<>> /\ result' = "Ok"
    BY DEF Accepted, HasPending
<1>2. HandleOK(h, inodes, layouts, next_inode_id)
    BY <1>1, TableNow DEF TableOK
<1>3. IF h.append THEN AppendChange(i, h.pending_append_extents)
                  ELSE CommitChange(i, h.pending_extents)
    BY <1>1, CommitAnswer DEF Accepted
<1>4. /\ i \in DOMAIN inodes /\ i \in DOMAIN layouts
      /\ inodes \in [DOMAIN inodes -> AttrsI] /\ layouts \in [DOMAIN layouts -> LayoutI]
    BY <1>3 DEF AppendChange, CommitChange, FileChange, FuseInv, MetaInv, TypeI
<1>5. inodes[i].size \in Nat /\ layouts[i].extents \in SUBSET Extent
    BY <1>4 DEF AttrsI, LayoutI
<1>6. CASE h.append
    <2>1. h.pending_append_extents # <<>>
        BY <1>1, <1>6 DEF CommitCommand, AppendWriteCommand
    <2> QED BY <1>1, <1>2, <1>3, <1>4, <1>5, <1>6, <2>1 DEF HandleOK, GoodBatch, AppendChange
<1>7. CASE ~h.append
    <2>1. h.pending_extents # <<>>
        BY <1>1, <1>7 DEF CommitCommand, CommitWriteCommand
    <2> QED BY <1>1, <1>2, <1>3, <1>4, <1>5, <1>7, <2>1 DEF HandleOK, GoodBatch, CommitChange
<1> QED BY <1>6, <1>7

\* A shifted extent covers a shifted byte.
LEMMA ShiftCovers ==
    ASSUME NEW es \in Seq(Extent), NEW start \in Nat, NEW sh, sh = ShiftBatch(es, start),
           NEW k \in 1 .. Len(es), NEW b \in Nat
    PROVE  Covers(sh[k], start + b) <=> Covers(es[k], b)
<1>1. sh[k].offset = start + es[k].offset /\ sh[k].length = es[k].length
    BY ShiftBatchIs
<1>2. es[k] \in Extent
    OBVIOUS
<1>3. es[k].offset \in Nat /\ es[k].length \in Nat
    BY <1>2 DEF Extent
<1> QED BY <1>1, <1>3 DEF Covers, ExtentEnd

\* Each byte that an append adds to the file is behind an extent of the batch.
LEMMA CommitLeavesNoHole ==
    ASSUME FuseInv, AppendInv, NEW m \in Mounts, NEW fh, NEW op, Accepted(m, fh, op),
           NEW h, h = handles[m][fh], NEW i, i = h.inode_id, h.append,
           NEW b \in inodes[i].size .. inodes'[i].size - 1
    PROVE  CellsAt(layouts'[i].extents, b) # {}
<1>1. PICK es, start, stored, sh :
          /\ es = h.pending_append_extents /\ start = inodes[i].size
          /\ stored = layouts[i].extents /\ sh = ShiftBatch(es, start)
    OBVIOUS
<1>2. /\ fh \in DOMAIN handles[m] /\ start \in Nat /\ stored \in SUBSET Extent
      /\ es \in Seq(Extent)
      /\ FileChange(i, start + BatchEnd(es), MergeFirst(stored, sh, Len(es)))
    BY <1>1, AcceptedIs
<1>3. /\ inodes'[i].size = start + BatchEnd(es)
      /\ layouts'[i].extents = MergeFirst(stored, sh, Len(es))
    BY <1>2, FileChangeIs DEF FuseInv
<1>4. /\ BatchEnd(es) \in Nat
      /\ BatchEnd(es) \in {0} \cup {ExtentEnd(es[k]) : k \in 1 .. Len(es)}
    BY <1>2, BatchEndIs
<1>5. AppendsFollow(h) /\ h \in Handle
    BY <1>2, TableNow DEF AppendInv, TableOK, HandleOK
<1>6. BatchEnd(es) <= h.pending_append_length /\ h.pending_append_length \in Nat
    BY <1>1, <1>4, <1>5 DEF AppendsFollow, Handle
<1>7. PICK c \in Nat : b = start + c /\ c < h.pending_append_length
    <2>1. inodes[i].size = start /\ inodes'[i].size = start + BatchEnd(es)
        BY <1>1, <1>3
    <2>2. PICK end \in Nat : end = BatchEnd(es)
        BY <1>4
    <2>3. b - start \in Nat /\ b - start < end /\ b = start + (b - start)
        BY <1>2, <2>1, <2>2
    <2>4. b - start < h.pending_append_length
        BY <1>6, <2>2, <2>3
    <2> QED BY <2>3, <2>4
<1>8. PICK k \in 1 .. Len(es) : Covers(es[k], c)
    BY <1>1, <1>5, <1>7 DEF AppendsFollow
<1>9. sh \in Seq(Extent) /\ Len(sh) = Len(es)
    BY <1>1, <1>2, ShiftBatchIs
<1>10. Covers(sh[k], b)
    BY <1>1, <1>2, <1>7, <1>8, ShiftCovers
<1>11. b \in Nat
    BY <1>2, <1>7
<1> QED BY <1>2, <1>3, <1>8, <1>9, <1>10, <1>11, CoveredIsStored

\* One step of AppendLeavesNoHole.
LEMMA NoHoleStep ==
    ASSUME FuseInv, AppendInv, KeysOfWrites, [FuseNext]_fuseVars, NEW m \in Mounts, Commits(m)
    PROVE  LET h == handles[m][request'[m].fh]
               i == h.inode_id
           IN  h.append => \A b \in inodes[i].size .. inodes'[i].size - 1 :
                               CellsAt(layouts'[i].extents, b) # {}
<1>1. PICK fh, op : fh = request'[m].fh /\ Accepted(m, fh, op)
    BY CommitsIs
<1>2. PICK h, i : h = handles[m][fh] /\ i = h.inode_id
    OBVIOUS
<1>3. h.append => \A b \in inodes[i].size .. inodes'[i].size - 1 :
                       CellsAt(layouts'[i].extents, b) # {}
    BY <1>1, <1>2, CommitLeavesNoHole
<1> QED BY <1>1, <1>2, <1>3

\* The appends of every handle follow one another, whatever failed, was written
\* by others or was committed before.
THEOREM AppendsStayInLine == KeysOfWrites /\ FuseSpec => []AppendInv
<1> DEFINE I == FuseInv /\ AppendInv /\ KeysOfWrites
<1>1. KeysOfWrites /\ FuseInit => I
    BY FuseInvInit, AppendInvInit
<1>2. I /\ [FuseNext]_fuseVars => I'
    <2>1. KeysOfWrites => KeysOfWrites'
        BY DEF KeysOfWrites
    <2> QED BY <2>1, FuseInvStep, AppendInvStep
<1>3. I => AppendInv
    OBVIOUS
<1> QED BY <1>1, <1>2, <1>3, PTL DEF FuseSpec

\* An append of several writes, sent when the file may have grown or shrunk, gives
\* every new byte of the file an object byte.
THEOREM AppendsAreGapless == KeysOfWrites /\ FuseSpec => AppendLeavesNoHole
<1>1. FuseInv /\ AppendInv /\ KeysOfWrites /\ [FuseNext]_fuseVars =>
          [\A m \in Mounts : Commits(m) =>
              LET h == handles[m][request'[m].fh]
                  i == h.inode_id
              IN  h.append => \A b \in inodes[i].size .. inodes'[i].size - 1 :
                                  CellsAt(layouts'[i].extents, b) # {}]_fuseVars
    BY NoHoleStep
<1>2. KeysOfWrites => []KeysOfWrites
    <2>1. KeysOfWrites => KeysOfWrites'
        BY DEF KeysOfWrites
    <2> QED BY <2>1, PTL
<1> QED BY <1>1, <1>2, FuseInvariant, AppendsStayInLine, PTL DEF FuseSpec, AppendLeavesNoHole

\* Nothing to shift.
LEMMA ShiftNone ==
    ASSUME NEW start \in Nat
    PROVE  ShiftBatch(<<>>, start) = <<>> /\ BatchEnd(<<>>) = 0
<1>1. <<>> \in Seq(Extent) /\ Len(<<>>) = 0
    OBVIOUS
<1>2. ShiftBatch(<<>>, start) \in Seq(Extent) /\ Len(ShiftBatch(<<>>, start)) = 0
    BY <1>1, ShiftBatchIs
<1>3. BatchEnd(<<>>) \in {0} \cup {ExtentEnd(<<>>[k]) : k \in 1 .. 0}
    BY <1>1, BatchEndIs
<1>4. {ExtentEnd(<<>>[k]) : k \in 1 .. 0} = {}
    OBVIOUS
<1> QED BY <1>2, <1>3, <1>4

\* A shifted batch ends where the batch would, counted from there.
LEMMA ShiftEnd ==
    ASSUME NEW es \in Seq(Extent), es # <<>>, NEW start \in Nat
    PROVE  BatchEnd(ShiftBatch(es, start)) = start + BatchEnd(es)
<1>1. PICK sh : sh = ShiftBatch(es, start)
    OBVIOUS
<1>2. sh \in Seq(Extent) /\ Len(sh) = Len(es) /\ Len(es) \in Nat /\ Len(es) # 0
    BY <1>1, ShiftBatchIs
<1>3. /\ \A k \in 1 .. Len(es) : ExtentEnd(es[k]) <= BatchEnd(es)
      /\ BatchEnd(es) \in {0} \cup {ExtentEnd(es[k]) : k \in 1 .. Len(es)}
      /\ BatchEnd(es) \in Nat
    BY BatchEndIs
<1>4. /\ \A k \in 1 .. Len(sh) : ExtentEnd(sh[k]) <= BatchEnd(sh)
      /\ BatchEnd(sh) \in {0} \cup {ExtentEnd(sh[k]) : k \in 1 .. Len(sh)}
      /\ BatchEnd(sh) \in Nat
    BY <1>2, BatchEndIs
<1>5. ASSUME NEW k \in 1 .. Len(es)
      PROVE  ExtentEnd(es[k]) \in Nat /\ ExtentEnd(sh[k]) = start + ExtentEnd(es[k])
    <2>1. sh[k].offset = start + es[k].offset /\ sh[k].length = es[k].length
        BY <1>1, ShiftBatchIs
    <2>2. es[k] \in Extent
        OBVIOUS
    <2> QED BY <2>1, <2>2 DEF ExtentEnd, Extent
<1>6. BatchEnd(sh) <= start + BatchEnd(es)
    <2>1. CASE BatchEnd(sh) = 0
        BY <1>3, <2>1
    <2>2. ASSUME NEW k \in 1 .. Len(es), BatchEnd(sh) = ExtentEnd(sh[k])
          PROVE  BatchEnd(sh) <= start + BatchEnd(es)
        BY <1>3, <1>5, <2>2
    <2> QED BY <1>2, <1>4, <2>1, <2>2
<1>7. start + BatchEnd(es) <= BatchEnd(sh)
    <2>1. ASSUME NEW k \in 1 .. Len(es), BatchEnd(es) = ExtentEnd(es[k])
          PROVE  start + BatchEnd(es) <= BatchEnd(sh)
        BY <1>2, <1>4, <1>5, <2>1
    <2>2. CASE BatchEnd(es) = 0
        <3>1. 1 \in 1 .. Len(es)
            BY <1>2
        <3>2. BatchEnd(es) = ExtentEnd(es[1])
            BY <1>3, <1>5, <2>2, <3>1
        <3> QED BY <2>1, <3>1, <3>2
    <2> QED BY <1>3, <2>1, <2>2
<1> QED BY <1>1, <1>3, <1>4, <1>6, <1>7

\* Of a handle whose layout is the file's, a commit leaves size and bytes as
\* they were read through the handle.
LEMMA CommitKeepsBytes ==
    ASSUME FuseInv, NEW m \in Mounts, NEW fh, NEW op, Accepted(m, fh, op),
           NEW h, h = handles[m][fh], NEW i, i = h.inode_id, h.layout = GetLayout(i)
    PROVE  /\ inodes'[i].size = VisibleSize(h)
           /\ \A b \in 0 .. VisibleSize(h) - 1 :
                  CellsAt(layouts'[i].extents, b) = ReadFromHandle(h, b)
<1>1. PICK start, stored : start = inodes[i].size /\ stored = layouts[i].extents
    OBVIOUS
<1>2. /\ i \in DOMAIN inodes /\ i \in DOMAIN layouts /\ start \in Nat /\ stored \in SUBSET Extent
    BY <1>1, AcceptedIs
<1>3. FileError(i) = "Ok" /\ MetaInv
    <2>1. inodes[i].type = "File" /\ MetaInv
        BY <1>2 DEF FuseInv, MetaInv, LayoutsInSync, IsFile
    <2> QED BY <1>2, <2>1 DEF FileError, IsFile
<1>4. h.layout.attrs.size = start /\ h.layout.extents = stored
    BY <1>1, <1>3, GetLayoutIs
<1>5. CASE h.append
    <2>1. PICK es, sh : es = h.pending_append_extents /\ sh = ShiftBatch(es, start)
        OBVIOUS
    <2>2. /\ es \in Seq(Extent) /\ es # <<>> /\ h.pending_extents = <<>>
          /\ FileChange(i, start + BatchEnd(es), MergeFirst(stored, sh, Len(es)))
        BY <1>1, <1>5, <2>1, AcceptedIs
    <2>3. /\ inodes'[i].size = start + BatchEnd(es)
          /\ layouts'[i].extents = MergeFirst(stored, sh, Len(es))
        BY <1>3, <2>2, FileChangeIs
    <2>4. sh \in Seq(Extent) /\ Len(sh) = Len(es) /\ VisibleAppends(h) = sh
        BY <1>2, <1>4, <2>1, <2>2, ShiftBatchIs DEF VisibleAppends
    <2>5. BatchEnd(sh) = start + BatchEnd(es) /\ BatchEnd(es) \in Nat /\ BatchEnd(<<>>) = 0
        BY <1>2, <2>1, <2>2, ShiftEnd, ShiftNone, BatchEndIs
    <2>6. VisibleSize(h) = start + BatchEnd(es)
        BY <1>2, <1>4, <2>2, <2>4, <2>5 DEF VisibleSize, LargerOf
    <2>7. ASSUME NEW b \in 0 .. VisibleSize(h) - 1
          PROVE  CellsAt(layouts'[i].extents, b) = ReadFromHandle(h, b)
        <3>1. b \in Nat
            BY <1>2, <2>5, <2>6
        <3>2. Len(<<>>) = 0
            OBVIOUS
        <3>3. Overlay(CellsAt(stored, b), <<>>, b) = CellsAt(stored, b)
            BY <3>2, OverlayOnTop
        <3>4. ReadFromHandle(h, b) = Overlay(CellsAt(stored, b), sh, b)
            BY <1>4, <2>2, <2>4, <3>3 DEF ReadFromHandle
        <3> QED BY <1>2, <2>3, <2>4, <3>1, <3>4, MergedIsOverlay
    <2> QED BY <2>3, <2>6, <2>7
<1>6. CASE ~h.append
    <2>1. PICK es : es = h.pending_extents
        OBVIOUS
    <2>2. /\ es \in Seq(Extent) /\ h.pending_append_extents = <<>>
          /\ FileChange(i, LargerOf(start, BatchEnd(es)), MergeFirst(stored, es, Len(es)))
        BY <1>1, <1>6, <2>1, AcceptedIs
    <2>3. /\ inodes'[i].size = LargerOf(start, BatchEnd(es))
          /\ layouts'[i].extents = MergeFirst(stored, es, Len(es))
        BY <1>3, <2>2, FileChangeIs
    <2>4. VisibleAppends(h) = <<>> /\ BatchEnd(<<>>) = 0 /\ BatchEnd(es) \in Nat
        BY <1>2, <1>4, <2>2, ShiftNone, BatchEndIs DEF VisibleAppends
    <2>5. VisibleSize(h) = LargerOf(start, BatchEnd(es)) /\ VisibleSize(h) \in Nat
        BY <1>2, <1>4, <2>1, <2>4 DEF VisibleSize, LargerOf
    <2>6. ASSUME NEW b \in 0 .. VisibleSize(h) - 1
          PROVE  CellsAt(layouts'[i].extents, b) = ReadFromHandle(h, b)
        <3>1. b \in Nat
            BY <2>5
        <3>2. Len(<<>>) = 0
            OBVIOUS
        <3>3. ReadFromHandle(h, b) = Overlay(Overlay(CellsAt(stored, b), es, b), <<>>, b)
            BY <1>4, <2>1, <2>4 DEF ReadFromHandle
        <3>4. ReadFromHandle(h, b) = Overlay(CellsAt(stored, b), es, b)
            BY <3>2, <3>3, OverlayOnTop
        <3> QED BY <1>2, <2>2, <2>3, <3>1, <3>4, MergedIsOverlay
    <2> QED BY <2>3, <2>5, <2>6
<1> QED BY <1>5, <1>6

\* One step of CommitKeepsWhatWasRead.
LEMMA KeepsWhatWasReadStep ==
    ASSUME FuseInv, KeysOfWrites, [FuseNext]_fuseVars, NEW m \in Mounts, Commits(m)
    PROVE  LET h == handles[m][request'[m].fh]
               i == h.inode_id
           IN  h.layout = GetLayout(i) =>
                  /\ inodes'[i].size = VisibleSize(h)
                  /\ \A b \in 0 .. VisibleSize(h) - 1 :
                         CellsAt(layouts'[i].extents, b) = ReadFromHandle(h, b)
<1>1. PICK fh, op : fh = request'[m].fh /\ Accepted(m, fh, op)
    BY CommitsIs
<1>2. PICK h, i : h = handles[m][fh] /\ i = h.inode_id
    OBVIOUS
<1>3. h.layout = GetLayout(i) =>
          /\ inodes'[i].size = VisibleSize(h)
          /\ \A b \in 0 .. VisibleSize(h) - 1 :
                 CellsAt(layouts'[i].extents, b) = ReadFromHandle(h, b)
    BY <1>1, <1>2, CommitKeepsBytes
<1> QED BY <1>1, <1>2, <1>3

\* Reading before close and reading after it agree, for any file, any waiting
\* writes in any order and appends behind any end.
THEOREM CloseKeepsWhatWasRead == KeysOfWrites /\ FuseSpec => CommitKeepsWhatWasRead
<1>1. FuseInv /\ KeysOfWrites /\ [FuseNext]_fuseVars =>
          [\A m \in Mounts : Commits(m) =>
              LET h == handles[m][request'[m].fh]
                  i == h.inode_id
              IN  h.layout = GetLayout(i) =>
                     /\ inodes'[i].size = VisibleSize(h)
                     /\ \A b \in 0 .. VisibleSize(h) - 1 :
                            CellsAt(layouts'[i].extents, b) = ReadFromHandle(h, b)]_fuseVars
    BY KeepsWhatWasReadStep
<1>2. KeysOfWrites => []KeysOfWrites
    <2>1. KeysOfWrites => KeysOfWrites'
        BY DEF KeysOfWrites
    <2> QED BY <2>1, PTL
<1> QED BY <1>1, <1>2, FuseInvariant, PTL DEF FuseSpec, CommitKeepsWhatWasRead

\* What an accepted commit took out of the handle is in the file.
BroughtIn(h, stored) ==
    /\ \A b \in 0 .. BatchEnd(h.pending_extents) - 1 :
           Overlay({}, h.pending_extents, b) \subseteq CellsAt(stored, b)
    /\ \A k \in 1 .. Len(h.pending_append_extents) :
           \E e \in stored : e.key = h.pending_append_extents[k].key

\* What an accepted commit takes out of the handle is in the file after it.
LEMMA CommitBringsWrites ==
    ASSUME FuseInv, AppendInv, NEW m \in Mounts, NEW fh, NEW op, Accepted(m, fh, op),
           NEW h, h = handles[m][fh], NEW stored, stored = layouts'[h.inode_id].extents
    PROVE  BroughtIn(h, stored)
<1>1. PICK i, start, old : i = h.inode_id /\ start = inodes[i].size /\ old = layouts[i].extents
    OBVIOUS
<1>2. /\ fh \in DOMAIN handles[m] /\ HandleOK(h, inodes, layouts, next_inode_id)
      /\ start \in Nat /\ old \in SUBSET Extent /\ MetaInv
    BY <1>1, AcceptedIs DEF FuseInv
<1>3. CASE h.append
    <2>1. PICK es, sh : es = h.pending_append_extents /\ sh = ShiftBatch(es, start)
        OBVIOUS
    <2>2. /\ es \in Seq(Extent) /\ h.pending_extents = <<>>
          /\ FileChange(i, start + BatchEnd(es), MergeFirst(old, sh, Len(es)))
        BY <1>1, <1>3, <2>1, AcceptedIs
    <2>3. stored = MergeFirst(old, sh, Len(es))
        BY <1>1, <1>2, <2>2, FileChangeIs
    <2>4. /\ sh \in Seq(Extent) /\ Len(sh) = Len(es)
          /\ \A k \in 1 .. Len(es) : /\ sh[k].offset = start + es[k].offset
                                     /\ sh[k].length = es[k].length /\ sh[k].key = es[k].key
        BY <1>2, <2>1, <2>2, ShiftBatchIs
    <2>5. BatchEnd(h.pending_extents) = 0
        BY <1>2, <2>2, ShiftNone
    <2>6. \A k, l \in 1 .. Len(es) : k < l => ExtentEnd(es[k]) <= es[l].offset
        BY <1>2, <2>1 DEF AppendInv, AppendsFollow
    <2>7. ASSUME NEW k \in 1 .. Len(es) PROVE \E e \in stored : e.key = es[k].key
        <3>1. PICK b : b = start + es[k].offset
            OBVIOUS
        <3>2. \A l \in 1 .. Len(es) : es[l].offset \in Nat /\ es[l].length \in Nat
            <4>1. \A l \in 1 .. Len(es) : es[l] \in Extent
                BY <2>2
            <4> QED BY <4>1 DEF Extent
        <3>3. es[k].length # 0
            BY <1>2, <2>1 DEF HandleOK, GoodBatch, ValidExtent
        <3>4. b \in Nat /\ Covers(sh[k], b)
            BY <1>2, <2>4, <3>1, <3>2, <3>3 DEF Covers, ExtentEnd
        <3>5. ASSUME NEW l \in k + 1 .. Len(es) PROVE ~Covers(sh[l], b)
            <4>1. l \in 1 .. Len(es) /\ k < l
                BY <3>5
            <4>2. es[k].offset + es[k].length <= es[l].offset
                BY <2>6, <4>1 DEF ExtentEnd
            <4> QED BY <1>2, <2>4, <3>1, <3>2, <3>3, <4>1, <4>2 DEF Covers, ExtentEnd
        <3>6. k \in 1 .. Len(sh) /\ \A l \in k + 1 .. Len(sh) : ~Covers(sh[l], b)
            BY <2>4, <3>5
        <3>7. stored = MergeFirst(old, sh, Len(sh))
            BY <2>3, <2>4
        <3>8. \E e \in MergeFirst(old, sh, Len(sh)) : e.key = sh[k].key
            BY <1>2, <2>4, <3>4, <3>6, CoveredIsStored
        <3> QED BY <2>4, <3>7, <3>8
    <2> QED BY <2>1, <2>5, <2>7 DEF BroughtIn
<1>4. CASE ~h.append
    <2>1. PICK es : es = h.pending_extents
        OBVIOUS
    <2>2. /\ es \in Seq(Extent) /\ h.pending_append_extents = <<>>
          /\ FileChange(i, LargerOf(start, BatchEnd(es)), MergeFirst(old, es, Len(es)))
        BY <1>1, <1>4, <2>1, AcceptedIs
    <2>3. stored = MergeFirst(old, es, Len(es)) /\ BatchEnd(es) \in Nat
        BY <1>1, <1>2, <2>2, FileChangeIs, BatchEndIs
    <2>4. ASSUME NEW b \in 0 .. BatchEnd(es) - 1
          PROVE  Overlay({}, es, b) \subseteq CellsAt(stored, b)
        <3>1. b \in Nat
            BY <2>3
        <3>2. CellsAt(stored, b) = Overlay(CellsAt(old, b), es, b)
            BY <1>2, <2>2, <2>3, <3>1, MergedIsOverlay
        <3> QED BY <3>2, OverlayOnTop
    <2> QED BY <2>1, <2>2, <2>4 DEF BroughtIn
<1> QED BY <1>3, <1>4

\* One step of WritesLeaveByCommit.
LEMMA WritesLeaveStep ==
    ASSUME FuseInv, AppendInv, KeysOfWrites, [FuseNext]_fuseVars,
           NEW m \in Mounts, NEW fh \in DOMAIN handles[m] \cap DOMAIN handles'[m]
    PROVE  LET h == handles[m][fh]
               stored == layouts'[h.inode_id].extents
           IN  ~(Pending(h) \subseteq Pending(handles'[m][fh])) =>
                  /\ \A b \in 0 .. BatchEnd(h.pending_extents) - 1 :
                         Overlay({}, h.pending_extents, b) \subseteq CellsAt(stored, b)
                  /\ \A k \in 1 .. Len(h.pending_append_extents) :
                         \E e \in stored : e.key = h.pending_append_extents[k].key
<1>0. PICK h, g : h = handles[m][fh] /\ g = handles'[m][fh] /\ DOMAIN handles = Mounts
    BY DEF FuseInv, MountsOK
<1>1. ASSUME NEW n \in Mounts, NEW gh, NEW op, Accepted(n, gh, op),
             ~(Pending(h) \subseteq Pending(g))
      PROVE  Accepted(m, fh, op)
    <2>1. PICK k : k = Committed(handles[n][gh])
        OBVIOUS
    <2>2. handles' = [handles EXCEPT ![n][gh] = k]
        BY <1>1, <2>1 DEF Accepted
    <2>3. ~(m = n /\ fh = gh) => g = h
        BY <1>0, <2>2
    <2> QED BY <1>1, <2>3
<1>2. ASSUME NEW n \in Mounts, NEW gh, NEW off \in Offsets, NEW len \in Lengths,
             PulpfsWrite(n, gh, off, len)
      PROVE  Pending(h) \subseteq Pending(g)
    <2>1. PICK x : x = handles[n][gh]
        OBVIOUS
    <2>2. gh \in DOMAIN handles[n]
        BY <1>2, <2>1, WriteIs
    <2>3. PICK e \in Extent, ok \in BOOLEAN : Wrote(n, gh, x, e, ok)
        BY <1>2, <2>1, WriteIs
    <2>4. Pending(x) \subseteq Pending(AfterPut(x, e, ok))
        <3>1. HandleOK(x, inodes, layouts, next_inode_id) /\ ValidExtent(e)
            BY <2>1, <2>2, <2>3, TableNow DEF TableOK, Wrote
        <3> QED BY <3>1, WrittenOK
    <2>5. handles' = [handles EXCEPT ![n][gh] = AfterPut(x, e, ok)]
        BY <2>3 DEF Wrote
    <2>6. PICK y : y = AfterPut(x, e, ok)
        OBVIOUS
    <2>7. IF m = n /\ fh = gh THEN h = x /\ g = y ELSE g = h
        BY <1>0, <2>1, <2>5, <2>6
    <2> QED BY <2>4, <2>6, <2>7
<1>3. Pending(h) \subseteq Pending(g) \/ \E op : Accepted(m, fh, op)
    <2>1. CASE WritesQuiet
        <3>1. SameWrites(g, h)
            BY <1>0, <2>1 DEF WritesQuiet, TableQuiet
        <3> QED BY <3>1 DEF SameWrites, Pending
    <2> QED BY <1>1, <1>2, <2>1, StepWrites
<1>4. PICK stored : stored = layouts'[h.inode_id].extents
    OBVIOUS
<1>5. ASSUME NEW op, Accepted(m, fh, op)
      PROVE  BroughtIn(h, stored)
    BY <1>0, <1>4, <1>5, CommitBringsWrites
<1>6. ~(Pending(h) \subseteq Pending(g)) => BroughtIn(h, stored)
    BY <1>3, <1>5
<1> QED BY <1>0, <1>4, <1>6 DEF BroughtIn

\* No failed call, reload, release of another handle or restart of another mount
\* takes away what waits in an open handle; a commit does, and then it is in the
\* file, or under later writes of the same commit.
THEOREM WritesOnlyLeaveIntoFile == KeysOfWrites /\ FuseSpec => WritesLeaveByCommit
<1>1. FuseInv /\ AppendInv /\ KeysOfWrites /\ [FuseNext]_fuseVars =>
          [\A m \in Mounts : \A fh \in DOMAIN handles[m] \cap DOMAIN handles'[m] :
              LET h == handles[m][fh]
                  stored == layouts'[h.inode_id].extents
              IN  ~(Pending(h) \subseteq Pending(handles'[m][fh])) =>
                     /\ \A b \in 0 .. BatchEnd(h.pending_extents) - 1 :
                            Overlay({}, h.pending_extents, b) \subseteq CellsAt(stored, b)
                     /\ \A k \in 1 .. Len(h.pending_append_extents) :
                            \E e \in stored : e.key = h.pending_append_extents[k].key]_fuseVars
    BY WritesLeaveStep
<1>2. KeysOfWrites => []KeysOfWrites
    <2>1. KeysOfWrites => KeysOfWrites'
        BY DEF KeysOfWrites
    <2> QED BY <2>1, PTL
<1> QED BY <1>1, <1>2, FuseInvariant, AppendsStayInLine, PTL DEF FuseSpec, WritesLeaveByCommit

-----------------------------------------------------------------------------
(***************************************************************************)
(* The place of the bytes of an object in a file.                          *)
(***************************************************************************)
\* The bytes of e come from the object of x and are where x puts them.
Piece(e, x) == e.key = x.key /\ e.offset + x.object_offset = x.offset + e.object_offset

PiecesOf(S, T) == \A e \in S : \E x \in T : Piece(e, x)

\* Cutting twice is cutting once.
LEMMA PieceOfPiece ==
    ASSUME NEW e \in Extent, NEW x \in Extent, NEW y \in Extent, Piece(e, x), Piece(x, y)
    PROVE  Piece(e, y)
BY DEF Piece, Extent

\* An extent is a piece of itself.
LEMMA PiecesOfItself ==
    ASSUME NEW S \in SUBSET Extent, NEW T, S \subseteq T
    PROVE  PiecesOf(S, T)
BY DEF PiecesOf, Piece, Extent

\* MergeExtent cuts extents and moves none.
LEMMA MergePieces ==
    ASSUME NEW stored \in SUBSET Extent, NEW e \in Extent
    PROVE  PiecesOf(MergeExtent(stored, e), stored \cup {e})
<1> SUFFICES ASSUME NEW r \in MergeExtent(stored, e)
             PROVE  \E x \in stored \cup {e} : Piece(r, x)
    BY DEF PiecesOf
<1>1. CASE r = e \/ r \in stored
    <2>1. r \in stored \cup {e} /\ r \in Extent
        BY <1>1
    <2> QED BY <2>1 DEF Piece, Extent
<1>2. ASSUME NEW x \in stored, Overlaps(x, e), r \in Remnants(x, e) PROVE Piece(r, x)
    <2>1. /\ r \in Extent /\ x \in Extent /\ r.key = x.key
          /\ r.object_offset = x.object_offset + (r.offset - x.offset)
        BY <1>2, RemnantIs
    <2> QED BY <2>1 DEF Piece, Extent
<1> QED BY <1>1, <1>2, MergedIs

\* Neither does the loop over a batch.
LEMMA MergeFirstPieces ==
    ASSUME NEW stored \in SUBSET Extent, NEW es \in Seq(Extent), NEW n \in 0 .. Len(es)
    PROVE  PiecesOf(MergeFirst(stored, es, n), stored \cup Members(es))
<1> DEFINE T == stored \cup Members(es)
           P(k) == PiecesOf(MergeFirst(stored, es, k), T)
           S == {k \in Nat : k <= Len(es) => P(k)}
<1>0. Len(es) \in Nat /\ T \in SUBSET Extent
    BY DEF Members
<1>1. 0 \in S
    BY <1>0, MergeFirstStep, PiecesOfItself
<1>2. ASSUME NEW k \in S PROVE k + 1 \in S
    <2> SUFFICES ASSUME k + 1 <= Len(es) PROVE P(k + 1)
        OBVIOUS
    <2> DEFINE M == MergeFirst(stored, es, k)
               e == es[k + 1]
    <2>1. P(k) /\ k \in 0 .. Len(es) /\ k + 1 \in 1 .. Len(es)
        BY <1>0
    <2>2. M \in SUBSET Extent /\ e \in Extent /\ e \in T
        <3>1. M \in SUBSET Extent
            BY <2>1, MergeFirstSafe
        <3> QED BY <2>1, <3>1 DEF Members
    <2>3. MergeFirst(stored, es, k + 1) = MergeExtent(M, e)
        BY <2>1, MergeFirstStep
    <2>4. PiecesOf(M, T)
        BY <2>1
    <2> HIDE DEF M, e, T
    <2>5. ASSUME NEW r \in MergeExtent(M, e) PROVE \E x \in T : Piece(r, x)
        <3>1. r \in Extent
            BY <2>2, MergeExtentType
        <3>2. PICK y \in M \cup {e} : Piece(r, y)
            BY <2>2, MergePieces DEF PiecesOf
        <3>3. CASE y = e
            BY <2>2, <3>2, <3>3
        <3>4. CASE y \in M
            <4>1. PICK x \in T : Piece(y, x)
                BY <2>4, <3>4 DEF PiecesOf
            <4> QED BY <1>0, <2>2, <3>1, <3>2, <3>4, <4>1, PieceOfPiece
        <3> QED BY <3>3, <3>4
    <2> QED BY <2>3, <2>5 DEF PiecesOf
<1> HIDE DEF P
<1>3. S = Nat
    BY <1>1, <1>2, SetInduction
<1>4. P(n)
    BY <1>0, <1>3
<1> QED BY <1>4 DEF P

\* Nor does Truncate.
LEMMA TruncatePieces ==
    ASSUME NEW stored \in SUBSET Extent, NEW size \in Nat
    PROVE  PiecesOf(TruncateExtents(stored, size), stored)
BY TruncateIs DEF PiecesOf, Piece, Extent

\* What the files hold after a step are pieces of what they held before and of E.
FileExtents(i) == IF i \in DOMAIN layouts THEN layouts[i].extents ELSE {}

MetaPieces(E) ==
    \A i \in DOMAIN layouts' : PiecesOf(layouts'[i].extents, FileExtents(i) \cup E)

\* What a layout holds are extents.
LEMMA ExtentsAre ==
    ASSUME MetaInv, NEW i \in DOMAIN layouts
    PROVE  layouts[i].extents \in SUBSET Extent
BY DEF MetaInv, TypeI, LayoutI

\* A step that leaves the extents of each file, or drops them all, moves none.
LEMMA SamePieces ==
    ASSUME MetaInv, NEW E,
           \A i \in DOMAIN layouts' : layouts'[i].extents \in {FileExtents(i), {}}
    PROVE  MetaPieces(E)
<1> SUFFICES ASSUME NEW i \in DOMAIN layouts'
             PROVE  PiecesOf(layouts'[i].extents, FileExtents(i) \cup E)
    BY DEF MetaPieces
<1>1. FileExtents(i) \in SUBSET Extent
    BY ExtentsAre DEF FileExtents
<1>2. layouts'[i].extents \in SUBSET Extent /\ layouts'[i].extents \subseteq FileExtents(i) \cup E
    BY <1>1
<1> QED BY <1>2, PiecesOfItself

\* Creating, removing, renaming and setting a mode move no extent.
LEMMA NamespacePieces ==
    ASSUME MetaInv, NEW E, UNCHANGED state \/ (\E X : NamespaceChange(X)) \/ (\E i : AttrChange(i))
    PROVE  MetaPieces(E)
<1> SUFFICES ASSUME NEW i \in DOMAIN layouts'
             PROVE  layouts'[i].extents \in {FileExtents(i), {}}
    BY SamePieces
<1>1. CASE UNCHANGED state
    BY <1>1 DEF state, FileExtents
<1>2. CASE \E X : NamespaceChange(X)
    BY <1>2 DEF NamespaceChange, FileComes, FileGoes, FileExtents
<1>3. CASE \E j : AttrChange(j)
    BY <1>3 DEF AttrChange, FileExtents
<1> QED BY <1>1, <1>2, <1>3

\* A step that changes one file moves no extent if it moves none of that file.
LEMMA FilePieces ==
    ASSUME MetaInv, NEW E, NEW i, NEW size, NEW extents, FileChange(i, size, extents),
           PiecesOf(extents, layouts[i].extents \cup E)
    PROVE  MetaPieces(E)
<1> SUFFICES ASSUME NEW j \in DOMAIN layouts'
             PROVE  PiecesOf(layouts'[j].extents, FileExtents(j) \cup E)
    BY DEF MetaPieces
<1>1. /\ i \in DOMAIN layouts /\ DOMAIN layouts' = DOMAIN layouts /\ layouts'[i].extents = extents
      /\ j # i => layouts'[j] = layouts[j]
    BY FileChangeIs
<1>2. CASE j = i
    BY <1>1, <1>2 DEF FileExtents
<1>3. CASE j # i
    <2>1. FileExtents(j) = layouts'[j].extents /\ FileExtents(j) \in SUBSET Extent
        BY <1>1, <1>3, ExtentsAre DEF FileExtents
    <2> QED BY <2>1, PiecesOfItself
<1> QED BY <1>2, <1>3

\* The extents of the commands that may still be applied.
LateExtents == UNION {CommandExtents(l.command) : l \in late}

\* What a call leaves behind: an answer, or an error and perhaps a command.
CallEnds ==
    \/ failures' = failures /\ late' \subseteq late
    \/ /\ failures' = failures + 1
       /\ \A l \in late' \ late :
              \/ l.command.op = "truncate"
              \/ \E m \in Mounts : \E fh \in DOMAIN handles[m] : l.command = CommitCommand(handles[m][fh])

\* A step that is no accepted commit: only late commands bring extents into files.
Moves ==
    /\ CallEnds
    /\ (\A l \in late : l.command.op # "append_write") => MetaPieces(LateExtents)

\* The two ends of a call are those of NoCallFails and CallFails.
LEMMA AnsweredOrNot ==
    ASSUME NoCallFails \/ CallFails \/ UNCHANGED <<late, failures>>
    PROVE  CallEnds
BY DEF NoCallFails, CallFails, CallEnds

\* Truncate cuts extents and moves none.
LEMMA TruncateMoves ==
    ASSUME MetaInv, NEW E, NEW i, NEW size \in Nat, Truncate(i, size)
    PROVE  MetaPieces(E)
<1>1. CASE UNCHANGED state
    BY <1>1, NamespacePieces
<1>2. CASE TruncateChange(i, size)
    <2>1. i \in DOMAIN layouts /\ FileChange(i, size, TruncateExtents(layouts[i].extents, size))
        BY <1>2 DEF TruncateChange, FileChange
    <2>2. layouts[i].extents \in SUBSET Extent
        BY <2>1, ExtentsAre
    <2>3. PiecesOf(TruncateExtents(layouts[i].extents, size), layouts[i].extents \cup E)
        BY <2>2, TruncatePieces DEF PiecesOf
    <2> QED BY <2>1, <2>3, FilePieces
<1> QED BY <1>1, <1>2, TruncateEffect

\* CommitWrite moves no extent and brings in those of its batch.
LEMMA CommitMoves ==
    ASSUME MetaInv, NEW i, NEW es, GoodBatch(es), CommitWrite(i, es)
    PROVE  MetaPieces(Members(es))
<1>0. es \in Seq(Extent) /\ \A k \in 1 .. Len(es) : ValidExtent(es[k])
    BY DEF GoodBatch
<1>1. CASE UNCHANGED state
    BY <1>1, NamespacePieces
<1>2. CASE CommitChange(i, es)
    <2>1. PICK size, stored : size = LargerOf(inodes[i].size, BatchEnd(es)) /\ stored = layouts[i].extents
        OBVIOUS
    <2>2. i \in DOMAIN layouts /\ FileChange(i, size, MergeFirst(stored, es, Len(es)))
        BY <1>2, <2>1 DEF CommitChange, FileChange
    <2>3. stored \in SUBSET Extent /\ Len(es) \in 0 .. Len(es)
        BY <1>0, <2>1, <2>2, ExtentsAre
    <2>4. PiecesOf(MergeFirst(stored, es, Len(es)), stored \cup Members(es))
        BY <1>0, <2>3, MergeFirstPieces
    <2> QED BY <2>1, <2>2, <2>4, FilePieces
<1> QED BY <1>0, <1>1, <1>2, WriteEffect

\* A command of a mount that is applied late, unless it appends.
LEMMA CommandMoves ==
    ASSUME MetaInv, NEW c, GoodCommand(c), c.op # "append_write", ApplyCommand(c)
    PROVE  MetaPieces(CommandExtents(c))
<1>1. CASE c.op = "truncate" /\ c.size \in Nat
    BY <1>1, TruncateMoves DEF ApplyCommand
<1>2. CASE c.op = "commit_write" /\ GoodBatch(c.extents)
    <2>1. CommitWrite(c.inode_id, c.extents) /\ CommandExtents(c) = Members(c.extents)
        BY <1>2 DEF ApplyCommand, CommandExtents, Members
    <2> QED BY <1>2, <2>1, CommitMoves
<1> QED BY <1>1, <1>2 DEF GoodCommand

\* More extents may come in than do.
LEMMA WiderPieces ==
    ASSUME NEW E, NEW F, E \subseteq F, MetaPieces(E)
    PROVE  MetaPieces(F)
BY DEF MetaPieces, PiecesOf

\* A late command brings in its own extents.
LEMMA LateMoves ==
    ASSUME FuseInv, ApplyLate
    PROVE  Moves
<1>1. PICK l \in late : ApplyCommand(l.command) /\ late' = late \ {l}
    BY DEF ApplyLate
<1>2. CallEnds
    BY <1>1 DEF ApplyLate, CallEnds
<1>3. ASSUME l.command.op # "append_write" PROVE MetaPieces(LateExtents)
    <2>1. MetaPieces(CommandExtents(l.command))
        BY <1>1, <1>3, CommandMoves DEF FuseInv, LateOK
    <2>2. CommandExtents(l.command) \subseteq LateExtents
        BY DEF LateExtents
    <2> QED BY <2>1, <2>2, WiderPieces
<1> QED BY <1>2, <1>3 DEF Moves

\* A call that changes no metadata.
LEMMA NothingMoves ==
    ASSUME FuseInv, UNCHANGED vars, CallEnds
    PROVE  Moves
<1>1. UNCHANGED state
    BY DEF vars, state
<1> QED BY <1>1, NamespacePieces DEF FuseInv, Moves

\* A namespace request that is answered, or lost.
LEMMA NamespaceMoves ==
    ASSUME FuseInv, NamespaceStep, CallEnds
    PROVE  Moves
<1>1. UNCHANGED state \/ \E X : NamespaceChange(X)
    BY NamespaceEffect DEF FuseInv
<1> QED BY <1>1, NamespacePieces DEF FuseInv, Moves

\* The setattr after the truncate.
LEMMA SetAttrMoves ==
    ASSUME FuseInv, NEW i, NEW mode \in Modes, SetAttr(i, mode), CallEnds
    PROVE  Moves
<1>1. UNCHANGED state \/ AttrChange(i)
    BY AttrEffect DEF FuseInv
<1> QED BY <1>1, NamespacePieces DEF FuseInv, Moves

\* A truncate that is answered, and one that is not.
LEMMA TruncateSent ==
    ASSUME FuseInv, NEW i, NEW size \in Nat, NEW c, c = TruncateCommand(i, size),
           (ApplyCommand(c) /\ NoCallFails) \/ RpcFails(c)
    PROVE  Moves
<1>0. c.op = "truncate" /\ c.inode_id = i /\ c.size = size
    BY DEF TruncateCommand
<1>1. CASE ApplyCommand(c) /\ NoCallFails
    <2>1. Truncate(i, size) /\ CallEnds
        BY <1>0, <1>1, AnsweredOrNot DEF ApplyCommand
    <2> QED BY <2>1, TruncateMoves DEF FuseInv, Moves
<1>2. CASE RpcFails(c)
    <2>1. UNCHANGED vars /\ CallEnds
        BY <1>0, <1>2 DEF RpcFails, CallEnds
    <2> QED BY <2>1, NothingMoves
<1> QED BY <1>1, <1>2

\* A commit that is refused, and one that is not answered.
LEMMA CommitSent ==
    ASSUME FuseInv, NEW m \in Mounts, NEW fh, NEW op, CommitHandle(m, fh, op)
    PROVE  Moves \/ Accepted(m, fh, op)
<1>0. PICK h, c : h = handles[m][fh] /\ c = CommitCommand(h)
    OBVIOUS
<1>1. CASE NoCallFails /\ UNCHANGED vars
    BY <1>1, AnsweredOrNot, NothingMoves
<1>2. CASE HasPending(m, fh) /\ RpcFails(c)
    <2>1. fh \in DOMAIN handles[m] /\ UNCHANGED vars
        BY <1>2 DEF HasPending, RpcFails
    <2>2. CallEnds
        BY <1>0, <1>2, <2>1 DEF RpcFails, CallEnds
    <2> QED BY <2>1, <2>2, NothingMoves
<1>3. CASE HasPending(m, fh) /\ ApplyCommand(c) /\ NoCallFails /\ result' # "Ok"
    <2>1. fh \in DOMAIN handles[m]
        BY <1>3 DEF HasPending
    <2>2. UNCHANGED state
        BY <1>0, <1>3, <2>1, CommitAnswer
    <2>3. CallEnds
        BY <1>3, AnsweredOrNot
    <2> QED BY <2>2, <2>3, NamespacePieces DEF FuseInv, Moves
<1> QED BY <1>0, <1>1, <1>2, <1>3 DEF CommitHandle, Accepted

\* Every step of the mounts, and the puts among them.
LEMMA StepMoves ==
    ASSUME FuseInv, [FuseNext]_fuseVars
    PROVE  Moves \/ \E m \in Mounts : \E fh, op : Accepted(m, fh, op)
<1>1. CASE UNCHANGED fuseVars
    <2>1. UNCHANGED vars /\ UNCHANGED <<late, failures>>
        BY <1>1 DEF fuseVars
    <2> QED BY <2>1, AnsweredOrNot, NothingMoves
<1>2. ASSUME NEW m \in Mounts, OpenStep(m) PROVE Moves
    <2>1. ASSUME NEW p \in InodeIds, NEW n \in AnyName, NEW flags \in Flags,
                 PulpfsCreate(m, p, n, flags)
          PROVE  Moves
        <3>1. NamespaceStep /\ (NoCallFails \/ CallFails)
            BY <2>1 DEF PulpfsCreate, NamespaceStep
        <3> QED BY <3>1, AnsweredOrNot, NamespaceMoves
    <2>2. CASE OpenTruncate(m)
        <3>1. PICK i, c : i = request[m].inode_id /\ c = TruncateCommand(i, 0)
            OBVIOUS
        <3>2. (ApplyCommand(c) /\ NoCallFails) \/ RpcFails(c)
            BY <2>2, <3>1 DEF OpenTruncate
        <3> QED BY <3>1, <3>2, TruncateSent
    <2>3. CASE \/ Created(m) \/ OpenTruncated(m)
               \/ \E i \in InodeIds, flags \in Flags : PulpfsOpen(m, i, flags)
               \/ \E i \in DirsOpened : PulpfsOpenDir(m, i)
        <3>1. UNCHANGED vars /\ (NoCallFails \/ CallFails)
            BY <2>3 DEF Created, OpenTruncated, PulpfsOpen, PulpfsOpenDir, GetLayoutWorks, GetLayoutFails
        <3> QED BY <3>1, AnsweredOrNot, NothingMoves
    <2> QED BY <1>2, <2>1, <2>2, <2>3 DEF OpenStep
<1>3. ASSUME NEW m \in Mounts, FileIoStep(m) PROVE Moves \/ \E fh, op : Accepted(m, fh, op)
    <2>1. ASSUME NEW fh, NEW off \in Offsets, NEW len \in Lengths, PulpfsWrite(m, fh, off, len)
          PROVE  Moves
        <3>1. UNCHANGED vars /\ (NoCallFails \/ CallFails)
            BY <2>1 DEF PulpfsWrite
        <3> QED BY <3>1, AnsweredOrNot, NothingMoves
    <2>2. CASE Reload(m)
        <3>1. UNCHANGED vars /\ (NoCallFails \/ CallFails)
            BY <2>2 DEF Reload, GetLayoutWorks, GetLayoutFails
        <3> QED BY <3>1, AnsweredOrNot, NothingMoves
    <2> QED BY <1>3, <2>1, <2>2, CommitSent
            DEF FileIoStep, PulpfsFlush, PulpfsRelease, PulpfsReleaseDir
<1>4. ASSUME NEW m \in Mounts, PulpfsNamespace(m) PROVE Moves
    <2>1. NamespaceStep /\ UNCHANGED <<late, failures>>
        BY <1>4 DEF PulpfsNamespace, NamespaceStep
    <2> QED BY <2>1, AnsweredOrNot, NamespaceMoves
<1>5. ASSUME NEW m \in Mounts, SetAttrRest(m) PROVE Moves
    <2>1. NoCallFails \/ CallFails
        BY <1>5 DEF SetAttrRest
    <2> QED BY <1>5, <2>1, AnsweredOrNot, SetAttrMoves, NothingMoves DEF SetAttrRest
<1>6. ASSUME NEW m \in Mounts, NEW i \in InodeIds, PulpfsSetAttr(m, i) PROVE Moves
    <2>1. ASSUME NEW size \in Sizes, NEW c, c = TruncateCommand(i, size),
                 (ApplyCommand(c) /\ NoCallFails) \/ RpcFails(c)
          PROVE  Moves
        BY <2>1, TruncateSent, MetaStateAssumption
    <2> QED BY <1>6, <2>1, AnsweredOrNot, SetAttrMoves DEF PulpfsSetAttr
<1>7. ASSUME NEW m \in Mounts, Restart(m) PROVE Moves
    <2>1. UNCHANGED vars /\ UNCHANGED <<late, failures>>
        BY <1>7 DEF Restart
    <2> QED BY <2>1, AnsweredOrNot, NothingMoves
<1> QED BY <1>1, <1>2, <1>3, <1>4, <1>5, <1>6, <1>7, LateMoves DEF FuseNext

-----------------------------------------------------------------------------
(***************************************************************************)
(* What a step does to the writes that wait, handle by handle.             *)
(***************************************************************************)
\* e is the extent of this very write: its object is new, its key names its
\* offset in the list.
JustPut(e) == e \in Extent /\ e.key \notin DOMAIN objects /\ e.key[5] = e.offset /\ e.object_offset = 0

\* Handle g after the step, h before it: nothing waits, or what did, or one more.
OneMore(g, h) == \E e \in Extent : JustPut(e) /\ g = AfterPut(h, e, TRUE)

Unmoved(m, fh) ==
    \/ NoWrites(handles'[m][fh])
    \/ fh \in DOMAIN handles[m] /\ SameWrites(handles'[m][fh], handles[m][fh])

Gains(m, fh) == fh \in DOMAIN handles[m] /\ OneMore(handles'[m][fh], handles[m][fh])

\* At most one handle gains an extent.
WaitingMoves ==
    /\ \A m \in Mounts : \A fh \in DOMAIN handles'[m] : Unmoved(m, fh) \/ Gains(m, fh)
    /\ \A m, n \in Mounts : \A fh \in DOMAIN handles'[m], gh \in DOMAIN handles'[n] :
          (m = n /\ fh = gh) \/ Unmoved(m, fh) \/ Unmoved(n, gh)

\* The table is left alone but for one handle.
LEMMA OneHandleMoves ==
    ASSUME FuseInv, NEW m \in Mounts, NEW fh \in DOMAIN handles[m], NEW g,
           handles' = [handles EXCEPT ![m][fh] = g],
           NoWrites(g) \/ SameWrites(g, handles[m][fh]) \/ OneMore(g, handles[m][fh])
    PROVE  WaitingMoves
<1>1. /\ DOMAIN handles = Mounts /\ DOMAIN handles'[m] = DOMAIN handles[m] /\ handles'[m][fh] = g
      /\ \A n \in Mounts : \A gh \in DOMAIN handles'[n] :
             ~(n = m /\ gh = fh) => gh \in DOMAIN handles[n] /\ handles'[n][gh] = handles[n][gh]
    BY DEF FuseInv, MountsOK
<1>2. \A h : SameWrites(h, h)
    BY DEF SameWrites
<1>3. \A n \in Mounts : \A gh \in DOMAIN handles'[n] :
          ~(n = m /\ gh = fh) => Unmoved(n, gh)
    BY <1>1, <1>2 DEF Unmoved
<1>4. Unmoved(m, fh) \/ Gains(m, fh)
    BY <1>1 DEF Unmoved, Gains
<1> QED BY <1>3, <1>4 DEF WaitingMoves

\* Only a put adds a pending extent, and to one handle only.
LEMMA StepWaiting ==
    ASSUME FuseInv, KeysOfWrites, [FuseNext]_fuseVars
    PROVE  WaitingMoves
<1>1. CASE WritesQuiet
    <2>1. \A m \in Mounts : \A fh \in DOMAIN handles'[m] : Unmoved(m, fh)
        BY <1>1 DEF WritesQuiet, TableQuiet, Unmoved
    <2> QED BY <2>1 DEF WaitingMoves
<1>2. ASSUME NEW m \in Mounts, NEW fh, NEW op, Accepted(m, fh, op) PROVE WaitingMoves
    <2>1. PICK g, h : g = Committed(h) /\ h = handles[m][fh]
        OBVIOUS
    <2>2. fh \in DOMAIN handles[m] /\ h \in Handle /\ handles' = [handles EXCEPT ![m][fh] = g]
        BY <1>2, <2>1, AcceptedIs DEF Accepted, HandleOK
    <2>3. NoWrites(g)
        BY <2>1, <2>2 DEF Committed, NoWrites, Handle
    <2> QED BY <2>2, <2>3, OneHandleMoves
<1>3. ASSUME NEW m \in Mounts, NEW fh \in files_open[m], NEW off \in Offsets, NEW len \in Lengths,
             PulpfsWrite(m, fh, off, len)
      PROVE  WaitingMoves
    <2>1. PICK h : h = handles[m][fh]
        OBVIOUS
    <2>2. fh \in DOMAIN handles[m] /\ h \in Handle
        BY <1>3, <2>1, WriteIs
    <2>3. PICK e \in Extent, ok \in BOOLEAN : Wrote(m, fh, h, e, ok)
        BY <1>3, <2>1, WriteIs
    <2>4. PICK g : g = AfterPut(h, e, ok)
        OBVIOUS
    <2>5. handles' = [handles EXCEPT ![m][fh] = g]
        BY <2>3, <2>4 DEF Wrote
    <2>6. CASE ok
        <3>1. g = AfterPut(h, e, TRUE)
            BY <2>4, <2>6
        <3>2. JustPut(e)
            BY <2>3 DEF JustPut, Wrote
        <3>3. OneMore(g, h)
            BY <3>1, <3>2 DEF OneMore
        <3> QED BY <2>1, <2>2, <2>5, <3>3, OneHandleMoves
    <2>7. CASE ~ok
        <3>1. g = h
            BY <2>4, <2>7 DEF AfterPut
        <3>2. SameWrites(g, h)
            BY <3>1 DEF SameWrites
        <3> QED BY <2>1, <2>2, <2>5, <3>2, OneHandleMoves
    <2> QED BY <2>6, <2>7
<1> QED BY <1>1, <1>2, <1>3, StepWrites

\* What waits after a step waited before it or was just put.
LEMMA StepPending ==
    ASSUME FuseInv, WaitingMoves, NEW m \in Mounts, NEW fh \in DOMAIN handles'[m],
           NEW e \in Pending(handles'[m][fh])
    PROVE  JustPut(e) \/ (fh \in DOMAIN handles[m] /\ e \in Pending(handles[m][fh]))
<1>1. PICK g : g = handles'[m][fh]
    OBVIOUS
<1>2. ~NoWrites(g)
    BY <1>1 DEF NoWrites, Pending
<1>3. fh \in DOMAIN handles[m]
    BY <1>1, <1>2 DEF WaitingMoves, Unmoved, Gains
<1>4. PICK h : h = handles[m][fh]
    OBVIOUS
<1>5. CASE SameWrites(g, h)
    BY <1>1, <1>3, <1>4, <1>5 DEF SameWrites, Pending
<1>6. CASE OneMore(g, h)
    <2>1. PICK x \in Extent : JustPut(x) /\ g = AfterPut(h, x, TRUE)
        BY <1>6 DEF OneMore
    <2>2. h \in Handle
        BY <1>3, <1>4 DEF FuseInv, MountsOK, MountOK, HandleOK
    <2>3. Pending(g) \subseteq Pending(h) \cup {x}
        <3>1. CASE h.append
            <4>1. /\ g.pending_extents = h.pending_extents
                  /\ g.pending_append_extents = Append(h.pending_append_extents, x)
                BY <2>1, <2>2, <3>1 DEF AfterPut, WithPending, Handle
            <4>2. h.pending_append_extents \in Seq(Extent)
                BY <2>2 DEF Handle
            <4> QED BY <4>1, <4>2 DEF Pending
        <3>2. CASE ~h.append
            <4>1. /\ g.pending_append_extents = h.pending_append_extents
                  /\ g.pending_extents = Append(h.pending_extents, x)
                BY <2>1, <2>2, <3>2 DEF AfterPut, WithPending, Handle
            <4>2. h.pending_extents \in Seq(Extent)
                BY <2>2 DEF Handle
            <4> QED BY <4>1, <4>2 DEF Pending
        <3> QED BY <3>1, <3>2
    <2> QED BY <1>1, <1>3, <1>4, <2>1, <2>3
<1> QED BY <1>1, <1>2, <1>3, <1>4, <1>5, <1>6 DEF WaitingMoves, Unmoved, Gains

-----------------------------------------------------------------------------
(***************************************************************************)
(* Each written byte at one place, I: no file is opened with O_APPEND.     *)
(***************************************************************************)
\* The place is then in the key, which ends in the offset of the write.
InPlace(e) == e.offset = e.key[5] + e.object_offset

PlainInv ==
    /\ \A l \in late : l.command.op # "append_write"
    /\ \A e \in WantedExtents : InPlace(e)

\* The key of a wanted extent carries the offset of the write that made it.
LEMMA KeyNamesOffset ==
    ASSUME FuseInv, NEW x \in WantedExtents
    PROVE  x \in Extent /\ x.key[5] \in Nat
<1>1. x \in Extent
    BY WantedType
<1>2. x.key \in DOMAIN objects
    BY DEF FuseInv, LiveExtentsBacked, Backed
<1>3. x.key \in Nat \X Mounts \X Nat \X Nat \X Nat
    BY <1>2 DEF FuseInv, BucketOK, KeyUsed
<1> QED BY <1>1, <1>3

\* A piece of an extent that is where it was written is so too.
LEMMA PieceInPlace ==
    ASSUME FuseInv, NEW x \in WantedExtents, InPlace(x), NEW e \in Extent, Piece(e, x)
    PROVE  InPlace(e)
<1>1. PICK n : n = x.key[5]
    OBVIOUS
<1>2. x \in Extent /\ n \in Nat
    BY <1>1, KeyNamesOffset
<1>3. x.offset = n + x.object_offset /\ e.key[5] = n
    BY <1>1 DEF InPlace, Piece
<1>4. e.offset + x.object_offset = x.offset + e.object_offset
    BY DEF Piece
<1>5. e.offset = n + e.object_offset
    BY <1>2, <1>3, <1>4 DEF Extent
<1> QED BY <1>3, <1>5 DEF InPlace

\* A handle appends only when open was called so.
LEMMA PlainHandles ==
    ASSUME FuseInv, \A f \in Flags : ~f.append, NEW m \in Mounts, NEW fh \in DOMAIN handles[m]
    PROVE  ~handles[m][fh].append
<1>1. handles[m][fh] \in Handle
    BY DEF FuseInv, MountsOK, MountOK, HandleOK
<1>2. handles[m][fh].append \in AppendFlags
    BY <1>1 DEF Handle
<1> QED BY <1>2 DEF AppendFlags

\* So what a plain handle sends is a commit_write.
LEMMA PlainCommand ==
    ASSUME FuseInv, \A f \in Flags : ~f.append, NEW m \in Mounts, NEW fh \in DOMAIN handles[m]
    PROVE  CommitCommand(handles[m][fh]).op = "commit_write"
BY PlainHandles DEF CommitCommand, CommitWriteCommand

\* The extents that may come into a file by this step are wanted ones.
LEMMA StoredFrom ==
    ASSUME FuseInv, \A f \in Flags : ~f.append, PlainInv, [FuseNext]_fuseVars
    PROVE  \E E \in SUBSET WantedExtents : MetaPieces(E)
<1>1. CASE Moves
    <2>1. LateExtents \in SUBSET WantedExtents
        BY WantedIs DEF LateExtents
    <2> QED BY <1>1, <2>1 DEF Moves, PlainInv
<1>2. ASSUME NEW m \in Mounts, NEW fh, NEW op, Accepted(m, fh, op)
      PROVE  \E E \in SUBSET WantedExtents : MetaPieces(E)
    <2>1. PICK c : c = CommitCommand(handles[m][fh])
        OBVIOUS
    <2>2. fh \in DOMAIN handles[m]
        BY <1>2, AcceptedIs
    <2>3. GoodCommand(c) /\ CommandExtents(c) \in SUBSET WantedExtents
        BY <2>1, <2>2, CommitCommandIs
    <2>4. ApplyCommand(c)
        BY <1>2, <2>1 DEF Accepted
    <2>5. c.op # "append_write"
        BY <2>1, <2>2, PlainCommand
    <2>6. MetaPieces(CommandExtents(c))
        BY <2>3, <2>4, <2>5, CommandMoves DEF FuseInv
    <2> QED BY <2>3, <2>6
<1> QED BY <1>1, <1>2, StepMoves

\* The commands that are still under way after a step.
LEMMA LateFrom ==
    ASSUME FuseInv, [FuseNext]_fuseVars, NEW l \in late', l \notin late
    PROVE  /\ CommandExtents(l.command) \subseteq WantedExtents
           /\ \/ l.command.op = "truncate"
              \/ \E m \in Mounts : \E fh \in DOMAIN handles[m] : l.command = CommitCommand(handles[m][fh])
<1>1. CallEnds
    <2>1. ASSUME NEW m \in Mounts, NEW fh, NEW op, Accepted(m, fh, op) PROVE CallEnds
        BY <2>1, AnsweredOrNot DEF Accepted
    <2> QED BY <2>1, StepMoves DEF Moves
<1>2. \/ l.command.op = "truncate"
      \/ \E m \in Mounts : \E fh \in DOMAIN handles[m] : l.command = CommitCommand(handles[m][fh])
    BY <1>1 DEF CallEnds
<1>3. CASE l.command.op = "truncate"
    BY <1>3 DEF CommandExtents
<1>4. ASSUME NEW m \in Mounts, NEW fh \in DOMAIN handles[m], NEW c, c = l.command,
             c = CommitCommand(handles[m][fh])
      PROVE  CommandExtents(c) \subseteq WantedExtents
    BY <1>4, CommitCommandIs
<1> QED BY <1>2, <1>3, <1>4

\* Extents come to be in place and only move by being cut.
LEMMA PlainStep ==
    ASSUME FuseInv, KeysOfWrites, \A f \in Flags : ~f.append, PlainInv, [FuseNext]_fuseVars
    PROVE  PlainInv'
<1>1. ASSUME NEW l \in late' PROVE l.command.op # "append_write"
    <2>1. CASE l \in late
        BY <2>1 DEF PlainInv
    <2>2. CASE l \notin late
        BY <2>2, LateFrom, PlainCommand
    <2> QED BY <2>1, <2>2
<1>2. ASSUME NEW i \in DOMAIN layouts', NEW e \in layouts'[i].extents PROVE InPlace(e)
    <2>1. MetaInv'
        BY FuseInvStep DEF FuseInv
    <2>2. e \in Extent
        BY <2>1 DEF MetaInv, TypeI, LayoutI
    <2>3. PICK E \in SUBSET WantedExtents : MetaPieces(E)
        BY StoredFrom
    <2>4. FileExtents(i) \subseteq WantedExtents
        BY WantedIs DEF FileExtents, StoredExtents
    <2>5. PICK x \in FileExtents(i) \cup E : Piece(e, x)
        BY <1>2, <2>3 DEF MetaPieces, PiecesOf
    <2>6. x \in WantedExtents
        BY <2>3, <2>4, <2>5
    <2> QED BY <2>2, <2>5, <2>6, PieceInPlace DEF PlainInv
<1>3. ASSUME NEW m \in Mounts, NEW fh \in DOMAIN handles'[m], NEW e \in Pending(handles'[m][fh])
      PROVE  InPlace(e)
    <2>1. JustPut(e) \/ (fh \in DOMAIN handles[m] /\ e \in Pending(handles[m][fh]))
        BY <1>3, StepWaiting, StepPending
    <2>2. CASE JustPut(e)
        BY <2>2 DEF JustPut, InPlace, Extent
    <2>3. CASE fh \in DOMAIN handles[m] /\ e \in Pending(handles[m][fh])
        BY <2>3, WantedIs DEF PlainInv
    <2> QED BY <2>1, <2>2, <2>3
<1>4. ASSUME NEW l \in late', NEW e \in CommandExtents(l.command) PROVE InPlace(e)
    <2>1. e \in WantedExtents
        BY <1>4, LateFrom, WantedIs
    <2> QED BY <2>1 DEF PlainInv
<1>5. ASSUME NEW e \in WantedExtents' PROVE InPlace(e)
    <2>1. CASE e \in StoredExtents'
        BY <1>2, <2>1 DEF StoredExtents
    <2> QED BY <1>3, <1>4, <1>5, <2>1, WantedIs
<1> QED BY <1>1, <1>5 DEF PlainInv, InPlace

\* Nothing is wanted at the start.
LEMMA PlainInit == FuseInit => PlainInv
<1> SUFFICES ASSUME FuseInit PROVE PlainInv
    OBVIOUS
<1>1. /\ late = {} /\ \A m \in Mounts : DOMAIN handles[m] = {}
      /\ \A i \in DOMAIN layouts : layouts[i].extents = {}
    BY DEF FuseInit, Init
<1>2. ASSUME NEW e \in WantedExtents PROVE FALSE
    BY <1>1, WantedIs DEF StoredExtents
<1> QED BY <1>1, <1>2 DEF PlainInv

\* Pieces that are in place agree on where their object lies.
LEMMA InPlaceOnce == FuseInv /\ PlainInv => WrittenOnce
<1> SUFFICES ASSUME FuseInv, PlainInv, NEW i \in DOMAIN layouts,
                    NEW e \in layouts[i].extents, NEW f \in layouts[i].extents, e.key = f.key
             PROVE  e.offset - e.object_offset = f.offset - f.object_offset
    BY DEF WrittenOnce
<1>1. e \in WantedExtents /\ f \in WantedExtents
    BY WantedIs DEF StoredExtents
<1>2. PICK n : n = e.key[5]
    OBVIOUS
<1>3. n \in Nat /\ e \in Extent /\ f \in Extent
    BY <1>1, <1>2, KeyNamesOffset
<1>4. e.offset = n + e.object_offset /\ f.offset = n + f.object_offset
    BY <1>1, <1>2 DEF PlainInv, InPlace
<1> QED BY <1>3, <1>4 DEF Extent

\* Without O_APPEND a commit that is repeated after a failure, or applied late,
\* puts the bytes where they are already.
THEOREM PlainWritesLandOnce ==
    KeysOfWrites /\ (\A f \in Flags : ~f.append) /\ FuseSpec => []WrittenOnce
<1> DEFINE Plain == \A f \in Flags : ~f.append
<1>1. FuseInit => PlainInv
    BY PlainInit
<1>2. FuseInv /\ PlainInv /\ KeysOfWrites /\ Plain /\ [FuseNext]_fuseVars => PlainInv'
    BY PlainStep
<1>3. FuseInv /\ PlainInv => WrittenOnce
    BY InPlaceOnce
<1>4. KeysOfWrites /\ Plain => [](KeysOfWrites /\ Plain)
    <2>1. KeysOfWrites /\ Plain => (KeysOfWrites /\ Plain)'
        BY DEF KeysOfWrites
    <2> QED BY <2>1, PTL
<1> HIDE DEF Plain
<1>5. KeysOfWrites /\ Plain /\ FuseSpec => []WrittenOnce
    BY <1>1, <1>2, <1>3, <1>4, FuseInvariant, PTL DEF FuseSpec
<1> QED BY <1>5 DEF Plain

-----------------------------------------------------------------------------
(***************************************************************************)
(* Each written byte at one place, II: no call has failed.  An object is   *)
(* then in one handle or in files, because its extent leaves the handle    *)
(* in the step that brings it into a file.                                 *)
(***************************************************************************)
OnePlace(S) ==
    \A e, f \in S : e.key = f.key => e.offset - e.object_offset = f.offset - f.object_offset

DifferentKeys(es) == \A k, l \in 1 .. Len(es) : es[k].key = es[l].key => k = l

KeysApart(S, T) == \A e \in S, f \in T : e.key # f.key

\* No handle has an object twice, has one of a file or one of another handle.
HandlesOnce ==
    \A m \in Mounts : \A fh \in DOMAIN handles[m] :
        /\ DifferentKeys(handles[m][fh].pending_extents)
        /\ DifferentKeys(handles[m][fh].pending_append_extents)

NotStored ==
    \A m \in Mounts : \A fh \in DOMAIN handles[m] : KeysApart(Pending(handles[m][fh]), StoredExtents)

HandlesApart ==
    \A m, n \in Mounts : \A fh \in DOMAIN handles[m], gh \in DOMAIN handles[n] :
        (m = n /\ fh = gh) \/ KeysApart(Pending(handles[m][fh]), Pending(handles[n][gh]))

Once == late = {} /\ WrittenOnce /\ HandlesOnce /\ NotStored /\ HandlesApart

OnceInv == failures \in Nat /\ (failures = 0 => Once)

\* What holds of the extents of an object holds of their pieces.
LEMMA PiecesInOnePlace ==
    ASSUME NEW S \in SUBSET Extent, NEW T \in SUBSET Extent, PiecesOf(S, T), OnePlace(T)
    PROVE  OnePlace(S)
<1> SUFFICES ASSUME NEW e \in S, NEW f \in S, e.key = f.key
             PROVE  e.offset - e.object_offset = f.offset - f.object_offset
    BY DEF OnePlace
<1>1. PICK x \in T : Piece(e, x)
    BY DEF PiecesOf
<1>2. PICK y \in T : Piece(f, y)
    BY DEF PiecesOf
<1>3. x.offset - x.object_offset = y.offset - y.object_offset
    BY <1>1, <1>2 DEF OnePlace, Piece
<1>4. e \in Extent /\ f \in Extent /\ x \in Extent /\ y \in Extent
    OBVIOUS
<1>5. /\ e.offset + x.object_offset = x.offset + e.object_offset
      /\ f.offset + y.object_offset = y.offset + f.object_offset
    BY <1>1, <1>2 DEF Piece
<1> QED BY <1>3, <1>4, <1>5 DEF Extent

\* A handle that gains nothing waits for no more than before.
LEMMA UnmovedPending ==
    ASSUME NEW m, NEW fh, Unmoved(m, fh), NEW e \in Pending(handles'[m][fh])
    PROVE  fh \in DOMAIN handles[m] /\ e \in Pending(handles[m][fh])
<1>1. PICK g, h : g = handles'[m][fh] /\ h = handles[m][fh]
    OBVIOUS
<1>2. ~NoWrites(g)
    BY <1>1 DEF NoWrites, Pending
<1> QED BY <1>1, <1>2 DEF Unmoved, SameWrites, Pending

\* The keys of what is wanted are those of objects, and a new one is not.
LEMMA KeysKnown ==
    ASSUME FuseInv
    PROVE  /\ \A e \in WantedExtents : e.key \in DOMAIN objects
           /\ \A m \in Mounts : \A fh \in DOMAIN handles[m] :
                  \A e \in Pending(handles[m][fh]) : e.key \in DOMAIN objects
           /\ \A e \in StoredExtents : e.key \in DOMAIN objects
BY WantedIs DEF FuseInv, LiveExtentsBacked, Backed

\* The key of a put is new, so a handle that gains it has it once.
LEMMA GainsOnce ==
    ASSUME FuseInv, HandlesOnce, NEW m \in Mounts, NEW fh, Gains(m, fh), NEW g, g = handles'[m][fh]
    PROVE  DifferentKeys(g.pending_extents) /\ DifferentKeys(g.pending_append_extents)
<1>1. PICK h : h = handles[m][fh]
    OBVIOUS
<1>2. fh \in DOMAIN handles[m] /\ OneMore(g, h)
    BY <1>1 DEF Gains
<1>3. PICK x \in Extent : JustPut(x) /\ g = AfterPut(h, x, TRUE)
    BY <1>2 DEF OneMore
<1>4. /\ h \in Handle /\ h.pending_extents \in Seq(Extent)
      /\ h.pending_append_extents \in Seq(Extent)
    BY <1>1, <1>2 DEF FuseInv, MountsOK, MountOK, HandleOK, Handle
<1>5. DifferentKeys(h.pending_extents) /\ DifferentKeys(h.pending_append_extents)
    BY <1>1, <1>2 DEF HandlesOnce
<1>6. \A e \in Pending(h) : e.key # x.key
    BY <1>1, <1>2, <1>3, KeysKnown DEF JustPut
<1>7. ASSUME NEW es \in Seq(Extent), DifferentKeys(es), \A k \in 1 .. Len(es) : es[k].key # x.key
      PROVE  DifferentKeys(Append(es, x))
    BY <1>7 DEF DifferentKeys
<1>8. CASE h.append
    <2>1. /\ g.pending_extents = h.pending_extents
          /\ g.pending_append_extents = Append(h.pending_append_extents, x)
        BY <1>3, <1>4, <1>8 DEF AfterPut, WithPending, Handle
    <2> QED BY <1>4, <1>5, <1>6, <1>7, <2>1 DEF Pending
<1>9. CASE ~h.append
    <2>1. /\ g.pending_append_extents = h.pending_append_extents
          /\ g.pending_extents = Append(h.pending_extents, x)
        BY <1>3, <1>4, <1>9 DEF AfterPut, WithPending, Handle
    <2> QED BY <1>4, <1>5, <1>6, <1>7, <2>1 DEF Pending
<1> QED BY <1>8, <1>9

\* And no other handle has it.
LEMMA HandlesOnceStep ==
    ASSUME FuseInv, WaitingMoves, HandlesOnce, HandlesApart
    PROVE  HandlesOnce' /\ HandlesApart'
<1>1. ASSUME NEW m \in Mounts, NEW fh \in DOMAIN handles'[m], NEW g, g = handles'[m][fh]
      PROVE  DifferentKeys(g.pending_extents) /\ DifferentKeys(g.pending_append_extents)
    <2>1. CASE Gains(m, fh)
        BY <1>1, <2>1, GainsOnce
    <2>2. CASE NoWrites(g)
        BY <2>2 DEF NoWrites, DifferentKeys
    <2>3. CASE fh \in DOMAIN handles[m] /\ SameWrites(g, handles[m][fh])
        BY <2>3 DEF HandlesOnce, SameWrites
    <2> QED BY <1>1, <2>1, <2>2, <2>3 DEF WaitingMoves, Unmoved
<1>2. ASSUME NEW m \in Mounts, NEW n \in Mounts, NEW fh \in DOMAIN handles'[m],
             NEW gh \in DOMAIN handles'[n], ~(m = n /\ fh = gh),
             NEW e \in Pending(handles'[m][fh]), NEW f \in Pending(handles'[n][gh])
      PROVE  e.key # f.key
    <2>1. /\ JustPut(e) \/ (fh \in DOMAIN handles[m] /\ e \in Pending(handles[m][fh]))
          /\ JustPut(f) \/ (gh \in DOMAIN handles[n] /\ f \in Pending(handles[n][gh]))
        BY StepPending
    <2>2. \/ fh \in DOMAIN handles[m] /\ e \in Pending(handles[m][fh])
          \/ gh \in DOMAIN handles[n] /\ f \in Pending(handles[n][gh])
        BY <1>2, UnmovedPending DEF WaitingMoves
    <2> QED BY <1>2, <2>1, <2>2, KeysKnown DEF JustPut, HandlesApart, KeysApart
<1> QED BY <1>1, <1>2 DEF HandlesOnce, HandlesApart, KeysApart, DifferentKeys, Pending

\* A batch of different objects, none of which the file has.
LEMMA MergedOnePlace ==
    ASSUME NEW stored \in SUBSET Extent, OnePlace(stored), NEW sh \in Seq(Extent),
           DifferentKeys(sh), \A e \in stored : \A k \in 1 .. Len(sh) : e.key # sh[k].key
    PROVE  OnePlace(MergeFirst(stored, sh, Len(sh)))
<1>1. Len(sh) \in 0 .. Len(sh) /\ Members(sh) \subseteq Extent
    BY DEF Members
<1>2. PICK merged : merged = MergeFirst(stored, sh, Len(sh))
    OBVIOUS
<1>3. merged \in SUBSET Extent /\ PiecesOf(merged, stored \cup Members(sh))
    BY <1>1, <1>2, MergeFirstSafe, MergeFirstPieces
<1>4. OnePlace(stored \cup Members(sh))
    <2> SUFFICES ASSUME NEW e \in stored \cup Members(sh), NEW f \in stored \cup Members(sh),
                        e.key = f.key
                 PROVE  e.offset - e.object_offset = f.offset - f.object_offset
        BY DEF OnePlace
    <2>1. CASE e \in stored /\ f \in stored
        BY <2>1 DEF OnePlace
    <2>2. CASE e \in Members(sh) /\ f \in Members(sh)
        <3>1. e = f
            BY <2>2 DEF Members, DifferentKeys
        <3> QED BY <3>1
    <2> QED BY <2>1, <2>2 DEF Members
<1>5. stored \cup Members(sh) \in SUBSET Extent
    BY <1>1
<1> QED BY <1>2, <1>3, <1>4, <1>5, PiecesInOnePlace

\* A commit brings in objects which the file does not have, each once.
LEMMA CommitOnce ==
    ASSUME FuseInv, Once, NEW m \in Mounts, NEW fh, NEW op, Accepted(m, fh, op),
           NEW i \in DOMAIN layouts'
    PROVE  OnePlace(layouts'[i].extents)
<1>1. PICK h, j : h = handles[m][fh] /\ j = h.inode_id
    OBVIOUS
<1>2. PICK start, stored : start = inodes[j].size /\ stored = layouts[j].extents
    OBVIOUS
<1>3. /\ fh \in DOMAIN handles[m] /\ HandleOK(h, inodes, layouts, next_inode_id)
      /\ j \in DOMAIN layouts /\ start \in Nat /\ stored \in SUBSET Extent /\ MetaInv
    BY <1>1, <1>2, AcceptedIs DEF FuseInv
<1>4. /\ DifferentKeys(h.pending_extents) /\ DifferentKeys(h.pending_append_extents)
      /\ \A e \in stored : \A x \in Pending(h) : e.key # x.key
    BY <1>1, <1>2, <1>3 DEF Once, HandlesOnce, NotStored, KeysApart, StoredExtents
<1>5. \A k \in DOMAIN layouts : OnePlace(layouts[k].extents)
    BY DEF Once, WrittenOnce, OnePlace
<1>6. PICK sh, size : /\ sh \in Seq(Extent) /\ DifferentKeys(sh)
                      /\ \A e \in stored : \A k \in 1 .. Len(sh) : e.key # sh[k].key
                      /\ FileChange(j, size, MergeFirst(stored, sh, Len(sh)))
    <2>1. CASE h.append
        <3>1. PICK es : es = h.pending_append_extents
            OBVIOUS
        <3>2. PICK sh : sh = ShiftBatch(es, start)
            OBVIOUS
        <3>3. /\ es \in Seq(Extent)
              /\ FileChange(j, start + BatchEnd(es), MergeFirst(stored, sh, Len(es)))
            BY <1>1, <1>2, <2>1, <3>1, <3>2, AcceptedIs
        <3>4. /\ sh \in Seq(Extent) /\ Len(sh) = Len(es)
              /\ \A k \in 1 .. Len(es) : sh[k].key = es[k].key
            BY <1>3, <3>2, <3>3, ShiftBatchIs
        <3>5. DifferentKeys(sh)
            BY <1>4, <3>1, <3>4 DEF DifferentKeys
        <3>6. \A e \in stored : \A k \in 1 .. Len(sh) : e.key # sh[k].key
            BY <1>4, <3>1, <3>4 DEF Pending
        <3> QED BY <3>3, <3>4, <3>5, <3>6
    <2>2. CASE ~h.append
        <3>1. PICK es : es = h.pending_extents
            OBVIOUS
        <3>2. /\ es \in Seq(Extent)
              /\ FileChange(j, LargerOf(start, BatchEnd(es)), MergeFirst(stored, es, Len(es)))
            BY <1>1, <1>2, <2>2, <3>1, AcceptedIs
        <3>3. \A e \in stored : \A k \in 1 .. Len(es) : e.key # es[k].key
            BY <1>4, <3>1 DEF Pending
        <3> QED BY <1>4, <3>1, <3>2, <3>3
    <2> QED BY <2>1, <2>2
<1>7. OnePlace(MergeFirst(stored, sh, Len(sh)))
    BY <1>2, <1>3, <1>5, <1>6, MergedOnePlace
<1>8. /\ DOMAIN layouts' = DOMAIN layouts
      /\ layouts'[j].extents = MergeFirst(stored, sh, Len(sh))
      /\ \A k \in DOMAIN layouts : k # j => layouts'[k] = layouts[k]
    BY <1>3, <1>6, FileChangeIs
<1> QED BY <1>5, <1>7, <1>8

\* A commit takes the handle's objects into the file: they no longer wait.
LEMMA CommitNotStored ==
    ASSUME FuseInv, Once, NEW m \in Mounts, NEW fh, NEW op, Accepted(m, fh, op),
           NEW n \in Mounts, NEW gh \in DOMAIN handles'[n], NEW e \in Pending(handles'[n][gh]),
           NEW i \in DOMAIN layouts', NEW f \in layouts'[i].extents
    PROVE  e.key # f.key
<1>1. PICK h, c, g : h = handles[m][fh] /\ c = CommitCommand(h) /\ g = Committed(h)
    OBVIOUS
<1>2. fh \in DOMAIN handles[m] /\ HandleOK(h, inodes, layouts, next_inode_id)
    BY <1>1, AcceptedIs
<1>3. GoodCommand(c) /\ CommandExtents(c) = Pending(h)
    BY <1>1, <1>2, CommitCommandIs
<1>4. MetaInv' /\ MetaChange(Pending(h))
    BY <1>1, <1>3, CommandCall DEF Accepted, FuseInv
<1>5. PICK x \in StoredExtents \cup Pending(h) : f.key = x.key
    BY <1>4, MetaChangeIs DEF FuseInv, PartsOf, Part
<1>6. Pending(g) = {} /\ handles' = [handles EXCEPT ![m][fh] = g] /\ DOMAIN handles = Mounts
    BY <1>1, <1>2, CommittedOK DEF Accepted, FuseInv, MountsOK
<1>7. ~(n = m /\ gh = fh)
    BY <1>2, <1>6
<1>8. gh \in DOMAIN handles[n] /\ handles'[n][gh] = handles[n][gh]
    BY <1>2, <1>6, <1>7
<1> QED BY <1>1, <1>2, <1>5, <1>7, <1>8 DEF Once, NotStored, HandlesApart, KeysApart

\* Any other step moves no extent.
LEMMA MovesOnce ==
    ASSUME FuseInv, MetaInv', WaitingMoves, Once, Moves
    PROVE  WrittenOnce' /\ NotStored'
<1>1. MetaPieces({})
    <2>1. LateExtents = {} /\ \A l \in late : l.command.op # "append_write"
        BY DEF Once, LateExtents
    <2> QED BY <2>1 DEF Moves
<1>2. ASSUME NEW i \in DOMAIN layouts' PROVE OnePlace(layouts'[i].extents)
    <2>1. PICK S, T : S = layouts'[i].extents /\ T = FileExtents(i)
        OBVIOUS
    <2>2. S \in SUBSET Extent /\ T \in SUBSET Extent
        BY <2>1 DEF FuseInv, MetaInv, TypeI, LayoutI, FileExtents
    <2>3. PiecesOf(S, T)
        BY <1>1, <2>1 DEF MetaPieces
    <2>4. OnePlace(T)
        BY <2>1 DEF FileExtents, Once, WrittenOnce, OnePlace
    <2> QED BY <2>1, <2>2, <2>3, <2>4, PiecesInOnePlace
<1>3. ASSUME NEW n \in Mounts, NEW gh \in DOMAIN handles'[n], NEW e \in Pending(handles'[n][gh]),
             NEW i \in DOMAIN layouts', NEW f \in layouts'[i].extents
      PROVE  e.key # f.key
    <2>1. PICK x \in FileExtents(i) : f.key = x.key
        BY <1>1, <1>3 DEF MetaPieces, PiecesOf, Piece
    <2>2. x \in StoredExtents
        BY <2>1 DEF FileExtents, StoredExtents
    <2>3. JustPut(e) \/ (gh \in DOMAIN handles[n] /\ e \in Pending(handles[n][gh]))
        BY <1>3, StepPending
    <2> QED BY <2>1, <2>2, <2>3, KeysKnown DEF JustPut, Once, NotStored, KeysApart
<1> QED BY <1>2, <1>3 DEF WrittenOnce, OnePlace, NotStored, KeysApart, StoredExtents, Pending

\* Each step keeps OnceInv; a failure ends what it says.
LEMMA OnceStep ==
    ASSUME FuseInv, KeysOfWrites, OnceInv, [FuseNext]_fuseVars
    PROVE  OnceInv'
<1>0. WaitingMoves /\ MetaInv' /\ failures \in Nat
    BY StepWaiting, FuseInvStep DEF FuseInv, OnceInv
<1>1. CallEnds
    <2>1. ASSUME NEW m \in Mounts, NEW fh, NEW op, Accepted(m, fh, op) PROVE CallEnds
        BY <2>1, AnsweredOrNot DEF Accepted
    <2> QED BY <2>1, StepMoves DEF Moves
<1>2. failures' \in {failures, failures + 1}
    BY <1>1 DEF CallEnds
<1>3. ASSUME failures' = 0 PROVE Once'
    <2>1. failures = 0 /\ Once
        BY <1>0, <1>2, <1>3 DEF OnceInv
    <2>2. late' = {}
        BY <1>0, <1>1, <1>3, <2>1 DEF CallEnds, Once
    <2>3. HandlesOnce' /\ HandlesApart'
        BY <1>0, <2>1, HandlesOnceStep DEF Once
    <2>4. WrittenOnce' /\ NotStored'
        <3>1. CASE Moves
            BY <1>0, <2>1, <3>1, MovesOnce
        <3>2. ASSUME NEW m \in Mounts, NEW fh, NEW op, Accepted(m, fh, op)
              PROVE  WrittenOnce' /\ NotStored'
            <4>1. \A i \in DOMAIN layouts' : OnePlace(layouts'[i].extents)
                BY <2>1, <3>2, CommitOnce
            <4>2. \A n \in Mounts : \A gh \in DOMAIN handles'[n] :
                      \A e \in Pending(handles'[n][gh]) :
                          \A i \in DOMAIN layouts' : \A f \in layouts'[i].extents : e.key # f.key
                BY <2>1, <3>2, CommitNotStored
            <4> QED BY <4>1, <4>2
                    DEF WrittenOnce, OnePlace, NotStored, KeysApart, StoredExtents, Pending
        <3> QED BY <3>1, <3>2, StepMoves
    <2> QED BY <2>2, <2>3, <2>4 DEF Once
<1> QED BY <1>0, <1>2, <1>3 DEF OnceInv

\* Nothing is pending or stored at the start.
LEMMA OnceInit == FuseInit => OnceInv
<1> SUFFICES ASSUME FuseInit PROVE OnceInv
    OBVIOUS
<1>1. /\ late = {} /\ failures = 0 /\ \A m \in Mounts : DOMAIN handles[m] = {}
      /\ \A i \in DOMAIN layouts : layouts[i].extents = {}
    BY DEF FuseInit, Init
<1> QED BY <1>1 DEF OnceInv, Once, WrittenOnce, HandlesOnce, NotStored, HandlesApart

\* Until a call fails, O_APPEND or not: no commit is sent twice.
THEOREM WritesLandOnceUntilFailure ==
    KeysOfWrites /\ FuseSpec => [](failures = 0 => WrittenOnce)
<1>1. FuseInit => OnceInv
    BY OnceInit
<1>2. FuseInv /\ OnceInv /\ KeysOfWrites /\ [FuseNext]_fuseVars => OnceInv'
    BY OnceStep
<1>3. OnceInv => (failures = 0 => WrittenOnce)
    BY DEF OnceInv, Once
<1>4. KeysOfWrites => []KeysOfWrites
    <2>1. KeysOfWrites => KeysOfWrites'
        BY DEF KeysOfWrites
    <2> QED BY <2>1, PTL
<1> QED BY <1>1, <1>2, <1>3, <1>4, FuseInvariant, PTL DEF FuseSpec

-----------------------------------------------------------------------------
(***************************************************************************)
(* What MetaState refuses a mount it has not begun.  The loop over a batch *)
(* stops half-way only at a malformed extent, and no mount sends one.      *)
(***************************************************************************)
DoneOrNot == result' = "Ok" \/ UNCHANGED state

\* A namespace request that is refused changes nothing.
LEMMA NamespaceAnswer ==
    ASSUME NamespaceStep
    PROVE  DoneOrNot
<1>1. PICK p \in InodeIds, n \in AnyName :
          \/ \E mode \in Modes : Mkdir(p, n, mode) \/ CreateFile(p, n, mode)
          \/ Unlink(p, n) \/ Rmdir(p, n)
          \/ \E q \in InodeIds, m \in AnyName : Rename(p, n, q, m)
    BY DEF NamespaceStep
<1>2. \A type, mode : CreateNode(p, n, type, mode) => result' = "Ok"
    BY DEF CreateNode
<1>3. RemoveNode(p, n) => result' = "Ok"
    BY DEF RemoveNode
<1>4. \A q, m : MoveEntry(p, n, q, m) => result' = "Ok"
    BY DEF MoveEntry
<1>5. \A err : Reject(err) => UNCHANGED state
    BY DEF Reject
<1> QED BY <1>1, <1>2, <1>3, <1>4, <1>5 DEF Mkdir, CreateFile, Unlink, Rmdir, Rename, DoneOrNot

\* A request on one inode is refused whole when its batch is well formed.
LEMMA FileAnswer ==
    ASSUME NEW i
    PROVE  /\ \A mode : SetAttr(i, mode) => DoneOrNot
           /\ \A size : Truncate(i, size) => DoneOrNot
           /\ MetaInv => \A es : GoodBatch(es) /\ (CommitWrite(i, es) \/ AppendWrite(i, es)) => DoneOrNot
<1>1. ASSUME NEW mode, SetAttr(i, mode) PROVE DoneOrNot
    BY <1>1 DEF SetAttr, Reject, DoneOrNot
<1>2. ASSUME NEW size, Truncate(i, size) PROVE DoneOrNot
    BY <1>2 DEF Truncate, Reject, DoneOrNot
<1>3. ASSUME MetaInv, NEW es, GoodBatch(es), CommitWrite(i, es) \/ AppendWrite(i, es) PROVE DoneOrNot
    BY <1>3, WriteAnswer DEF DoneOrNot
<1> QED BY <1>1, <1>2, <1>3

\* So is a late command.
LEMMA CommandAnswer ==
    ASSUME MetaInv, NEW c, GoodCommand(c), ApplyCommand(c)
    PROVE  DoneOrNot
BY FileAnswer DEF GoodCommand, ApplyCommand

\* Batches without a malformed extent are merged whole or not at all.
THEOREM ValidBatchesAllOrNothing == BatchesValid /\ Spec => RejectedCommandHasNoEffect
<1>1. MetaInv /\ BatchesValid /\ [Next]_vars => [result' # "Ok" => UNCHANGED state]_vars
    <2> SUFFICES ASSUME MetaInv, BatchesValid, Next
                 PROVE  DoneOrNot
        BY DEF DoneOrNot
    <2>1. \A es \in Batches : GoodBatch(es)
        BY MetaStateAssumption DEF BatchesValid, GoodBatch
    <2> QED BY <2>1, NamespaceAnswer, FileAnswer DEF Next, FileStep
<1>2. BatchesValid => []BatchesValid
    <2>1. BatchesValid => BatchesValid'
        BY DEF BatchesValid, ValidExtent
    <2> QED BY <2>1, PTL
<1> QED BY <1>1, <1>2, MetaInvariant, PTL DEF Spec, RejectedCommandHasNoEffect

\* The calls of a mount that change metadata.
LEMMA MountAnswer ==
    ASSUME FuseInv, FuseNext
    PROVE  UNCHANGED vars \/ DoneOrNot
<1>0. MetaInv
    BY DEF FuseInv
<1>1. CASE ApplyLate
    BY <1>0, <1>1, CommandAnswer DEF ApplyLate, FuseInv, LateOK
<1>2. ASSUME NEW m \in Mounts, OpenStep(m) PROVE UNCHANGED vars \/ DoneOrNot
    <2>1. ASSUME NEW p \in InodeIds, NEW n \in AnyName, NEW flags \in Flags,
                 PulpfsCreate(m, p, n, flags)
          PROVE  DoneOrNot
        <3>1. NamespaceStep
            BY <2>1 DEF PulpfsCreate, NamespaceStep
        <3> QED BY <3>1, NamespaceAnswer
    <2>2. CASE OpenTruncate(m)
        <3>1. PICK i, c : i = request[m].inode_id /\ c = TruncateCommand(i, 0)
            OBVIOUS
        <3>2. GoodCommand(c)
            BY <3>1 DEF TruncateCommand, GoodCommand
        <3> QED BY <1>0, <2>2, <3>1, <3>2, CommandAnswer DEF OpenTruncate, RpcFails
    <2>3. CASE \/ Created(m) \/ OpenTruncated(m)
               \/ \E i \in InodeIds, flags \in Flags : PulpfsOpen(m, i, flags)
               \/ \E i \in DirsOpened : PulpfsOpenDir(m, i)
        BY <2>3 DEF Created, OpenTruncated, PulpfsOpen, PulpfsOpenDir, GetLayoutWorks, GetLayoutFails
    <2> QED BY <1>2, <2>1, <2>2, <2>3 DEF OpenStep
<1>3. ASSUME NEW m \in Mounts, NEW fh, NEW op, CommitHandle(m, fh, op)
      PROVE  UNCHANGED vars \/ DoneOrNot
    <2>1. PICK c : c = CommitCommand(handles[m][fh])
        OBVIOUS
    <2>2. HasPending(m, fh) => GoodCommand(c)
        BY <2>1, CommitCommandIs DEF HasPending
    <2> QED BY <1>0, <1>3, <2>1, <2>2, CommandAnswer DEF CommitHandle, RpcFails
<1>4. ASSUME NEW m \in Mounts, FileIoStep(m) PROVE UNCHANGED vars \/ DoneOrNot
    <2>1. CASE \/ Reload(m)
               \/ \E fh \in files_open[m], off \in Offsets, len \in Lengths : PulpfsWrite(m, fh, off, len)
        BY <2>1 DEF Reload, PulpfsWrite, GetLayoutWorks, GetLayoutFails
    <2> QED BY <1>3, <1>4, <2>1 DEF FileIoStep, PulpfsFlush, PulpfsRelease, PulpfsReleaseDir
<1>5. ASSUME NEW m \in Mounts, PulpfsNamespace(m) PROVE DoneOrNot
    <2>1. NamespaceStep
        BY <1>5 DEF PulpfsNamespace, NamespaceStep
    <2> QED BY <2>1, NamespaceAnswer
<1>6. ASSUME NEW m \in Mounts, NEW i \in InodeIds, PulpfsSetAttr(m, i) PROVE UNCHANGED vars \/ DoneOrNot
    <2>1. ASSUME NEW size \in Sizes, NEW c, c = TruncateCommand(i, size), ApplyCommand(c)
          PROVE  DoneOrNot
        <3>1. GoodCommand(c)
            BY <2>1, MetaStateAssumption DEF TruncateCommand, GoodCommand
        <3> QED BY <1>0, <2>1, <3>1, CommandAnswer
    <2> QED BY <1>6, <2>1, FileAnswer DEF PulpfsSetAttr, RpcFails
<1>7. ASSUME NEW m \in Mounts, SetAttrRest(m) \/ Restart(m) PROVE UNCHANGED vars \/ DoneOrNot
    BY <1>7, FileAnswer DEF SetAttrRest, Restart
<1> QED BY <1>1, <1>2, <1>4, <1>5, <1>6, <1>7 DEF FuseNext

\* No flush, late or repeated, leaves half of its extents in the file.
THEOREM MountsCommitAllOrNothing == KeysOfWrites /\ FuseSpec => RejectedCommandHasNoEffect
<1>1. FuseInv /\ [FuseNext]_fuseVars => [result' # "Ok" => UNCHANGED state]_vars
    BY MountAnswer DEF DoneOrNot, fuseVars
<1> QED BY <1>1, FuseInvariant, PTL DEF FuseSpec, RejectedCommandHasNoEffect

-----------------------------------------------------------------------------
(***************************************************************************)
(* Nothing but releasedir takes a file handle away from the kernel, and it *)
(* only one whose number is that of a directory which was opened.          *)
(***************************************************************************)
HandleUnlessDirectory == \A m \in Mounts : files_open[m] \ DirsOpened \subseteq DOMAIN handles[m]

\* The tables and the request of a mount.  The last part is for the reload that
\* a releasedir may come to when it finds a file handle: it erases that one.
OpenOK(table, files, dirs, r) ==
    /\ files \ DirsOpened \subseteq DOMAIN table /\ dirs \subseteq DirsOpened
    /\ r.at = "reload" => /\ r.op \in {"flush", "release", "releasedir"}
                          /\ r.op = "releasedir" => r.fh \in DirsOpened

\* The inductive invariant: HandleUnlessDirectory and what a request still does.
OpenInv ==
    /\ DOMAIN files_open = Mounts /\ DOMAIN dirs_open = Mounts
    /\ \A m \in Mounts : OpenOK(handles[m], files_open[m], dirs_open[m], request[m])

\* Mount k is not touched, and what the kernel has open stays a table per mount.
Aside(k) ==
    /\ handles'[k] = handles[k] /\ files_open'[k] = files_open[k] /\ dirs_open'[k] = dirs_open[k]
    /\ request'[k] = request[k]

OnlyMount(m) ==
    /\ DOMAIN files_open' = Mounts /\ DOMAIN dirs_open' = Mounts
    /\ \A k \in Mounts \ {m} : Aside(k)

\* One mount at a time.
LEMMA OpenInvStep ==
    ASSUME OpenInv, NEW m, OnlyMount(m),
           m \in Mounts => OpenOK(handles'[m], files_open'[m], dirs_open'[m], request'[m])
    PROVE  OpenInv'
<1>1. ASSUME NEW k \in Mounts
      PROVE  OpenOK(handles'[k], files_open'[k], dirs_open'[k], request'[k])
    BY DEF OnlyMount, Aside, OpenInv
<1> QED BY <1>1 DEF OnlyMount, OpenInv, OpenOK

\* A step that touches none of it.
LEMMA OpenInvKept ==
    ASSUME OpenInv, UNCHANGED <<handles, files_open, dirs_open, request>>
    PROVE  OpenInv'
BY DEF OpenInv, OpenOK

\* A request that moves on, or ends, and leaves the tables.
LEMMA OpenInvRequest ==
    ASSUME FuseInv, OpenInv, NEW m \in Mounts, NEW r,
           UNCHANGED <<handles, files_open, dirs_open>>,
           request' = [request EXCEPT ![m] = r], r.at # "reload"
    PROVE  OpenInv'
<1>1. DOMAIN request = Mounts
    BY DEF FuseInv, MountsOK
<1>2. request'[m] = r /\ OnlyMount(m)
    BY <1>1 DEF OnlyMount, Aside, OpenInv
<1> QED BY <1>2, OpenInvStep DEF OpenInv, OpenOK

\* The kernel gets the number of a handle that is in the table.
LEMMA OpenInvAllocate ==
    ASSUME FuseInv, OpenInv, NEW m \in Mounts, NEW h, AllocateFileHandle(m, h), UNCHANGED dirs_open,
           (request' = request /\ request[m] = Idle) \/ request' = [request EXCEPT ![m] = Idle]
    PROVE  OpenInv'
<1>1. DOMAIN handles = Mounts /\ DOMAIN request = Mounts
    BY DEF FuseInv, MountsOK
<1>2. PICK n, t, fo : /\ n = next_handle_id[m] /\ t = Emplace(handles[m], n, h)
                      /\ fo = files_open[m] \cup {n}
    OBVIOUS
<1>3. handles' = [handles EXCEPT ![m] = t] /\ files_open' = [files_open EXCEPT ![m] = fo]
    BY <1>2 DEF AllocateFileHandle
<1>4. OnlyMount(m)
    BY <1>1, <1>3 DEF OnlyMount, Aside, OpenInv
<1>5. /\ handles'[m] = t /\ files_open'[m] = fo
      /\ request'[m] = Idle /\ dirs_open'[m] = dirs_open[m]
    BY <1>1, <1>3 DEF OpenInv
<1>6. DOMAIN t = DOMAIN handles[m] \cup {n}
    BY <1>2 DEF Emplace
<1>7. files_open[m] \ DirsOpened \subseteq DOMAIN handles[m] /\ dirs_open[m] \subseteq DirsOpened
    BY DEF OpenInv, OpenOK
<1>8. OpenOK(t, fo, dirs_open[m], Idle)
    BY <1>2, <1>6, <1>7 DEF OpenOK, Idle
<1> QED BY <1>4, <1>5, <1>8, OpenInvStep

\* The reply to flush, fsync, release and releasedir.
LEMMA OpenInvReply ==
    ASSUME FuseInv, OpenInv, NEW m \in Mounts, NEW fh, NEW op, NEW table,
           DOMAIN table = DOMAIN handles[m], Reply(m, fh, op, table),
           op = "releasedir" => fh \in DirsOpened, op \in {"flush", "release", "releasedir"}
    PROVE  OpenInv'
<1>1. DOMAIN handles = Mounts /\ DOMAIN request = Mounts
    BY DEF FuseInv, MountsOK
<1>2. files_open[m] \ DirsOpened \subseteq DOMAIN handles[m] /\ dirs_open[m] \subseteq DirsOpened
    BY DEF OpenInv, OpenOK
<1>3. PICK t, fo, do : /\ t = (IF op = "flush" THEN table ELSE Erase(table, fh))
                       /\ fo = (IF op = "release" THEN files_open[m] \ {fh} ELSE files_open[m])
                       /\ do = (IF op = "releasedir" THEN dirs_open[m] \ {fh} ELSE dirs_open[m])
    OBVIOUS
<1>4. /\ handles' = [handles EXCEPT ![m] = t] /\ request' = [request EXCEPT ![m] = Idle]
      /\ files_open' = [files_open EXCEPT ![m] = fo] /\ dirs_open' = [dirs_open EXCEPT ![m] = do]
    BY <1>3 DEF Reply
<1>5. OnlyMount(m)
    BY <1>1, <1>4 DEF OnlyMount, Aside, OpenInv
<1>6. handles'[m] = t /\ files_open'[m] = fo /\ dirs_open'[m] = do /\ request'[m] = Idle
    BY <1>1, <1>4 DEF OpenInv
<1>7. DOMAIN t = IF op = "flush" THEN DOMAIN handles[m] ELSE DOMAIN handles[m] \ {fh}
    BY <1>3 DEF Erase
<1>8. fo \ DirsOpened \subseteq DOMAIN t /\ do \subseteq DirsOpened
    BY <1>2, <1>3, <1>7
<1>9. OpenOK(t, fo, do, Idle)
    BY <1>8 DEF OpenOK, Idle
<1> QED BY <1>5, <1>6, <1>9, OpenInvStep

\* Flush, release and releasedir, with and without something to commit.
LEMMA OpenInvCommit ==
    ASSUME FuseInv, OpenInv, NEW m \in Mounts, NEW fh, NEW op, CommitHandle(m, fh, op),
           op = "releasedir" => fh \in DirsOpened, op \in {"flush", "release", "releasedir"}
    PROVE  OpenInv'
<1>1. CASE Reply(m, fh, op, handles[m])
    BY <1>1, OpenInvReply
<1>2. CASE ~Reply(m, fh, op, handles[m])
    <2>1. PICK g, r : g = Committed(handles[m][fh]) /\ r = [at |-> "reload", fh |-> fh, op |-> op]
        OBVIOUS
    <2>2. /\ fh \in DOMAIN handles[m] /\ handles' = [handles EXCEPT ![m][fh] = g]
          /\ request' = [request EXCEPT ![m] = r] /\ UNCHANGED <<files_open, dirs_open>>
        BY <1>2, <2>1 DEF CommitHandle, NotCommitted, HasPending
    <2>3. DOMAIN handles = Mounts /\ DOMAIN request = Mounts
        BY DEF FuseInv, MountsOK
    <2>4. OnlyMount(m)
        BY <2>2, <2>3 DEF OnlyMount, Aside, OpenInv
    <2>5. DOMAIN handles'[m] = DOMAIN handles[m] /\ request'[m] = r
        BY <2>2, <2>3
    <2>6. OpenOK(handles'[m], files_open'[m], dirs_open'[m], r)
        BY <2>1, <2>2, <2>5 DEF OpenInv, OpenOK
    <2> QED BY <2>4, <2>5, <2>6, OpenInvStep
<1> QED BY <1>1, <1>2

\* Create, open and opendir.
LEMMA OpenInvOpens ==
    ASSUME FuseInv, OpenInv, NEW m \in Mounts, OpenStep(m)
    PROVE  OpenInv'
<1>1. ASSUME NEW p \in InodeIds, NEW n \in AnyName, NEW flags \in Flags, PulpfsCreate(m, p, n, flags)
      PROVE  OpenInv'
    <2>1. PICK r : r = [at |-> "created", flags |-> flags, inode_id |-> next_inode_id]
        OBVIOUS
    <2>2. /\ UNCHANGED <<handles, files_open, dirs_open>>
          /\ request' = request \/ request' = [request EXCEPT ![m] = r]
          /\ r.at # "reload"
        BY <1>1, <2>1 DEF PulpfsCreate
    <2> QED BY <2>2, OpenInvKept, OpenInvRequest
<1>2. ASSUME NEW i \in InodeIds, NEW flags \in Flags, PulpfsOpen(m, i, flags)
      PROVE  OpenInv'
    <2>1. PICK r, h : /\ r = [at |-> "truncate", flags |-> flags, inode_id |-> i]
                      /\ h = NewHandle(i, flags, GetLayout(i))
        OBVIOUS
    <2>2. /\ r.at # "reload" /\ request[m] = Idle /\ UNCHANGED dirs_open
          /\ \/ UNCHANGED <<handles, files_open>> /\ request' = [request EXCEPT ![m] = r]
             \/ AllocateFileHandle(m, h) /\ request' = request
        BY <1>2, <2>1 DEF PulpfsOpen, CanOpen
    <2> QED BY <2>2, OpenInvRequest, OpenInvAllocate
<1>3. CASE OpenTruncate(m)
    <2>1. PICK r, q : r = request[m] /\ q = [r EXCEPT !.at = "truncated"]
        OBVIOUS
    <2>2. r \in OpenRequest
        BY <1>3, <2>1, OpenRequestIs DEF OpenTruncate
    <2>3. q.at = "truncated" /\ Idle.at = "idle"
        BY <2>1, <2>2 DEF OpenRequest, Idle
    <2>4. /\ UNCHANGED <<handles, files_open, dirs_open>>
          /\ request' = [request EXCEPT ![m] = q] \/ request' = [request EXCEPT ![m] = Idle]
        BY <1>3, <2>1 DEF OpenTruncate
    <2> QED BY <2>2, <2>3, <2>4, OpenInvRequest
<1>4. CASE Created(m) \/ OpenTruncated(m)
    <2>1. /\ request' = [request EXCEPT ![m] = Idle]
          /\ UNCHANGED dirs_open /\ Idle.at = "idle"
          /\ \/ \E h : AllocateFileHandle(m, h)
             \/ UNCHANGED <<handles, files_open>>
        BY <1>4 DEF Created, OpenTruncated, Idle
    <2> QED BY <2>1, OpenInvAllocate, OpenInvRequest
<1>5. ASSUME NEW i \in DirsOpened, PulpfsOpenDir(m, i) PROVE OpenInv'
    <2>1. /\ dirs_open' = [dirs_open EXCEPT ![m] = dirs_open[m] \cup {i}]
          /\ UNCHANGED <<handles, files_open, request>>
        BY <1>5 DEF PulpfsOpenDir
    <2>2. OnlyMount(m)
        BY <2>1 DEF OnlyMount, Aside, OpenInv
    <2>3. OpenOK(handles[m], files_open[m], dirs_open[m] \cup {i}, request[m])
        BY DEF OpenInv, OpenOK
    <2>4. dirs_open'[m] = dirs_open[m] \cup {i}
        BY <2>1 DEF OpenInv
    <2> QED BY <2>1, <2>2, <2>3, <2>4, OpenInvStep
<1> QED BY <1>1, <1>2, <1>3, <1>4, <1>5 DEF OpenStep

\* Write, flush, release and releasedir.
LEMMA OpenInvFileIo ==
    ASSUME FuseInv, OpenInv, NEW m \in Mounts, FileIoStep(m)
    PROVE  OpenInv'
<1>1. ASSUME NEW fh \in files_open[m], NEW off \in Offsets, NEW len \in Lengths,
             PulpfsWrite(m, fh, off, len)
      PROVE  OpenInv'
    <2>1. PICK g : handles' = [handles EXCEPT ![m][fh] = g]
        BY <1>1 DEF PulpfsWrite
    <2>2. UNCHANGED <<files_open, dirs_open, request>>
        BY <1>1 DEF PulpfsWrite
    <2>3. DOMAIN handles = Mounts
        BY DEF FuseInv, MountsOK
    <2>4. OnlyMount(m) /\ DOMAIN handles'[m] = DOMAIN handles[m]
        BY <2>1, <2>2, <2>3 DEF OnlyMount, Aside, OpenInv
    <2>5. OpenOK(handles'[m], files_open'[m], dirs_open'[m], request'[m])
        BY <2>2, <2>4 DEF OpenInv, OpenOK
    <2> QED BY <2>4, <2>5, OpenInvStep
<1>2. CASE Reload(m)
    <2>1. PICK r : r = request[m]
        OBVIOUS
    <2>2. PICK table : Reply(m, r.fh, r.op, table) /\ DOMAIN table = DOMAIN handles[m]
        BY <1>2, <2>1 DEF Reload
    <2>3. r.op \in {"flush", "release", "releasedir"} /\ (r.op = "releasedir" => r.fh \in DirsOpened)
        BY <1>2, <2>1 DEF Reload, OpenInv, OpenOK
    <2> QED BY <2>2, <2>3, OpenInvReply
<1>3. CASE PulpfsReleaseDir(m)
    <2>1. PICK fh \in dirs_open[m] : CommitHandle(m, fh, "releasedir")
        BY <1>3 DEF PulpfsReleaseDir
    <2>2. fh \in DirsOpened
        BY <2>1 DEF OpenInv, OpenOK
    <2> QED BY <2>1, <2>2, OpenInvCommit
<1>4. CASE PulpfsFlush(m) \/ PulpfsRelease(m)
    BY <1>4, OpenInvCommit DEF PulpfsFlush, PulpfsRelease
<1> QED BY <1>1, <1>2, <1>3, <1>4 DEF FileIoStep

\* Each step keeps OpenInv.
LEMMA OpenInvNext ==
    ASSUME FuseInv, OpenInv, [FuseNext]_fuseVars
    PROVE  OpenInv'
<1>0. Idle.at = "idle"
    BY DEF Idle
<1>1. CASE UNCHANGED fuseVars \/ ApplyLate
    BY <1>1, OpenInvKept DEF fuseVars, client, ApplyLate
<1>2. ASSUME NEW m \in Mounts, PulpfsNamespace(m) PROVE OpenInv'
    BY <1>2, OpenInvKept DEF PulpfsNamespace, client
<1>3. ASSUME NEW m \in Mounts, SetAttrRest(m) PROVE OpenInv'
    BY <1>0, <1>3, OpenInvRequest DEF SetAttrRest
<1>4. ASSUME NEW m \in Mounts, NEW i \in InodeIds, PulpfsSetAttr(m, i) PROVE OpenInv'
    <2>1. PICK r : r = [at |-> "setattr", inode_id |-> i]
        OBVIOUS
    <2>2. /\ UNCHANGED <<handles, files_open, dirs_open>> /\ r.at = "setattr"
          /\ request' = request \/ request' = [request EXCEPT ![m] = r]
        BY <1>4, <2>1 DEF PulpfsSetAttr
    <2> QED BY <2>2, OpenInvKept, OpenInvRequest
<1>5. ASSUME NEW m \in Mounts, Restart(m) PROVE OpenInv'
    <2>1. DOMAIN handles = Mounts /\ DOMAIN request = Mounts
        BY DEF FuseInv, MountsOK
    <2>2. OnlyMount(m)
        BY <1>5, <2>1 DEF Restart, OnlyMount, Aside, OpenInv
    <2>3. files_open'[m] = {} /\ dirs_open'[m] = {} /\ request'[m] = Idle
        BY <1>5, <2>1 DEF Restart, OpenInv
    <2>4. OpenOK(handles'[m], {}, {}, Idle)
        BY <1>0 DEF OpenOK
    <2> QED BY <2>2, <2>3, <2>4, OpenInvStep
<1> QED BY <1>1, <1>2, <1>3, <1>4, <1>5, OpenInvOpens, OpenInvFileIo DEF FuseNext

\* Nothing is open at the start.
LEMMA OpenInvInit == FuseInit => OpenInv
BY DEF FuseInit, OpenInv, OpenOK, Idle

\* Whatever is flushed, released, opened, failed or restarted: an open file has
\* lost its handle only if its number is that of a directory which was opened.
\* So OpenFileHasHandle can fail in no other way than that of fuse_releasedir.
THEOREM OnlyReleaseDirDropsHandles == KeysOfWrites /\ FuseSpec => []HandleUnlessDirectory
<1>1. FuseInv /\ OpenInv /\ [FuseNext]_fuseVars => OpenInv'
    BY OpenInvNext
<1>2. OpenInv => HandleUnlessDirectory
    BY DEF OpenInv, OpenOK, HandleUnlessDirectory
<1> QED BY <1>1, <1>2, OpenInvInit, FuseInvariant, PTL DEF FuseSpec

-----------------------------------------------------------------------------
(***************************************************************************)
(* The collector of FuseGc beside the mounts.                              *)
(***************************************************************************)
\* What a step of the mounts brings into the files was wanted before it.
BringsWanted == \E E \in SUBSET WantedExtents : MetaChange(E)

\* A step that leaves the metadata alone.
LEMMA NothingBrought ==
    ASSUME FuseInv, UNCHANGED vars
    PROVE  BringsWanted
BY MetaKept DEF BringsWanted

\* A command carried out.
LEMMA CommandBrings ==
    ASSUME FuseInv, NEW c, GoodCommand(c), CommandExtents(c) \subseteq WantedExtents, ApplyCommand(c)
    PROVE  BringsWanted
BY CommandCall DEF FuseInv, BringsWanted

\* A truncation that a mount asks for.
LEMMA TruncateBrings ==
    ASSUME FuseInv, NEW i, NEW size \in Nat, NEW c, c = TruncateCommand(i, size),
           ApplyCommand(c) \/ RpcFails(c)
    PROVE  BringsWanted
<1>1. GoodCommand(c) /\ CommandExtents(c) = {}
    BY DEF TruncateCommand, GoodCommand, CommandExtents
<1> QED BY <1>1, CommandBrings, NothingBrought DEF RpcFails

\* setattr without a size, or after it.
LEMMA SetAttrBrings ==
    ASSUME FuseInv, NEW i, NEW mode \in Modes, SetAttr(i, mode)
    PROVE  BringsWanted
BY SetAttrCall DEF FuseInv, BringsWanted

\* The calls that name entries.
LEMMA NamespaceBrings ==
    ASSUME FuseInv, NamespaceStep
    PROVE  BringsWanted
BY NamespaceCall DEF FuseInv, BringsWanted

\* Create, open and opendir.
LEMMA OpenBrings ==
    ASSUME FuseInv, NEW m \in Mounts, OpenStep(m)
    PROVE  BringsWanted
<1>1. ASSUME NEW p \in InodeIds, NEW n \in AnyName, NEW flags \in Flags, PulpfsCreate(m, p, n, flags)
      PROVE  BringsWanted
    <2>1. NamespaceStep
        BY <1>1 DEF PulpfsCreate, NamespaceStep
    <2> QED BY <2>1, NamespaceBrings
<1>2. CASE OpenTruncate(m)
    <2>1. PICK i, c : i = request[m].inode_id /\ c = TruncateCommand(i, 0)
        OBVIOUS
    <2>2. ApplyCommand(c) \/ RpcFails(c)
        BY <1>2, <2>1 DEF OpenTruncate
    <2> QED BY <2>1, <2>2, TruncateBrings
<1>3. CASE \/ Created(m) \/ OpenTruncated(m)
           \/ \E i \in InodeIds, flags \in Flags : PulpfsOpen(m, i, flags)
           \/ \E i \in DirsOpened : PulpfsOpenDir(m, i)
    <2>1. UNCHANGED vars
        BY <1>3 DEF Created, OpenTruncated, PulpfsOpen, PulpfsOpenDir, GetLayoutWorks, GetLayoutFails
    <2> QED BY <2>1, NothingBrought
<1> QED BY <1>1, <1>2, <1>3 DEF OpenStep

\* Write, flush, release and releasedir.
LEMMA FileIoBrings ==
    ASSUME FuseInv, NEW m \in Mounts, FileIoStep(m)
    PROVE  BringsWanted
<1>1. ASSUME NEW fh, NEW op, CommitHandle(m, fh, op) PROVE BringsWanted
    <2>1. PICK c : c = CommitCommand(handles[m][fh])
        OBVIOUS
    <2>2. UNCHANGED vars \/ (fh \in DOMAIN handles[m] /\ ApplyCommand(c))
        BY <1>1, <2>1 DEF CommitHandle, HasPending, RpcFails
    <2>3. fh \in DOMAIN handles[m] => GoodCommand(c) /\ CommandExtents(c) \subseteq WantedExtents
        BY <2>1, CommitCommandIs
    <2> QED BY <2>2, <2>3, NothingBrought, CommandBrings
<1>2. ASSUME NEW fh, NEW off \in Offsets, NEW len \in Lengths, PulpfsWrite(m, fh, off, len)
      PROVE  BringsWanted
    <2>1. UNCHANGED vars
        BY <1>2 DEF PulpfsWrite
    <2> QED BY <2>1, NothingBrought
<1>3. CASE Reload(m)
    <2>1. UNCHANGED vars
        BY <1>3 DEF Reload, GetLayoutWorks, GetLayoutFails
    <2> QED BY <2>1, NothingBrought
<1> QED BY <1>1, <1>2, <1>3 DEF FileIoStep, PulpfsFlush, PulpfsRelease, PulpfsReleaseDir

\* Each step of the mounts.
LEMMA StepBrings ==
    ASSUME FuseInv, [FuseNext]_fuseVars
    PROVE  BringsWanted
<1>1. CASE UNCHANGED fuseVars
    <2>1. UNCHANGED vars
        BY <1>1 DEF fuseVars
    <2> QED BY <2>1, NothingBrought
<1>2. CASE ApplyLate
    <2>1. PICK l \in late : ApplyCommand(l.command)
        BY <1>2 DEF ApplyLate
    <2>2. PICK c : c = l.command
        OBVIOUS
    <2>3. GoodCommand(c) /\ CommandExtents(c) \subseteq WantedExtents /\ ApplyCommand(c)
        BY <2>1, <2>2, WantedIs DEF FuseInv, LateOK
    <2> QED BY <2>3, CommandBrings
<1>3. ASSUME NEW m \in Mounts, PulpfsNamespace(m) PROVE BringsWanted
    <2>1. NamespaceStep
        BY <1>3 DEF PulpfsNamespace, NamespaceStep
    <2> QED BY <2>1, NamespaceBrings
<1>4. ASSUME NEW m \in Mounts, NEW i \in InodeIds, PulpfsSetAttr(m, i) PROVE BringsWanted
    <2>1. ASSUME NEW size \in Sizes, NEW c, c = TruncateCommand(i, size),
                 ApplyCommand(c) \/ RpcFails(c)
          PROVE  BringsWanted
        BY <2>1, TruncateBrings, MetaStateAssumption
    <2> QED BY <1>4, <2>1, SetAttrBrings DEF PulpfsSetAttr
<1>5. ASSUME NEW m \in Mounts, SetAttrRest(m) PROVE BringsWanted
    BY <1>5, SetAttrBrings, NothingBrought DEF SetAttrRest
<1>6. ASSUME NEW m \in Mounts, Restart(m) PROVE BringsWanted
    <2>1. UNCHANGED vars
        BY <1>6 DEF Restart
    <2> QED BY <2>1, NothingBrought
<1> QED BY <1>1, <1>2, <1>3, <1>4, <1>5, <1>6, OpenBrings, FileIoBrings DEF FuseNext

\* What waits is wanted; the rest of what is wanted is stored.
LEMMA WaitingIs ==
    /\ \A e : e \in WaitingExtents <=>
          \/ \E m \in Mounts : \E fh \in DOMAIN handles[m] : e \in Pending(handles[m][fh])
          \/ \E l \in late : e \in CommandExtents(l.command)
    /\ \A e : e \in WaitingExtents' <=>
          \/ \E m \in Mounts : \E fh \in DOMAIN handles'[m] : e \in Pending(handles'[m][fh])
          \/ \E l \in late' : e \in CommandExtents(l.command)
    /\ \A e : e \in WantedExtents <=> e \in StoredExtents \/ e \in WaitingExtents
    /\ \A e : e \in WantedExtents' <=> e \in StoredExtents' \/ e \in WaitingExtents'
<1>1. /\ \A e : e \in WaitingExtents <=>
             \/ \E m \in Mounts : \E fh \in DOMAIN handles[m] : e \in Pending(handles[m][fh])
             \/ \E l \in late : e \in CommandExtents(l.command)
      /\ \A e : e \in WaitingExtents' <=>
             \/ \E m \in Mounts : \E fh \in DOMAIN handles'[m] : e \in Pending(handles'[m][fh])
             \/ \E l \in late' : e \in CommandExtents(l.command)
    BY DEF WaitingExtents
<1> QED BY <1>1, WantedIs

\* An object that was put before a step does not come to be wanted by it, nor
\* to wait: only a write makes a key, and a new one.
LEMMA KeysTracked ==
    ASSUME FuseInv, KeysOfWrites, [FuseNext]_fuseVars, NEW k \in DOMAIN objects
    PROVE  /\ k \in KeysOf(WaitingExtents') => k \in KeysOf(WaitingExtents)
           /\ k \in KeysOf(WantedExtents') => k \in KeysOf(WantedExtents)
<1>1. ASSUME NEW e \in WaitingExtents', e.key = k PROVE e \in WaitingExtents
    <2>1. ASSUME NEW m \in Mounts, NEW fh \in DOMAIN handles'[m], e \in Pending(handles'[m][fh])
          PROVE  e \in WaitingExtents
        <3>1. fh \in DOMAIN handles[m] /\ e \in Pending(handles[m][fh])
            BY <1>1, <2>1, StepWaiting, StepPending DEF JustPut
        <3> QED BY <3>1, WaitingIs
    <2>2. ASSUME NEW l \in late', e \in CommandExtents(l.command)
          PROVE  e \in WaitingExtents
        <3>1. CASE l \in late
            BY <2>2, <3>1, WaitingIs
        <3>2. CASE l \notin late
            <4>1. PICK c : c = l.command
                OBVIOUS
            <4>2. c.op # "truncate"
                BY <2>2, <4>1 DEF CommandExtents
            <4>3. PICK m \in Mounts : \E fh \in DOMAIN handles[m] : c = CommitCommand(handles[m][fh])
                BY <3>2, <4>1, <4>2, LateFrom
            <4>4. PICK fh \in DOMAIN handles[m] : c = CommitCommand(handles[m][fh])
                BY <4>3
            <4>5. CommandExtents(c) = Pending(handles[m][fh])
                BY <4>4, CommitCommandIs
            <4> QED BY <2>2, <4>1, <4>5, WaitingIs
        <3> QED BY <3>1, <3>2
    <2> QED BY <2>1, <2>2, WaitingIs
<1>2. ASSUME NEW e \in StoredExtents', e.key = k PROVE k \in KeysOf(WantedExtents)
    <2>1. FuseInv'
        BY FuseInvStep
    <2>2. PICK E \in SUBSET WantedExtents : MetaChange(E)
        BY StepBrings DEF BringsWanted
    <2>3. PICK j \in DOMAIN layouts' : e \in layouts'[j].extents
        BY DEF StoredExtents
    <2>4. PartsOf(layouts'[j].extents, StoredExtents \cup E)
        BY <2>1, <2>2, MetaChangeIs DEF FuseInv
    <2>5. PICK x \in StoredExtents \cup E : x.key = e.key
        BY <2>3, <2>4 DEF PartsOf, Part
    <2>6. x \in WantedExtents
        BY <2>2, <2>5, WantedIs
    <2> QED BY <1>2, <2>5, <2>6 DEF KeysOf
<1>3. k \in KeysOf(WaitingExtents') => k \in KeysOf(WaitingExtents)
    BY <1>1 DEF KeysOf
<1>4. ASSUME k \in KeysOf(WantedExtents') PROVE k \in KeysOf(WantedExtents)
    <2>1. PICK e \in WantedExtents' : e.key = k
        BY <1>4 DEF KeysOf
    <2>2. CASE e \in WaitingExtents'
        <3>1. e \in WantedExtents
            BY <1>1, <2>1, <2>2, WaitingIs
        <3> QED BY <2>1, <3>1 DEF KeysOf
    <2> QED BY <1>2, <2>1, <2>2, WaitingIs
<1> QED BY <1>3, <1>4

\* A wanted object that is not overdue is there, and neither a listing on its
\* way to the sweep nor the cutoff of the sweep condemns it.
KeySafe(k) ==
    /\ modified[k] \in Nat /\ modified[k] <= now
    /\ k \notin overdue =>
          /\ k \notin removed
          /\ k \in KeysOf(WaitingExtents) => now - modified[k] <= MaxPending
          /\ gc.at = "cutoff" => k \in gc.live_objects \/ gc.listed_at - modified[k] <= MaxPending
          /\ gc.at = "sweep" => k \in gc.live_objects \/ gc.cutoff < modified[k]

\* What RunOnce knows of the time.
RunOnceOK ==
    /\ gc.at = "cutoff" => /\ gc.listed_at \in Nat
                           /\ gc.listed_at <= now /\ now - gc.listed_at <= MaxListDelay
    /\ gc.at = "sweep" => gc.cutoff \in Int /\ gc.cutoff < now

\* The inductive invariant, beside that of the mounts.
SparesInv == now \in Nat /\ RunOnceOK /\ \A k \in KeysOf(WantedExtents) : KeySafe(k)

\* --gc_grace_seconds is longer than a commit and the listing may take.
GraceCovers == MaxPending + MaxListDelay < GraceMs

\* The mounts: an object that comes to be wanted is as young as can be.
LEMMA SparesMounts ==
    ASSUME FuseInv, KeysOfWrites, SparesInv, GraceCovers, MountsStep
    PROVE  SparesInv'
<1>1. FuseInv' /\ [FuseNext]_fuseVars
    BY FuseInvStep DEF MountsStep
<1>2. /\ now' = now /\ overdue' = overdue /\ gc' = gc /\ removed' = removed \ PutNow
      /\ modified' = [k \in DOMAIN objects' |-> IF k \in PutNow THEN now ELSE modified[k]]
    BY DEF MountsStep
<1>3. now \in Nat /\ RunOnceOK
    BY DEF SparesInv
<1>4. RunOnceOK'
    BY <1>2, <1>3 DEF RunOnceOK
<1>5. ASSUME NEW k \in KeysOf(WantedExtents') PROVE KeySafe(k)'
    <2>1. k \in DOMAIN objects'
        BY <1>1, <1>5 DEF KeysOf, FuseInv, LiveExtentsBacked, Backed
    <2>2. CASE k \in DOMAIN objects
        <3>1. objects'[k] = objects[k]
            BY <1>1, <2>1, <2>2, ObjectsStay
        <3>2. k \notin PutNow
            BY <2>2, <3>1 DEF PutNow
        <3>3. modified'[k] = modified[k] /\ (k \in removed' => k \in removed)
            BY <1>2, <2>1, <3>2
        <3>4. KeySafe(k) /\ (k \in KeysOf(WaitingExtents') => k \in KeysOf(WaitingExtents))
            BY <1>1, <1>5, <2>2, KeysTracked DEF SparesInv
        <3> QED BY <1>2, <3>3, <3>4 DEF KeySafe, KeysOf
    <2>3. CASE k \notin DOMAIN objects
        <3>1. k \in PutNow
            BY <2>1, <2>3 DEF PutNow
        <3>2. modified'[k] = now /\ k \notin removed'
            BY <1>2, <2>1, <3>1
        <3>3. gc.at = "cutoff" => gc.listed_at - now <= MaxPending
            BY <1>3, FuseGcAssumption DEF RunOnceOK
        <3>4. gc.at = "sweep" => gc.cutoff < now
            BY <1>3 DEF RunOnceOK
        <3>5. now - now <= MaxPending
            BY <1>3, FuseGcAssumption
        <3> QED BY <1>2, <1>3, <3>2, <3>3, <3>4, <3>5 DEF KeySafe
    <2> QED BY <2>2, <2>3
<1>6. \A k \in KeysOf(WantedExtents)' : KeySafe(k)'
    BY <1>5 DEF KeysOf
<1> QED BY <1>2, <1>3, <1>4, <1>6 DEF SparesInv

\* The mounts stand still.
LEMMA WantedStays ==
    ASSUME UNCHANGED fuseVars
    PROVE  /\ KeysOf(WantedExtents)' = KeysOf(WantedExtents)
           /\ KeysOf(WaitingExtents)' = KeysOf(WaitingExtents)
<1>1. handles' = handles /\ late' = late /\ layouts' = layouts
    BY DEF fuseVars, vars, client
<1> QED BY <1>1 DEF WantedExtents, WaitingExtents, KeysOf

\* Time passes: what waits too long is overdue from then on.
LEMMA SparesTick ==
    ASSUME SparesInv, Tick
    PROVE  SparesInv'
<1>1. /\ UNCHANGED fuseVars /\ now' = now + 1 /\ overdue' = overdue \cup OverdueAt(now + 1)
      /\ modified' = modified /\ removed' = removed /\ gc' = gc
      /\ gc.at = "cutoff" => now - gc.listed_at < MaxListDelay
    BY DEF Tick
<1>2. now \in Nat /\ RunOnceOK
    BY DEF SparesInv
<1>3. RunOnceOK'
    BY <1>1, <1>2, FuseGcAssumption DEF RunOnceOK
<1>4. ASSUME NEW k \in KeysOf(WantedExtents) PROVE KeySafe(k)'
    <2>1. KeySafe(k)
        BY DEF SparesInv
    <2>2. k \notin overdue' => k \notin overdue /\ (k \in KeysOf(WaitingExtents) => now' - modified[k] <= MaxPending)
        <3>1. modified[k] \in Nat
            BY <2>1 DEF KeySafe
        <3>2. ASSUME k \in KeysOf(WaitingExtents), (now + 1) - modified[k] > MaxPending
              PROVE  k \in overdue'
            <4>1. k \in OverdueAt(now + 1)
                BY <3>2 DEF OverdueAt
            <4> QED BY <1>1, <4>1
        <3> QED BY <1>1, <1>2, <3>1, <3>2, FuseGcAssumption
    <2>3. modified[k] <= now'
        BY <1>1, <1>2, <2>1 DEF KeySafe
    <2> QED BY <1>1, <2>1, <2>2, <2>3, WantedStays DEF KeySafe
<1> QED BY <1>1, <1>2, <1>3, <1>4, WantedStays DEF SparesInv

\* The live listing leaves out only what waits.
LEMMA SparesListing ==
    ASSUME FuseInv, KeysOfWrites, SparesInv, CallListLiveObjects
    PROVE  SparesInv'
<1>1. /\ UNCHANGED fuseVars /\ now' = now /\ overdue' = overdue
      /\ modified' = modified /\ removed' = removed
      /\ gc' = [at |-> "cutoff", live_objects |-> ListLiveObjects, listed_at |-> now]
    BY DEF CallListLiveObjects, store
<1>2. now \in Nat
    BY DEF SparesInv
<1>3. RunOnceOK'
    BY <1>1, <1>2, FuseGcAssumption DEF RunOnceOK
<1>4. ASSUME NEW k \in KeysOf(WantedExtents) PROVE KeySafe(k)'
    <2>1. KeySafe(k)
        BY DEF SparesInv
    <2>2. k \in DOMAIN objects
        BY DEF KeysOf, FuseInv, LiveExtentsBacked, Backed
    <2>3. k # NoKey
        BY <2>2, NoKeyIsNoKey DEF FuseInv, BucketOK, KeyUsed, KeysOfWrites
    <2>4. k \in KeysOf(WaitingExtents) \/ k \in ListLiveObjects
        <3>1. PICK e \in WantedExtents : e.key = k
            BY DEF KeysOf
        <3>2. e \in WaitingExtents => k \in KeysOf(WaitingExtents)
            BY <3>1 DEF KeysOf
        <3>3. ASSUME NEW i \in DOMAIN layouts, e \in layouts[i].extents
              PROVE  k \in ListLiveObjects
            BY <2>3, <3>1, <3>3 DEF ListLiveObjects
        <3> QED BY <3>1, <3>2, <3>3, WaitingIs DEF StoredExtents
    <2>5. k \notin overdue /\ k \notin ListLiveObjects => now - modified[k] <= MaxPending
        BY <2>1, <2>4 DEF KeySafe
    <2> QED BY <1>1, <2>1, <2>5, WantedStays DEF KeySafe
<1> QED BY <1>1, <1>2, <1>3, <1>4, WantedStays DEF SparesInv

\* The cutoff is older than the listing by more than a commit may take.
LEMMA SparesCutoff ==
    ASSUME SparesInv, GraceCovers, ReadClock
    PROVE  SparesInv'
<1>1. /\ UNCHANGED fuseVars /\ now' = now /\ overdue' = overdue
      /\ modified' = modified /\ removed' = removed /\ gc.at = "cutoff"
      /\ gc' = [at |-> "sweep", live_objects |-> gc.live_objects, cutoff |-> now - GraceMs]
    BY DEF ReadClock, store
<1>2. /\ now \in Nat /\ gc.listed_at \in Nat
      /\ gc.listed_at <= now /\ now - gc.listed_at <= MaxListDelay
    BY <1>1 DEF SparesInv, RunOnceOK
<1>3. now - GraceMs \in Int /\ now - GraceMs < now
    BY <1>2, FuseGcAssumption DEF GraceCovers
<1>4. RunOnceOK'
    BY <1>1, <1>3 DEF RunOnceOK
<1>5. ASSUME NEW k \in KeysOf(WantedExtents) PROVE KeySafe(k)'
    <2>1. KeySafe(k)
        BY DEF SparesInv
    <2>2. gc.listed_at - modified[k] <= MaxPending => now - GraceMs < modified[k]
        BY <1>2, <2>1, FuseGcAssumption DEF KeySafe, GraceCovers
    <2> QED BY <1>1, <2>1, <2>2, WantedStays DEF KeySafe
<1> QED BY <1>1, <1>2, <1>4, <1>5, WantedStays DEF SparesInv

\* An orphan is not wanted, or it is overdue.
LEMMA SparesDelete ==
    ASSUME SparesInv, CallDeleteObject
    PROVE  SparesInv'
<1>1. /\ UNCHANGED fuseVars /\ now' = now /\ overdue' = overdue
      /\ modified' = modified /\ gc' = gc /\ gc.at = "sweep"
    BY DEF CallDeleteObject
<1>2. PICK x : IsOrphan(x) /\ removed' = removed \cup {x}
    BY DEF CallDeleteObject
<1>3. now \in Nat /\ RunOnceOK
    BY DEF SparesInv
<1>4. RunOnceOK'
    BY <1>1, <1>3 DEF RunOnceOK
<1>5. ASSUME NEW k \in KeysOf(WantedExtents) PROVE KeySafe(k)'
    <2>1. KeySafe(k)
        BY DEF SparesInv
    <2>2. ASSUME k = x PROVE k \in overdue
        <3>1. k \notin gc.live_objects /\ modified[k] <= gc.cutoff
            BY <1>2, <2>2 DEF IsOrphan
        <3>2. modified[k] \in Nat /\ gc.cutoff \in Int
            BY <1>1, <1>3, <2>1 DEF KeySafe, RunOnceOK
        <3> QED BY <1>1, <2>1, <3>1, <3>2 DEF KeySafe
    <2> QED BY <1>1, <1>2, <2>1, <2>2, WantedStays DEF KeySafe
<1> QED BY <1>1, <1>3, <1>4, <1>5, WantedStays DEF SparesInv

\* The run is over.
LEMMA SparesReturn ==
    ASSUME SparesInv, Return
    PROVE  SparesInv'
<1>1. /\ UNCHANGED fuseVars /\ now' = now /\ overdue' = overdue
      /\ modified' = modified /\ removed' = removed /\ gc' = NotRunning
    BY DEF Return, store
<1>2. gc'.at = "idle"
    BY <1>1 DEF NotRunning
<1> QED BY <1>1, <1>2, WantedStays DEF SparesInv, RunOnceOK, KeySafe

\* Both invariants together, beside the collector.
GcFuseInv == FuseInv /\ SparesInv /\ KeysOfWrites /\ GraceCovers

LEMMA GcFuseInvStep ==
    ASSUME GcFuseInv, [FuseGcNext]_fuseGcVars
    PROVE  GcFuseInv'
<1>0. FuseInv /\ SparesInv /\ KeysOfWrites /\ GraceCovers
    BY DEF GcFuseInv
<1>1. KeysOfWrites' /\ GraceCovers'
    BY <1>0 DEF KeysOfWrites, GraceCovers
<1>2. [FuseNext]_fuseVars
    BY DEF FuseGcNext, MountsStep, Tick, RunOnce, CallListLiveObjects, ReadClock, CallDeleteObject,
           Return, fuseGcVars
<1>3. FuseInv'
    BY <1>0, <1>2, FuseInvStep
<1>4. CASE UNCHANGED fuseGcVars
    <2>1. /\ UNCHANGED fuseVars /\ now' = now /\ overdue' = overdue
          /\ modified' = modified /\ removed' = removed /\ gc' = gc
        BY <1>4 DEF fuseGcVars, store
    <2>2. SparesInv'
        BY <1>0, <2>1, WantedStays DEF SparesInv, RunOnceOK, KeySafe
    <2> QED BY <1>1, <1>3, <2>2 DEF GcFuseInv
<1>5. CASE FuseGcNext
    <2>1. SparesInv'
        BY <1>0, <1>5, SparesMounts, SparesTick, SparesListing, SparesCutoff, SparesDelete,
           SparesReturn DEF FuseGcNext, RunOnce
    <2> QED BY <1>1, <1>3, <2>1 DEF GcFuseInv
<1> QED BY <1>4, <1>5

LEMMA SparesInit ==
    ASSUME FuseGcInit
    PROVE  SparesInv
<1>1. /\ FuseInit /\ now = 0 /\ gc = NotRunning
    BY DEF FuseGcInit
<1>2. KeysOf(WantedExtents) = {}
    <2>1. /\ \A m \in Mounts : DOMAIN handles[m] = {}
          /\ StoredExtents = {} /\ late = {}
        BY <1>1 DEF FuseInit, Init, StoredExtents
    <2>2. WantedExtents = {}
        BY <2>1, WantedIs
    <2> QED BY <2>2 DEF KeysOf
<1> QED BY <1>1, <1>2 DEF SparesInv, RunOnceOK, NotRunning

LEMMA GcFuseInvariant == KeysOfWrites /\ GraceCovers /\ FuseGcSpec => []GcFuseInv
<1>1. KeysOfWrites /\ GraceCovers /\ FuseGcInit => GcFuseInv
    BY FuseInvInit, SparesInit DEF FuseGcInit, GcFuseInv
<1>2. GcFuseInv /\ [FuseGcNext]_fuseGcVars => GcFuseInv'
    BY GcFuseInvStep
<1> QED BY <1>1, <1>2, PTL DEF FuseGcSpec

\* The collector takes no object that a file refers to or that may still come
\* into one, unless it waited for its commit longer than MaxPending: for any
\* number of mounts, writes, failures and runs of the collector, if the grace
\* period is longer than such a wait and the delay of the listing together.
THEOREM CollectorSparesWanted ==
    KeysOfWrites /\ MaxPending + MaxListDelay < GraceMs /\ FuseGcSpec => []LiveExtentsStored
<1>1. GcFuseInv => LiveExtentsStored
    BY DEF GcFuseInv, SparesInv, KeySafe, KeysOf, LiveExtentsStored
<1>2. MaxPending + MaxListDelay < GraceMs => GraceCovers
    BY DEF GraceCovers
<1> QED BY <1>1, <1>2, GcFuseInvariant, PTL

\* A layout that a handle remembers is complete for as long as its version is
\* that of the file, except for what was overdue when it was committed.
THEOREM UnchangedFilesReadable ==
    KeysOfWrites /\ MaxPending + MaxListDelay < GraceMs /\ FuseGcSpec => []ReadableUnlessChanged
<1>1. ASSUME GcFuseInv PROVE ReadableUnlessChanged
    <2>1. FuseInv /\ LiveExtentsBacked
        BY <1>1 DEF GcFuseInv, FuseInv
    <2>2. LiveExtentsStored
        BY <1>1 DEF GcFuseInv, SparesInv, KeySafe, KeysOf, LiveExtentsStored
    <2>3. ASSUME NEW m \in Mounts, NEW fh \in DOMAIN handles[m],
                 NEW h, h = handles[m][fh], NEW i, i = h.inode_id,
                 i \in DOMAIN inodes, inodes[i].version = h.layout.attrs.version,
                 NEW e \in h.layout.extents
          PROVE  Backed(e) /\ (e.key \in removed => e.key \in overdue)
        <3>1. HandleOK(h, inodes, layouts, next_inode_id)
            BY <2>1, <2>3 DEF FuseInv, MountsOK, MountOK
        <3>2. i \in DOMAIN layouts /\ e \in layouts[i].extents
            BY <2>3, <3>1 DEF HandleOK, LayoutCurrent
        <3>3. e \in WantedExtents
            BY <3>2, WantedIs DEF StoredExtents
        <3> QED BY <2>1, <2>2, <3>3 DEF LiveExtentsBacked, LiveExtentsStored
    <2> QED BY <2>3 DEF ReadableUnlessChanged
<1>2. MaxPending + MaxListDelay < GraceMs => GraceCovers
    BY DEF GraceCovers
<1> QED BY <1>1, <1>2, GcFuseInvariant, PTL
=============================================================================
