----------------------------- MODULE MetaState -----------------------------
(***************************************************************************)
(* The metadata state machine, src/src/meta_state.cc: the inode table, the *)
(* directory entries and the file layouts, with one action per mutating    *)
(* method of class MetaState.  MetaService::Apply runs these methods one   *)
(* at a time under its unique lock, so each is one atomic step.            *)
(*                                                                         *)
(* An action has a disjunct for the call that is refused (the error kind   *)
(* goes to `result') and one for the call that succeeds.  The errors are   *)
(* computed in the order of the early returns of the code.                 *)
(*                                                                         *)
(* Left out: time stamps (written, never read by MetaState), uid, gid and  *)
(* the requested times (they travel with mode), chunk_size (constant).     *)
(***************************************************************************)
EXTENDS Extents, Integers, FiniteSets

CONSTANTS
    Names,          \* names that ValidateName accepts
    BadNames,       \* names it refuses: "", ".", "..", names with '/' or NUL
    Modes,          \* values of the mode, uid, gid, atime fields together
    RootMode,       \* their values in a new root inode
    Batches,        \* the extent lists clients send
    Sizes,          \* the sizes clients truncate to
    MaxInodeId,     \* bound: inode ids handed out
    MaxVersion      \* bound: versions an inode reaches

ASSUME MetaStateAssumption ==
    /\ Names \cap BadNames = {}
    /\ RootMode \in Modes
    /\ Batches \subseteq Seq(Extent)
    /\ Sizes \subseteq Nat
    /\ MaxInodeId \in Nat
    /\ MaxVersion \in Nat

VARIABLES
    inodes,         \* inodes_: id -> attributes
    dentries,       \* dentries_: <<parent id, name>> -> child id
    layouts,        \* layouts_: id -> copy of the attributes, and extents
    next_inode_id,  \* next_inode_id_
    result          \* error kind of the last call, "Ok" if it succeeded

state == <<inodes, dentries, layouts, next_inode_id>>
vars  == <<inodes, dentries, layouts, next_inode_id, result>>

Root == 1           \* kRootInodeId
InodeIds == 1 .. MaxInodeId

Kinds == {"Ok", "InvalidArgument", "NotFound", "NotDirectory", "IsDirectory",
          "AlreadyExists", "DirectoryNotEmpty"}

Attrs == [type : {"Directory", "File"}, mode : Modes,
          size : Nat, nlink : Nat, version : Nat]

Layout == [attrs : Attrs, extents : SUBSET Extent]

IsDir(i)  == inodes[i].type = "Directory"
IsFile(i) == inodes[i].type = "File"
-----------------------------------------------------------------------------
(* Validation: the early returns, in their order. *)

\* ValidateName, then ValidateParent.
ParentError(p, n) ==
    IF n \notin Names THEN "InvalidArgument"
    ELSE IF p \notin DOMAIN inodes THEN "NotFound"
    ELSE IF ~IsDir(p) THEN "NotDirectory"
    ELSE "Ok"

EntryError(p, n) ==
    IF ParentError(p, n) # "Ok" THEN ParentError(p, n)
    ELSE IF <<p, n>> \notin DOMAIN dentries THEN "NotFound"
    ELSE "Ok"

\* ValidateRegularFile, then the lookup in layouts_.
FileError(i) ==
    IF i \notin DOMAIN inodes THEN "NotFound"
    ELSE IF ~IsFile(i) THEN "InvalidArgument"
    ELSE IF i \notin DOMAIN layouts THEN "NotFound"
    ELSE "Ok"

IsDirectoryEmpty(i) == \A k \in DOMAIN dentries : k[1] # i

ParentOf(i) ==
    IF i # Root /\ \E k \in DOMAIN dentries : dentries[k] = i
    THEN (CHOOSE k \in DOMAIN dentries : dentries[k] = i)[1]
    ELSE i

\* The walk from i along ParentOf meets a.  The walk stops at the root or at
\* an inode without an entry, where ParentOf(j) = j; that it does stop is what
\* Rooted says, so a is met iff it is in every set closed under the walk.
IsAncestor(a, i) ==
    \A S \in SUBSET DOMAIN inodes :
        (i \in S /\ \A j \in S : ParentOf(j) \in S) => a \in S

CreateError(p, n) ==
    IF ParentError(p, n) # "Ok" THEN ParentError(p, n)
    ELSE IF <<p, n>> \in DOMAIN dentries THEN "AlreadyExists"
    ELSE "Ok"

UnlinkError(p, n) ==
    IF EntryError(p, n) # "Ok" THEN EntryError(p, n)
    ELSE IF IsDir(dentries[<<p, n>>]) THEN "IsDirectory"
    ELSE "Ok"

\* Mutant: the emptiness check is forgotten.
RmdirErrorNoEmptyCheck(p, n) ==
    IF EntryError(p, n) # "Ok" THEN EntryError(p, n)
    ELSE IF ~IsDir(dentries[<<p, n>>]) THEN "NotDirectory"
    ELSE "Ok"

RmdirError(p, n) ==
    IF EntryError(p, n) # "Ok" THEN EntryError(p, n)
    ELSE IF ~IsDir(dentries[<<p, n>>]) THEN "NotDirectory"
    ELSE IF ~IsDirectoryEmpty(dentries[<<p, n>>]) THEN "DirectoryNotEmpty"
    ELSE "Ok"

\* The checks on an existing entry that a rename would replace.
TargetError(moved, target) ==
    IF moved = target THEN "Ok"
    ELSE IF IsDir(moved) /\ ~IsDir(target) THEN "NotDirectory"
    ELSE IF ~IsDir(moved) /\ IsDir(target) THEN "IsDirectory"
    ELSE IF IsDir(target) /\ ~IsDirectoryEmpty(target) THEN "DirectoryNotEmpty"
    ELSE "Ok"

\* Mutant: only a move of a directory directly into itself is refused.
RenameErrorShallow(p, n, q, m) ==
    IF ParentError(p, n) # "Ok" THEN ParentError(p, n)
    ELSE IF ParentError(q, m) # "Ok" THEN ParentError(q, m)
    ELSE IF <<p, n>> \notin DOMAIN dentries THEN "NotFound"
    ELSE IF dentries[<<p, n>>] = q THEN "InvalidArgument"
    ELSE IF <<q, m>> \in DOMAIN dentries
        THEN TargetError(dentries[<<p, n>>], dentries[<<q, m>>])
    ELSE "Ok"

RenameError(p, n, q, m) ==
    IF ParentError(p, n) # "Ok" THEN ParentError(p, n)
    ELSE IF ParentError(q, m) # "Ok" THEN ParentError(q, m)
    ELSE IF <<p, n>> \notin DOMAIN dentries THEN "NotFound"
    ELSE IF IsDir(dentries[<<p, n>>]) /\ IsAncestor(dentries[<<p, n>>], q)
        THEN "InvalidArgument"
    ELSE IF <<q, m>> \in DOMAIN dentries
        THEN TargetError(dentries[<<p, n>>], dentries[<<q, m>>])
    ELSE "Ok"
-----------------------------------------------------------------------------
(* Updates of the three maps. *)

Erase(f, x) == [y \in DOMAIN f \ {x} |-> f[y]]

Emplace(f, x, v) == [y \in DOMAIN f \cup {x} |-> IF y = x THEN v ELSE f[y]]

\* TouchInode; the copy of the attributes is brought up to date by SyncAttrs.
TouchInode(ino, i) == [ino EXCEPT ![i].version = @ + 1]

AddLink(ino, i, d) == [ino EXCEPT ![i].nlink = @ + d]

SyncAttrs(lay, ino, i) ==
    IF i \in DOMAIN lay THEN [lay EXCEPT ![i].attrs = ino[i]] ELSE lay

\* RemoveNode: what becomes of inodes_ and of layouts_.
InodesWithout(ino, p, i) ==
    LET touched == TouchInode(Erase(ino, i), p)
    IN  IF ino[i].type = "Directory" THEN AddLink(touched, p, -1) ELSE touched

\* Mutant: layouts_.erase is forgotten.
LayoutsWithoutLeak(lay, ino, p, i) ==
    SyncAttrs(lay, TouchInode(Erase(ino, i), p), p)

LayoutsWithout(lay, ino, p, i) ==
    SyncAttrs(Erase(lay, i), TouchInode(Erase(ino, i), p), p)

\* A refused call returns its error and changes nothing.
Reject(err) == result' = err /\ UNCHANGED state

\* The bound on versions: no call of the code is ever refused for it.
Room == \A i \in DOMAIN inodes : inodes[i].version < MaxVersion
-----------------------------------------------------------------------------
Init ==
    /\ inodes = [i \in {Root} |->
                    [type |-> "Directory", mode |-> RootMode, size |-> 0,
                     nlink |-> 2, version |-> 1]]
    /\ dentries = [k \in {} |-> Root]
    /\ layouts = [i \in {} |-> [attrs |-> inodes[Root], extents |-> {}]]
    /\ next_inode_id = 2
    /\ result = "Ok"

NewAttrs(type, mode) ==
    [type |-> type, mode |-> mode, size |-> 0,
     nlink |-> IF type = "Directory" THEN 2 ELSE 1, version |-> 1]

CreateNode(p, n, type, mode) ==
    LET new == next_inode_id
        parents == IF type = "Directory" THEN AddLink(TouchInode(inodes, p), p, 1)
                                         ELSE TouchInode(inodes, p)
    IN  /\ CreateError(p, n) = "Ok"
        /\ Room /\ next_inode_id <= MaxInodeId
        /\ next_inode_id' = next_inode_id + 1
        /\ dentries' = Emplace(dentries, <<p, n>>, new)
        /\ inodes' = Emplace(parents, new, NewAttrs(type, mode))
        /\ layouts' = IF type = "File"
                      THEN Emplace(layouts, new, [attrs |-> NewAttrs(type, mode),
                                                  extents |-> {}])
                      ELSE layouts
        /\ result' = "Ok"

Mkdir(p, n, mode) ==
    \/ CreateError(p, n) # "Ok" /\ Reject(CreateError(p, n))
    \/ CreateNode(p, n, "Directory", mode)

CreateFile(p, n, mode) ==
    \/ CreateError(p, n) # "Ok" /\ Reject(CreateError(p, n))
    \/ CreateNode(p, n, "File", mode)

RemoveNode(p, n) ==
    LET i == dentries[<<p, n>>]
    IN  /\ Room
        /\ dentries' = Erase(dentries, <<p, n>>)
        /\ inodes' = InodesWithout(inodes, p, i)
        /\ layouts' = LayoutsWithout(layouts, inodes, p, i)
        /\ result' = "Ok"
        /\ UNCHANGED next_inode_id

Unlink(p, n) ==
    \/ UnlinkError(p, n) # "Ok" /\ Reject(UnlinkError(p, n))
    \/ UnlinkError(p, n) = "Ok" /\ RemoveNode(p, n)

Rmdir(p, n) ==
    \/ RmdirError(p, n) # "Ok" /\ Reject(RmdirError(p, n))
    \/ RmdirError(p, n) = "Ok" /\ RemoveNode(p, n)

\* Mutant: the link counts of the two parents are not adjusted.
InodesMovedNoLinks(ino, p, q, moved) ==
    LET touched == IF p = q THEN TouchInode(ino, p)
                            ELSE TouchInode(TouchInode(ino, p), q)
    IN  TouchInode(touched, moved)

\* The inode table after a rename that moved `moved' from p to q, given the
\* table left by RemoveNode on the replaced entry.
InodesMoved(ino, p, q, moved) ==
    LET touched == IF p = q THEN TouchInode(ino, p)
                            ELSE TouchInode(TouchInode(ino, p), q)
        linked  == IF p # q /\ ino[moved].type = "Directory"
                   THEN AddLink(AddLink(touched, p, -1), q, 1) ELSE touched
    IN  TouchInode(linked, moved)

\* Mutant: the entry is replaced without RemoveNode on the old target.
MoveEntryNoRemove(p, n, q, m) ==
    LET moved == dentries[<<p, n>>]
    IN  /\ Room
        /\ dentries' = Emplace(Erase(dentries, <<p, n>>), <<q, m>>, moved)
        /\ inodes' = InodesMoved(inodes, p, q, moved)
        /\ layouts' = SyncAttrs(layouts, inodes', moved)
        /\ result' = "Ok"
        /\ UNCHANGED next_inode_id

MoveEntry(p, n, q, m) ==
    LET moved    == dentries[<<p, n>>]
        replaced == <<q, m>> \in DOMAIN dentries
        ino == IF replaced THEN InodesWithout(inodes, q, dentries[<<q, m>>]) ELSE inodes
        lay == IF replaced THEN LayoutsWithout(layouts, inodes, q, dentries[<<q, m>>])
                           ELSE layouts
    IN  /\ Room
        /\ dentries' = Emplace(Erase(dentries, <<p, n>>), <<q, m>>, moved)
        /\ inodes' = InodesMoved(ino, p, q, moved)
        /\ layouts' = SyncAttrs(SyncAttrs(SyncAttrs(lay, inodes', p), inodes', q),
                                inodes', moved)
        /\ result' = "Ok"
        /\ UNCHANGED next_inode_id

Rename(p, n, q, m) ==
    LET err == RenameError(p, n, q, m)
        already == <<q, m>> \in DOMAIN dentries /\ dentries[<<q, m>>] = dentries[<<p, n>>]
    IN  \/ err # "Ok" /\ Reject(err)
        \/ err = "Ok" /\ already /\ result' = "Ok" /\ UNCHANGED state
        \/ err = "Ok" /\ ~already /\ MoveEntry(p, n, q, m)

\* Mutant: the copy of the attributes in the layout is not refreshed.
SetAttrStaleLayout(i, m) ==
    \/ i \notin DOMAIN inodes /\ Reject("NotFound")
    \/ /\ i \in DOMAIN inodes /\ Room
       /\ inodes' = TouchInode([inodes EXCEPT ![i].mode = m], i)
       /\ result' = "Ok"
       /\ UNCHANGED <<dentries, layouts, next_inode_id>>

\* m is the mode asked for, or the present one when set_mode is false.
SetAttr(i, m) ==
    \/ i \notin DOMAIN inodes /\ Reject("NotFound")
    \/ /\ i \in DOMAIN inodes /\ Room
       /\ inodes' = TouchInode([inodes EXCEPT ![i].mode = m], i)
       /\ layouts' = SyncAttrs(layouts, inodes', i)
       /\ result' = "Ok"
       /\ UNCHANGED <<dentries, next_inode_id>>
-----------------------------------------------------------------------------
(* File contents. *)

\* How many extents the loop merges before it meets a malformed one.
AcceptedPrefix(es) ==
    CHOOSE n \in 0 .. Len(es) :
        /\ \A k \in 1 .. n : ValidExtent(es[k])
        /\ n < Len(es) => ~ValidExtent(es[n + 1])

\* Where a batch ends: the largest ExtentEnd of its members, 0 for none.
BatchEnd(es) ==
    CHOOSE n \in {0} \cup {ExtentEnd(es[k]) : k \in 1 .. Len(es)} :
        \A k \in 1 .. Len(es) : ExtentEnd(es[k]) <= n

LargerOf(a, b) == IF a < b THEN b ELSE a

\* A batch whose offsets count from the end of the file.
ShiftBatch(es, start) ==
    [k \in 1 .. Len(es) |->
        [offset |-> start + es[k].offset, length |-> es[k].length,
         key |-> es[k].key, object_offset |-> es[k].object_offset]]

\* Mutant: the version is not advanced.
SetSizeSameVersion(i, size) == [inodes EXCEPT ![i].size = size]

SetSize(i, size) == TouchInode([inodes EXCEPT ![i].size = size], i)

\* The loop of both writes merges extents into the stored list as it goes, so
\* a malformed extent leaves the ones before it merged: the error return is
\* taken with the extents changed and the size, version and times not.
MergeBatch(i, es, size) ==
    LET n == AcceptedPrefix(es)
        merged == MergeFirst(layouts[i].extents, es, n)
    IN  /\ FileError(i) = "Ok" /\ Room
        /\ \/ /\ n < Len(es)
              /\ result' = "InvalidArgument"
              /\ layouts' = [layouts EXCEPT ![i].extents = merged]
              /\ UNCHANGED inodes
           \/ /\ n = Len(es)
              /\ result' = "Ok"
              /\ inodes' = SetSize(i, size)
              /\ layouts' = [layouts EXCEPT ![i] = [attrs |-> inodes'[i],
                                                    extents |-> merged]]
        /\ UNCHANGED <<dentries, next_inode_id>>

CommitWrite(i, es) ==
    \/ FileError(i) # "Ok" /\ Reject(FileError(i))
    \/ MergeBatch(i, es, LargerOf(inodes[i].size, BatchEnd(es)))

AppendWrite(i, es) ==
    \/ FileError(i) # "Ok" /\ Reject(FileError(i))
    \/ MergeBatch(i, ShiftBatch(es, inodes[i].size), inodes[i].size + BatchEnd(es))

Truncate(i, size) ==
    \/ FileError(i) # "Ok" /\ Reject(FileError(i))
    \/ /\ FileError(i) = "Ok" /\ Room
       /\ inodes' = SetSize(i, size)
       /\ layouts' = [layouts EXCEPT ![i] =
                        [attrs |-> inodes'[i],
                         extents |-> TruncateExtents(layouts[i].extents, size)]]
       /\ result' = "Ok"
       /\ UNCHANGED <<dentries, next_inode_id>>
-----------------------------------------------------------------------------
AnyName == Names \cup BadNames

NamespaceStep ==
    \E p \in InodeIds, n \in AnyName :
        \/ \E mode \in Modes : Mkdir(p, n, mode) \/ CreateFile(p, n, mode)
        \/ Unlink(p, n)
        \/ Rmdir(p, n)
        \/ \E q \in InodeIds, m \in AnyName : Rename(p, n, q, m)

FileStep ==
    \E i \in InodeIds :
        \/ \E m \in Modes : SetAttr(i, m)
        \/ \E es \in Batches : CommitWrite(i, es) \/ AppendWrite(i, es)
        \/ \E size \in Sizes : Truncate(i, size)

Next == NamespaceStep \/ FileStep

Spec == Init /\ [][Next]_vars
-----------------------------------------------------------------------------
(* What the readers return. *)

\* ReadDir: the entries of directory i, in name order in the code.
ReadDir(i) == {<<k[2], inodes[dentries[k]]>> : k \in {l \in DOMAIN dentries : l[1] = i}}

\* GetLayout of file i replaces the stored copy of the attributes.
GetLayout(i) == [layouts[i] EXCEPT !.attrs = inodes[i]]

\* ListLiveObjects: every object some layout refers to.
ListLiveObjects ==
    (UNION {{e.key : e \in layouts[i].extents} : i \in DOMAIN layouts}) \ {NoKey}

(* SerializeSnapshot, and the checks RestoreSnapshot makes before it takes a
   snapshot over. *)
SerializeSnapshot ==
    [inodes |-> inodes, dentries |-> dentries, layouts |-> layouts,
     next_inode_id |-> next_inode_id]

RestoreSnapshotError(s) ==
    IF Root \notin DOMAIN s.inodes THEN "InvalidArgument"
    ELSE IF \E k \in DOMAIN s.dentries :
                k[1] \notin DOMAIN s.inodes \/ s.dentries[k] \notin DOMAIN s.inodes
        THEN "InvalidArgument"
    ELSE IF \E i \in DOMAIN s.layouts : i \notin DOMAIN s.inodes
        THEN "InvalidArgument"
    ELSE "Ok"

\* Mutant: next_inode_id_ keeps the value it has in a new MetaState.
RestoreSnapshotNewIds(s) ==
    /\ RestoreSnapshotError(s) = "Ok"
    /\ inodes' = s.inodes /\ dentries' = s.dentries /\ layouts' = s.layouts
    /\ next_inode_id' = 2
    /\ result' = "Ok"

\* A snapshot that passes is taken over; it is no call of a client, and no
\* disjunct of Next.
RestoreSnapshot(s) ==
    /\ RestoreSnapshotError(s) = "Ok"
    /\ inodes' = s.inodes /\ dentries' = s.dentries /\ layouts' = s.layouts
    /\ next_inode_id' = s.next_inode_id
    /\ result' = "Ok"
-----------------------------------------------------------------------------
(* Properties. *)

TypeOK ==
    /\ inodes \in [DOMAIN inodes -> Attrs]
    /\ DOMAIN inodes \subseteq Nat /\ Root \in DOMAIN inodes
    /\ dentries \in [DOMAIN dentries -> Nat]
    /\ DOMAIN dentries \subseteq Nat \X Names
    /\ layouts \in [DOMAIN layouts -> Layout]
    /\ next_inode_id \in Nat
    /\ result \in Kinds

\* Both ends of every directory entry exist and the parent is a directory:
\* the unchecked inodes_.at() of Lookup, ReadDir, Unlink, Rmdir and Rename
\* cannot throw, whatever was renamed over or removed before.
NoDanglingDentry ==
    \A k \in DOMAIN dentries :
        /\ k[1] \in DOMAIN inodes /\ IsDir(k[1])
        /\ dentries[k] \in DOMAIN inodes

\* Every inode but the root has exactly one entry, and the root has none:
\* no inode is leaked (unreachable, its objects live for ever) and none is
\* freed under a second name.  ParentOf relies on it.
OneParent ==
    /\ \A k, l \in DOMAIN dentries : dentries[k] = dentries[l] => k = l
    /\ {dentries[k] : k \in DOMAIN dentries} = DOMAIN inodes \ {Root}

\* Every walk along ParentOf reaches the root: a set of other inodes always
\* has a member whose parent is outside it.  So the loop of IsAncestor
\* terminates, and Rename never cuts a subtree off as a cycle.
Rooted ==
    \A S \in SUBSET (DOMAIN inodes \ {Root}) :
        S # {} => \E i \in S : ParentOf(i) \notin S

SubdirEntries(i) == {k \in DOMAIN dentries : k[1] = i /\ IsDir(dentries[k])}

\* nlink, which every operation adjusts by hand, is what POSIX wants it to
\* be: 1 for a file, 2 plus the number of subdirectories for a directory.
NlinkMatches ==
    \A i \in DOMAIN inodes :
        inodes[i].nlink = IF IsDir(i) THEN 2 + Cardinality(SubdirEntries(i)) ELSE 1

\* A layout exists for exactly the regular files, and its copy of the
\* attributes (which a snapshot carries) is never stale.
LayoutsInSync ==
    /\ DOMAIN layouts = {i \in DOMAIN inodes : IsFile(i)}
    /\ \A i \in DOMAIN layouts : layouts[i].attrs = inodes[i]

\* next_inode_id_ is above every id in use, so CreateNode never overwrites an
\* inode; part of the inductive invariant.
IdsBelowNext == \A i \in DOMAIN inodes : i < next_inode_id

\* The snapshot the service takes of any state it can be in passes the checks
\* that RestoreSnapshot makes when the node starts again.
SnapshotRestorable == RestoreSnapshotError(SerializeSnapshot) = "Ok"

\* The extents of a file never overlap, also after a batch that was refused
\* half-way: each byte of a file has at most one object byte behind it.
ExtentsDisjoint == \A i \in DOMAIN layouts : Disjoint(layouts[i].extents)

\* No extent reaches past the end of its file: bytes cut off by a truncate
\* do not come back when the file grows again.
ExtentsWithinSize ==
    \A i \in DOMAIN layouts :
        \A e \in layouts[i].extents : ExtentEnd(e) <= inodes[i].size

\* Children of a directory and extents of a file, with their attributes.
Contents(i) ==
    <<{<<k[2], dentries[k]>> : k \in {l \in DOMAIN dentries : l[1] = i}},
      IF i \in DOMAIN layouts THEN layouts[i].extents ELSE {}>>

\* A version tells the state of an inode: whenever the attributes, the
\* entries or the extents of an inode change, its version grows.
VersionTellsChange ==
    [][\A i \in DOMAIN inodes \cap DOMAIN inodes' :
          inodes'[i] # inodes[i] \/ Contents(i)' # Contents(i)
             => inodes'[i].version > inodes[i].version]_vars

\* A call that returns an error has changed nothing.
RejectedCommandHasNoEffect == [][result' # "Ok" => UNCHANGED state]_vars
=============================================================================
