----------------------------- MODULE FuseServer -----------------------------
(***************************************************************************)
(* FUSE mounts over the metadata service and the object store:             *)
(* src/src/fuse/fuse_server.cc, file_io.cc and meta_client.cc on top of    *)
(* MetaState.  A mount serves one kernel request at a time                 *)
(* (fuse_session_loop), so a mount is a process; the mounts, and the RPCs  *)
(* of one request, interleave.  A request that makes a second RPC waits in *)
(* `request' between the two.                                              *)
(*                                                                         *)
(* An RPC that changes metadata is refused or carried out by MetaState, or *)
(* it fails: the proposal timed out or the connection broke, and the       *)
(* command is then lost, or is applied at some later moment (`late').      *)
(*                                                                         *)
(* The collector beside the mounts is in FuseGc, lookup, readdir and the   *)
(* hints in parents_ are in FuseDir, the conversion of errors to errno is  *)
(* in ErrorMap; getattr, statfs and forget change nothing.                 *)
(***************************************************************************)
EXTENDS MetaCommand

CONSTANTS
    Mounts,         \* the FUSE processes
    Flags,          \* the flags files are opened with
    DirsOpened,     \* the inode numbers that opendir is called with
    Offsets,        \* file offsets the kernel writes at
    Lengths,        \* lengths it writes; the kernel sends no empty write
    MaxHandles,     \* bound: file handles a mount hands out
    MaxWrites,      \* bound: objects all mounts together put
    MaxFailures,    \* bound: RPCs and puts that fail
    MaxRestarts     \* bound: restarts of a mount

ASSUME FuseAssumption ==
    /\ Flags \subseteq [writable : BOOLEAN, append : BOOLEAN, trunc : BOOLEAN]
    /\ DirsOpened \cup Offsets \subseteq Nat
    /\ Lengths \subseteq Nat \ {0}
    /\ {MaxHandles, MaxWrites, MaxFailures, MaxRestarts} \subseteq Nat

VARIABLES
    handles,        \* handles_ of each mount: handle id -> FuseFileHandle
    next_handle_id, \* next_handle_id_ of each mount
    next_sequence,  \* next_sequence_ of each mount's ObjectKeyGenerator
    writer,         \* writer_id_ of each mount, drawn anew at each start
    request,        \* what each mount is in the middle of
    files_open,     \* the kernel's open files on each mount: their fi->fh
    dirs_open,      \* and its open directories: their fi->fh
    objects,        \* objects put into the bucket: key -> number of the put, length
    puts,           \* objects put so far
    late,           \* commands that may still be applied after an error reply
    failures        \* failed calls so far

client   == <<handles, next_handle_id, next_sequence, writer, request, files_open, dirs_open>>
fuseVars == <<vars, client, objects, puts, late, failures>>

Idle == [at |-> "idle"]

EmptyLayout == [attrs |-> [NewAttrs("File", RootMode) EXCEPT !.version = 0],
                extents |-> {}]
-----------------------------------------------------------------------------
(* FuseFileHandle, and what a read through it returns. *)

NewHandle(ino, flags, layout) ==
    [inode_id |-> ino, writable |-> flags.writable, append |-> flags.append,
     layout |-> layout, pending_extents |-> <<>>,
     pending_append_extents |-> <<>>, pending_append_length |-> 0]

\* Pending appends as ReadFromHandle sees them, behind the layout it has.
VisibleAppends(h) == ShiftBatch(h.pending_append_extents, h.layout.attrs.size)

VisibleSize(h) ==
    LargerOf(LargerOf(h.layout.attrs.size, BatchEnd(h.pending_extents)),
             BatchEnd(VisibleAppends(h)))

\* ReadExtentsIntoBuffer copies in list order, so the last extent wins.
Overlay(cells, es, b) ==
    LET over == {k \in 1 .. Len(es) : Covers(es[k], b)}
    IN  IF over = {} THEN cells
        ELSE {Cell(es[k], b) : k \in {j \in over : \A l \in over : l <= j}}

\* Mutant: the pending writes are read before the layout, which hides them.
ReadFromHandleLayoutLast(h, b) ==
    IF CellsAt(h.layout.extents, b) # {} THEN CellsAt(h.layout.extents, b)
    ELSE Overlay(Overlay({}, h.pending_extents, b), VisibleAppends(h), b)

\* The object byte behind byte b < VisibleSize(h); {} is a zero byte.
ReadFromHandle(h, b) ==
    Overlay(Overlay(CellsAt(h.layout.extents, b), h.pending_extents, b),
            VisibleAppends(h), b)
-----------------------------------------------------------------------------
(* Calls to the other processes. *)

\* The reply is an error, and the command is lost or still under way.
RpcFails(c) ==
    /\ failures < MaxFailures
    /\ failures' = failures + 1
    /\ late' \in {late, late \cup {[id |-> failures, command |-> c]}}
    /\ UNCHANGED vars

ApplyLate ==
    \E l \in late :
        /\ ApplyCommand(l.command)
        /\ late' = late \ {l}
        /\ UNCHANGED <<client, objects, puts, failures>>

CallFails == failures < MaxFailures /\ failures' = failures + 1 /\ UNCHANGED late

NoCallFails == UNCHANGED <<late, failures>>

\* GetLayout, a linearizable read, is answered with the layout of the moment.
GetLayoutWorks(i) == FileError(i) = "Ok" /\ NoCallFails /\ UNCHANGED vars

GetLayoutFails(i) == /\ CallFails \/ (FileError(i) # "Ok" /\ NoCallFails)
                     /\ UNCHANGED vars
-----------------------------------------------------------------------------
(* The handle table. *)

AllocateFileHandle(m, h) ==
    /\ handles' = [handles EXCEPT ![m] = Emplace(@, next_handle_id[m], h)]
    /\ next_handle_id' = [next_handle_id EXCEPT ![m] = @ + 1]
    /\ files_open' = [files_open EXCEPT ![m] = @ \cup {next_handle_id[m]}]

CanOpen(m) == request[m] = Idle /\ next_handle_id[m] <= MaxHandles

\* create: CreateFile, then GetLayout, whose failure leaves an empty layout.
PulpfsCreate(m, p, n, flags) ==
    /\ CanOpen(m)
    /\ \E mode \in Modes : CreateFile(p, n, mode)
    /\ \/ /\ NoCallFails
          /\ request' = IF result' = "Ok"
                        THEN [request EXCEPT ![m] = [at |-> "created", flags |-> flags,
                                                     inode_id |-> next_inode_id]]
                        ELSE request
       \/ CallFails /\ UNCHANGED request
    /\ UNCHANGED <<handles, next_handle_id, next_sequence, writer, files_open, dirs_open,
                   objects, puts>>

Created(m) ==
    LET r == request[m]
    IN  /\ r.at = "created"
        /\ \/ /\ GetLayoutWorks(r.inode_id)
              /\ AllocateFileHandle(m, NewHandle(r.inode_id, r.flags, GetLayout(r.inode_id)))
           \/ /\ GetLayoutFails(r.inode_id)
              /\ AllocateFileHandle(m, NewHandle(r.inode_id, r.flags, EmptyLayout))
        /\ request' = [request EXCEPT ![m] = Idle]
        /\ UNCHANGED <<next_sequence, writer, dirs_open, objects, puts>>

Truncates(flags) == flags.writable /\ flags.trunc

\* open: GetLayout; with O_TRUNC then Truncate and GetLayout again.
PulpfsOpen(m, ino, flags) ==
    /\ CanOpen(m) /\ GetLayoutWorks(ino)
    /\ IF Truncates(flags)
       THEN /\ request' = [request EXCEPT ![m] = [at |-> "truncate", flags |-> flags,
                                                  inode_id |-> ino]]
            /\ UNCHANGED <<handles, next_handle_id, files_open>>
       ELSE /\ AllocateFileHandle(m, NewHandle(ino, flags, GetLayout(ino)))
            /\ UNCHANGED request
    /\ UNCHANGED <<next_sequence, writer, dirs_open, objects, puts>>

OpenTruncate(m) ==
    LET r == request[m]
        command == TruncateCommand(r.inode_id, 0)
    IN  /\ r.at = "truncate"
        /\ \/ /\ ApplyCommand(command)
              /\ request' = [request EXCEPT ![m] =
                               IF result' = "Ok" THEN [r EXCEPT !.at = "truncated"] ELSE Idle]
              /\ NoCallFails
           \/ RpcFails(command) /\ request' = [request EXCEPT ![m] = Idle]
        /\ UNCHANGED <<handles, next_handle_id, next_sequence, writer, files_open, dirs_open,
                       objects, puts>>

OpenTruncated(m) ==
    LET r == request[m]
    IN  /\ r.at = "truncated"
        /\ \/ /\ GetLayoutWorks(r.inode_id)
              /\ AllocateFileHandle(m, NewHandle(r.inode_id, r.flags, GetLayout(r.inode_id)))
           \/ /\ GetLayoutFails(r.inode_id)
              /\ UNCHANGED <<handles, next_handle_id, files_open>>
        /\ request' = [request EXCEPT ![m] = Idle]
        /\ UNCHANGED <<next_sequence, writer, dirs_open, objects, puts>>

\* opendir allocates no handle: fi->fh is the inode number.
PulpfsOpenDir(m, ino) ==
    /\ request[m] = Idle /\ ino \in DOMAIN inodes /\ IsDir(ino)
    /\ NoCallFails /\ UNCHANGED vars
    /\ dirs_open' = [dirs_open EXCEPT ![m] = @ \cup {ino}]
    /\ UNCHANGED <<handles, next_handle_id, next_sequence, writer, request, files_open,
                   objects, puts>>
-----------------------------------------------------------------------------
(* Writing. *)

\* Mutant: the writer id is left out of the key.
MakeObjectKeyNoWriter(m, ino, offset) == <<ino, m, next_sequence[m], offset>>

MakeObjectKey(m, ino, offset) == <<ino, m, writer[m], next_sequence[m], offset>>

WithPending(h, extent) ==
    IF h.append
    THEN [h EXCEPT !.pending_append_length = @ + extent.length,
                   !.pending_append_extents = Append(@, extent)]
    ELSE [h EXCEPT !.pending_extents = Append(@, extent)]

\* Mutant: the outcome of PutObject is not looked at.
AfterPutUnchecked(h, extent, ok) == WithPending(h, extent)

AfterPut(h, extent, ok) == IF ok THEN WithPending(h, extent) ELSE h

\* write: the bytes go to a new object, the extent waits in the handle.
PulpfsWrite(m, fh, off, len) ==
    LET h      == handles[m][fh]
        offset == IF h.append THEN h.pending_append_length ELSE off
        key    == MakeObjectKey(m, h.inode_id, offset)
        extent == [offset |-> offset, length |-> len, key |-> key, object_offset |-> 0]
        stored == Emplace(objects, key, [put |-> puts, length |-> len])
    IN  /\ request[m] = Idle /\ fh \in DOMAIN handles[m] /\ h.writable
        /\ puts < MaxWrites /\ puts' = puts + 1
        /\ next_sequence' = [next_sequence EXCEPT ![m] = @ + 1]
        /\ \E ok \in BOOLEAN :
              /\ IF ok THEN NoCallFails /\ objects' = stored
                       ELSE CallFails /\ objects' \in {objects, stored}
              /\ handles' = [handles EXCEPT ![m][fh] = AfterPut(h, extent, ok)]
        /\ UNCHANGED <<vars, next_handle_id, writer, request, files_open, dirs_open>>

\* Mutant: pending_append_length is not reset.
CommittedNoReset(h) ==
    [h EXCEPT !.pending_extents = <<>>, !.pending_append_extents = <<>>]

\* Mutant: the lists are not cleared.
CommittedKept(h) == [h EXCEPT !.pending_append_length = 0]

Committed(h) ==
    [h EXCEPT !.pending_extents = <<>>, !.pending_append_extents = <<>>,
              !.pending_append_length = 0]

\* Mutant: the pending extents are dropped although the RPC failed.
NotCommittedCleared(m, fh) == [handles[m] EXCEPT ![fh] = Committed(@)]

\* The handle table when the RPC of CommitHandle fails: all is still pending.
NotCommitted(m, fh) == handles[m]

\* PulpfsWrite fills one of the two lists, by h.append, which never changes:
\* CommitHandle runs one of its two branches.
CommitCommand(h) ==
    IF h.append
    THEN AppendWriteCommand(h.inode_id, h.pending_append_extents)
    ELSE CommitWriteCommand(h.inode_id, h.pending_extents)

HasPending(m, fh) ==
    fh \in DOMAIN handles[m] /\ CommitCommand(handles[m][fh]).extents # <<>>

\* The reply to flush, fsync, release or releasedir; the last two erase the
\* handle, whether CommitHandle failed or not.
Reply(m, fh, op, table) ==
    /\ handles' = [handles EXCEPT ![m] = IF op = "flush" THEN table ELSE Erase(table, fh)]
    /\ request' = [request EXCEPT ![m] = Idle]
    /\ files_open' = [files_open EXCEPT ![m] = IF op = "release" THEN @ \ {fh} ELSE @]
    /\ dirs_open' = [dirs_open EXCEPT ![m] = IF op = "releasedir" THEN @ \ {fh} ELSE @]

\* CommitHandle up to the first RPC.  A failure keeps the extents pending.
CommitHandle(m, fh, op) ==
    LET h == handles[m][fh]
        command == CommitCommand(h)
    IN  /\ request[m] = Idle
        /\ \/ /\ ~HasPending(m, fh)
              /\ Reply(m, fh, op, handles[m])
              /\ NoCallFails /\ UNCHANGED vars
           \/ /\ HasPending(m, fh)
              /\ ApplyCommand(command) /\ NoCallFails
              /\ IF result' = "Ok"
                 THEN /\ handles' = [handles EXCEPT ![m][fh] = Committed(h)]
                      /\ request' = [request EXCEPT ![m] = [at |-> "reload", fh |-> fh, op |-> op]]
                      /\ UNCHANGED <<files_open, dirs_open>>
                 ELSE Reply(m, fh, op, NotCommitted(m, fh))
           \/ /\ HasPending(m, fh)
              /\ RpcFails(command)
              /\ Reply(m, fh, op, NotCommitted(m, fh))
        /\ UNCHANGED <<next_handle_id, next_sequence, writer, objects, puts>>

\* The GetLayout that follows; the old layout stays when it fails.
Reload(m) ==
    LET r == request[m]
        i == handles[m][r.fh].inode_id
    IN  /\ r.at = "reload"
        /\ \/ /\ GetLayoutWorks(i)
              /\ Reply(m, r.fh, r.op, [handles[m] EXCEPT ![r.fh].layout = GetLayout(i)])
           \/ /\ GetLayoutFails(i)
              /\ Reply(m, r.fh, r.op, handles[m])
        /\ UNCHANGED <<next_handle_id, next_sequence, writer, objects, puts>>

\* flush and fsync.
PulpfsFlush(m) == \E fh \in files_open[m] : CommitHandle(m, fh, "flush")

PulpfsRelease(m) == \E fh \in files_open[m] : CommitHandle(m, fh, "release")

\* ops.releasedir is PulpfsRelease too.
PulpfsReleaseDir(m) == \E fh \in dirs_open[m] : CommitHandle(m, fh, "releasedir")
-----------------------------------------------------------------------------
(* Requests that keep nothing in the mount. *)

PulpfsNamespace(m) ==
    /\ request[m] = Idle
    /\ \E p \in InodeIds, n \in AnyName :
          \/ \E mode \in Modes : Mkdir(p, n, mode)
          \/ Unlink(p, n)
          \/ Rmdir(p, n)
          \/ \E q \in InodeIds, k \in AnyName : Rename(p, n, q, k)
    /\ UNCHANGED <<client, objects, puts, late, failures>>

\* setattr: Truncate when the size is asked for, then, unless that failed,
\* SetAttr when anything else is.
PulpfsSetAttr(m, ino) ==
    /\ request[m] = Idle
    /\ \/ \E size \in Sizes :
             LET command == TruncateCommand(ino, size)
             IN  \/ /\ ApplyCommand(command) /\ NoCallFails
                    /\ \/ UNCHANGED request
                       \/ /\ result' = "Ok"
                          /\ request' = [request EXCEPT ![m] = [at |-> "setattr", inode_id |-> ino]]
                 \/ RpcFails(command) /\ UNCHANGED request
       \/ /\ \E mode \in Modes : SetAttr(ino, mode)
          /\ NoCallFails /\ UNCHANGED request
    /\ UNCHANGED <<handles, next_handle_id, next_sequence, writer, files_open, dirs_open,
                   objects, puts>>

SetAttrRest(m) ==
    /\ request[m].at = "setattr"
    /\ \/ NoCallFails /\ \E mode \in Modes : SetAttr(request[m].inode_id, mode)
       \/ CallFails /\ UNCHANGED vars
    /\ request' = [request EXCEPT ![m] = Idle]
    /\ UNCHANGED <<handles, next_handle_id, next_sequence, writer, files_open, dirs_open,
                   objects, puts>>

\* The process dies; a new one starts with an empty table and another writer
\* id, and the kernel's files are gone with the old mount.
Restart(m) ==
    /\ writer[m] < MaxRestarts
    /\ handles' = [handles EXCEPT ![m] = [fh \in {} |-> 0]]
    /\ next_handle_id' = [next_handle_id EXCEPT ![m] = 1]
    /\ next_sequence' = [next_sequence EXCEPT ![m] = 1]
    /\ writer' = [writer EXCEPT ![m] = @ + 1]
    /\ request' = [request EXCEPT ![m] = Idle]
    /\ files_open' = [files_open EXCEPT ![m] = {}]
    /\ dirs_open' = [dirs_open EXCEPT ![m] = {}]
    /\ UNCHANGED <<vars, objects, puts, late, failures>>
-----------------------------------------------------------------------------
(* What the bucket must keep. *)

Pending(h) ==
    {h.pending_extents[k] : k \in 1 .. Len(h.pending_extents)}
    \cup {h.pending_append_extents[k] : k \in 1 .. Len(h.pending_append_extents)}

CommandExtents(c) ==
    IF c.op \in {"commit_write", "append_write"} THEN {c.extents[k] : k \in 1 .. Len(c.extents)}
    ELSE {}

\* The extents of the files, and those that may still come into them.
WantedExtents ==
    UNION ({layouts[i].extents : i \in DOMAIN layouts}
           \cup (UNION {{Pending(handles[m][fh]) : fh \in DOMAIN handles[m]} : m \in Mounts})
           \cup {CommandExtents(l.command) : l \in late})
-----------------------------------------------------------------------------
FuseInit ==
    /\ Init
    /\ handles = [m \in Mounts |-> [fh \in {} |-> 0]]
    /\ next_handle_id = [m \in Mounts |-> 1]
    /\ next_sequence = [m \in Mounts |-> 1]
    /\ writer = [m \in Mounts |-> 0]
    /\ request = [m \in Mounts |-> Idle]
    /\ files_open = [m \in Mounts |-> {}]
    /\ dirs_open = [m \in Mounts |-> {}]
    /\ objects = [k \in {} |-> 0]
    /\ puts = 0 /\ late = {} /\ failures = 0

OpenStep(m) ==
    \/ \E p \in InodeIds, n \in AnyName, flags \in Flags : PulpfsCreate(m, p, n, flags)
    \/ \E i \in InodeIds, flags \in Flags : PulpfsOpen(m, i, flags)
    \/ Created(m) \/ OpenTruncate(m) \/ OpenTruncated(m)
    \/ \E i \in DirsOpened : PulpfsOpenDir(m, i)

FileIoStep(m) ==
    \/ \E fh \in files_open[m], off \in Offsets, len \in Lengths : PulpfsWrite(m, fh, off, len)
    \/ PulpfsFlush(m) \/ PulpfsRelease(m) \/ PulpfsReleaseDir(m) \/ Reload(m)

FuseNext ==
    \/ ApplyLate
    \/ \E m \in Mounts :
          \/ OpenStep(m) \/ FileIoStep(m) \/ PulpfsNamespace(m) \/ SetAttrRest(m) \/ Restart(m)
          \/ \E i \in InodeIds : PulpfsSetAttr(m, i)

FuseSpec == FuseInit /\ [][FuseNext]_fuseVars
-----------------------------------------------------------------------------
(* Properties. *)

\* The object was put, and is long enough for the extent.
Backed(e) == e.key \in DOMAIN objects /\ e.object_offset + e.length <= objects[e.key].length

\* Every extent of a file, or that may still be committed, lies inside an object
\* that was put before it, whatever failed or was overwritten, truncated, sliced
\* or committed by others meanwhile.
LiveExtentsBacked == \A e \in WantedExtents : Backed(e)

\* No object is ever put over another one, not by another mount and not by a
\* restarted one whose counters begin anew: the bytes of a layout that some
\* handle remembers do not change under it.
ObjectsNeverOverwritten ==
    [][\A k \in DOMAIN objects \cap DOMAIN objects' : objects'[k] = objects[k]]_fuseVars

\* This step is the commit of handle fh of mount m, and it is accepted.
Commits(m) == request[m] = Idle /\ request'[m].at = "reload"

\* Reading before close and reading after it agree: when nobody changed the
\* file since the handle took its layout, the commit leaves in the file the
\* size and the bytes that ReadFromHandle was returning from the layout and
\* the pending writes.
CommitKeepsWhatWasRead ==
    [][\A m \in Mounts : Commits(m) =>
          LET h == handles[m][request'[m].fh]
              i == h.inode_id
          IN  h.layout = GetLayout(i) =>
                 /\ inodes'[i].size = VisibleSize(h)
                 /\ \A b \in 0 .. VisibleSize(h) - 1 :
                        CellsAt(layouts'[i].extents, b) = ReadFromHandle(h, b)]_fuseVars

\* Appended bytes follow the old end of the file without a gap, also when the
\* file grew or shrank since the writes and after earlier commits of the same
\* handle.
AppendLeavesNoHole ==
    [][\A m \in Mounts : Commits(m) =>
          LET h == handles[m][request'[m].fh]
              i == h.inode_id
          IN  h.append => \A b \in inodes[i].size .. inodes'[i].size - 1 :
                              CellsAt(layouts'[i].extents, b) # {}]_fuseVars

\* Written bytes leave an open handle only into the file: whatever fails, the
\* extents that are no longer pending are there, or are covered by later ones
\* of the same commit.
WritesLeaveByCommit ==
    [][\A m \in Mounts : \A fh \in DOMAIN handles[m] \cap DOMAIN handles'[m] :
          LET h == handles[m][fh]
              stored == layouts'[h.inode_id].extents
          IN  ~(Pending(h) \subseteq Pending(handles'[m][fh])) =>
                 /\ \A b \in 0 .. BatchEnd(h.pending_extents) - 1 :
                        Overlay({}, h.pending_extents, b) \subseteq CellsAt(stored, b)
                 /\ \A k \in 1 .. Len(h.pending_append_extents) :
                        \E e \in stored : e.key = h.pending_append_extents[k].key]_fuseVars

\* Each written byte appears at one place of its file only.
WrittenOnce ==
    \A i \in DOMAIN layouts : \A e, f \in layouts[i].extents :
        e.key = f.key => e.offset - e.object_offset = f.offset - f.object_offset

\* A file the kernel has open has its handle, until the kernel releases it.
OpenFileHasHandle == \A m \in Mounts : files_open[m] \subseteq DOMAIN handles[m]
=============================================================================
