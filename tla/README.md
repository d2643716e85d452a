# A TLA+ development of pulpfs

pulpfs is a network file system: FUSE mounts keep file *contents* as immutable
objects in an S3 bucket and file *metadata* in a service replicated with Raft; a
separate collector removes objects nobody refers to. This directory holds models
of these parts, the TLC configurations that check them on small instances, and
theorems that TLAPS proves for every instance.

## The system

| Part | State | Operations | Interacts with |
|---|---|---|---|
| `MetaState` (`meta_state.cc`) | `inodes_`, `dentries_`, `layouts_`, `next_inode_id_` | mkdir, create, unlink, rmdir, rename, setattr, commit, append, truncate; lookup, readdir, layout, live objects; snapshot and restore | called by `MetaService::Apply` under one lock |
| `MetaService` (`meta_service.cc`) | a `MetaState` and its lock | one handler per RPC (propose a command, or read index and read); `Apply`, `TakeSnapshot`, `RestoreSnapshot` | Raft library, gRPC |
| `FuseServer` (`fuse/fuse_server.cc`) | handle table, `parents_`, key generator | one callback per kernel request | `MetaClient`, `ObjectStore`, kernel |
| `file_io` (`fuse/file_io.cc`) | writer id, sequence number | object keys; reading through a handle | `ObjectStore` |
| `MetaClient` (`fuse/meta_client.cc`) | a channel | one call per RPC, status to error kind | `MetaService` |
| `GcService` (`gc_service.cc`) | locals of `RunOnce` | one pass over the bucket | `MetaClient`, `ObjectStore` |
| `S3Store` (`object/s3_store.cc`) | none of its own | put, get, delete, list by pages | S3 |
| `MetaServer`, `main`, `AwsSdkRuntime` | process wiring | start, stop | all |

A write travels like this: the kernel's write puts a new object and leaves an
extent *pending* in the file handle; flush, fsync or release sends the pending
extents to the metadata service, which merges them into the file's layout; the
handle then reloads its layout. Between the put and the commit the object is an
orphan that only its age protects from the collector.

What is hard here: the extent arithmetic of overlapping writes and truncates;
hand-kept redundancy (`nlink`, attribute copies in layouts, entries and inodes);
requests made of several RPCs with other mounts in between; replies that are lost
while the command is still applied; state that a handle keeps after the file has
changed; a collector that compares two listings taken at different times; a server
that dies, restores a snapshot and applies its log again while clients call; a
directory listing that is resumed by index. The
`hazards` of `PROJECT.json` list them line by line with the properties that cover
them.

## Modules

| Module | Models |
|---|---|
| `Extents` | `ExtentEnd`, `Overlaps`, `SliceExtent`, `MergeExtent`, the loop of `Truncate` |
| `MetaState` | the state machine; extends `Extents` |
| `ByteFiles` | abstract specification: a file is a size and an object byte (or a hole) per position |
| `MetaBytes` | the refinement mapping from `MetaState` to `ByteFiles` |
| `MetaCommand` | the commands of the Raft log, `Apply`'s dispatch, the read requests; extends `MetaState` |
| `ErrorMap` | error kinds, responses, gRPC statuses and errnos |
| `MetaService` | handlers, log, snapshots, crashes and replay over `MetaCommand` and `ErrorMap`; implements `MetaState` |
| `FuseServer` | mounts, handles and requests composed with `MetaCommand` and a bucket |
| `FuseGc` | the mounts of `FuseServer` beside `RunOnce`, over one bucket and one clock |
| `FuseDir` | lookup, readdir by pages and the hints in `parents_`, over `MetaCommand` |
| `GcService` | `RunOnce` beside mounts that upload, commit and drop objects |
| `MCMetaState`, `MCMetaService`, `MCFuseServer`, `MCFuseGc`, `MCFuseDir` | values for TLC; `GcService` needs none beyond its cfg |
| `NatLemmas`, `ExtentProofs`, `MetaStateProofs`, `MetaBytesProofs`, `GcProofs`, `FuseProofs`, `DirProofs`, `ServiceProofs` | theorems |

### MetaState

`Apply` runs one command at a time under a unique lock, so each command is one
step. Every action has a disjunct for the refused call and one for the accepted
call; the `...Error` operators compute the error kind in the order of the early
returns. `result` is the kind the caller sees. Names stand for classes: `Names`
pass `ValidateName`, `BadNames` do not. `mode`, `uid`, `gid` and the requested
times are one value. The stamps that the state machine sets are written and never
read by it; `MetaService` has them.
The extents of a layout are a set: the code sorts the list by offset, and offsets
are distinct because extents are non-empty and disjoint, which is an invariant.
`IsAncestor` is a loop in the code; the model states what the loop computes, that
`a` lies in every set which contains `i` and is closed under `ParentOf`, and
`Rooted` says that the loop ends. `CommitWrite` and `AppendWrite` ignore
`base_version`, and so does the model; the merge loop stops at a malformed extent
with the earlier ones merged (`AcceptedPrefix`, `MergeBatch`), as in the code.

### MetaService

`main.cc` runs the server with the Noop transport, so the Raft group has one node and
the model one log. A handler that proposes appends a command and waits (`proposed`)
until `Apply` of its entry leaves a response (`responded`); a handler that reads notes
what is committed and waits until that much is applied. Either may give up (`TimedOut`);
its entry then stays in the log and is applied to nobody's knowledge. `Commit` is the
moment when the log is on disk. `Restart` is the crash and the start after it: entries
that are not committed are lost from some point on, the latest snapshot is restored,
`applied` goes back to its index and the node adds the empty entry of its new term;
clients see their connection break. Handlers serve while the log is applied again, as
in the code, where the gRPC server starts behind the Raft thread. The lock of
`MetaService` makes `Apply`, a snapshot and a read one step each.

`NowNs()` is read inside `Apply`. The clock of the model is the number of the boot, the
coarsest clock that tells a replayed entry from its first application; it is assumed not
to go back over a restart. `past[n]` is a history variable, the state and result after
entry `n` when it was applied first. `ImplementsMetaState` is the refinement: with the
state of the furthest entry ever applied as the abstract state, every behaviour of the
service is one of `MetaState!Spec`. A crash and the replay up to the furthest entry are
stuttering steps, and when the replay has come so far the state in memory must be the one
the clients knew. Time stamps are outside of `MetaState`: a replay changes them, and
`StampsMoveForward` says in which direction.

### ErrorMap

A state-machine error goes kind, `MakeErrorResponse`, log response, `ErrorFromResponse`,
gRPC status, `FromGrpcStatus`, `ToErrno`. Kinds that share a status code are told apart by
the beginning of the status text, which is kept as `prefix`. Every `MakeError` of the
service has a message, so the prefix ends with a colon.

### FuseServer

A mount serves one request at a time (`fuse_session_loop`), so it is a process.
A request with several RPCs waits in `request` between them, and other mounts act
meanwhile: create (create, layout), open with `O_TRUNC` (layout, truncate, layout),
setattr (truncate, setattr), commit (commit or append, layout). An RPC that fails
is lost, or goes to `late` and is applied at any later moment; a put that fails may
have stored its object; a layout read that fails is ignored or ends the request,
as in the code. `Restart` loses the handles and draws a new writer id.
`files_open` and `dirs_open` are the kernel's side of the handle numbers.
`ReadFromHandle(h, b)` is the object byte a read returns for position `b`.
Namespace requests and a setattr without a size make one RPC that changes state and
keep nothing: one that fails is a step not taken, or taken later.
In `fuse_failures` two handles of one mount stand for those of two: what a handle
remembers does not depend on the mount it belongs to.

### FuseGc

`FuseServer` with a clock and the collector, because what a mount keeps waiting and what
`RunOnce` removes meet only in the bucket. The collector knows two things, as in the code:
the layouts that `ListLiveObjects` had at the first call (`gc.live_objects`) and the age of
an object against the cutoff. What waits in a handle, in a command that is late, or only in
the layout that a handle remembers does not hold it back, for however long it waits.
`removed` has the keys whose objects are gone: `objects` says what was put, and the mounts
do not see a removal before they read. A sweep deletes orphans one at a time, in any order,
and may stop anywhere (`Return`); pages, tokens, failing deletes and the skew of two clocks
are in `GcService`, where they matter.

`MaxPending` is no guard here: a write may wait longer, and its key is then in `overdue`, a
history variable that no action reads. So the properties say exactly which objects the
collector may take: without the exemption for `overdue` keys both fail in `fuse_gc`.
`MaxListDelay` bounds the time between the listing and the reading of the clock, which
nothing in the code does; a run that is suspended there for longer than the grace period is
outside of the model.

### FuseDir

One mount lists directories while it and others create, remove and rename. A readdir is
three RPCs with other steps between them: the directory's attributes, the entries, and the
attributes of the hint for `..`. Each may fail. The first and the second then end the request
with an error; the third does not, whatever its error is: `..` is then answered with the
directory itself (`DotDot`). A page holds `PageSize` entries; the code cuts its buffer
at the size the kernel asks for, and the kernel goes on at the offset of the last whole
entry. `listing` has the kernel's offset, what it got, and for the property what was there
all the time (`steady`) and how many entries came and went. `known` holds the inodes that
have not been moved since the mount last fetched their entry: for those the hint must be
right, if the third RPC has a reply. Handles and contents have no part here, so this is a
module beside `FuseServer`.

### GcService

The calls of `RunOnce` are the steps; uploads, commits, dropped references and
time go between any two. `GraceMs` is the product in a word of `Word` values, cast
to signed. `MaxPending`, `MaxListDelay` and `MaxSkew` are *not* in the code: they
are the operating conditions under which the collector is safe, and the theorem
says how they must relate to `--gc_grace_seconds`. Mounts are abstract here, and the guard
of `Commit` keeps them to `MaxPending`; real handles, which keep to no bound, are in
`FuseGc`. A failed delete may have
removed the object. Listing is modelled from the use of ListObjectsV2: keys in
order, a page at a time, the token naming the place to go on. A key is put once
(checked in `fuse_failures`), so an object's stamp does not change.

## Runs

| Run | Instance | Shows |
|---|---|---|
| `namespace` | 4 inode ids, 2 names and a bad one, versions to 4, names symmetric | tree, link counts, restorable snapshots |
| `bytes` | one file, 5 batches that start before, inside and behind one another, split one another and overlap within a batch, and one refused at its head; truncates to 0, 1, 4 | refinement of `ByteFiles`; extents well formed, disjoint and within the size; attribute copies in step; versions grow with changes |
| `rejected` | a batch with a keyless extent behind a good one | **violated**: a refused batch is half merged |
| `gc` | 2 objects, 2 pages, clock to 4, skew, failures, dry run, fairness | no wanted object lost, grace kept, exit code 0 means swept, each run ends |
| `gc_overflow` | grace 9 s, a word of 16 | **violated**: a wrapped product removes young objects |
| `fuse_write` | 2 mounts, 3 writes of 2 bytes at 0 and 1, write and append handles, truncate to 1, no failures | read before commit = file after commit; appends leave no hole; nothing is written twice; extents lie inside their objects |
| `fuse_failures` | 1 mount, 2 handles, 2 writes, one failure anywhere, one restart, plain, append and truncating handles | written bytes leave an open handle only by a commit; no extent of a file lies outside an object that was put; no object overwritten |
| `fuse_gc` | 1 mount, 1 handle, 2 writes, 1 failure; grace 3, `MaxPending` 1, `MaxListDelay` 1, clock to 4 | only what was overdue is lost; a handle misses objects only when its file changed |
| `fuse_retry` | 1 append, 1 failure | **violated**: a late append and its retry both land |
| `fuse_releasedir` | 1 file, the root directory | **violated**: closing a directory drops a file handle |
| `service` | 2 clients, 4 commands of which each is accepted or refused depending on what went before and one is refused half-way, 2 of them in the log, one read of each kind, 1 crash | the service is one `MetaState`; reads are not stale; errnos tell the outcome; stamps do not go back; no call hangs |
| `readdir` | 2 names, 3 inodes, pages of one entry, two directories that can be listed | what a listing misses or repeats is bounded by what changed; `..` is right unless the directory was moved since it was seen; if the last reply is lost, it is the parent or the directory itself |

Why these bounds: a cycle by rename needs three nested directories (ids 2 to 4); a
split leaves two remnants, so three extents and a truncate meet every case of the
arithmetic, where only the order of the end points matters; two pages let the token
fall between objects; a lost update needs two mounts; a retry needs one failure. A
replay that runs an entry twice, or from the wrong place, shows with two entries, one of
them behind the snapshot; a stale read needs a second client. Pages of one entry put a
page boundary between any two entries, so that entries are skipped and repeated. In
`fuse_gc` the times are as tight as the theorem allows (1 + 1 < 3): with a grace period of 2
`LiveExtentsStored` is violated, and a clock that goes to 4 lets an object become overdue
and be collected. `MaxVersion` bounds how often an inode changes, and an
action whose version would pass it is not taken. `CHECK_DEADLOCK FALSE` stands where
these bounds end all behaviours. `gc` and `service` check deadlock as well.

`MCFuseServer`, `MCFuseGc` and `MCFuseDir` use `VIEW WithoutResult`: the last call's error kind decides nothing
in a later step and no property of those runs reads its old value, so states that
differ only in it are the same. Names and mounts are symmetric where a cfg says so;
neither run with a symmetry checks liveness.

Fairness. In `gc`, weak fairness of the steps of a started `RunOnce`: it is
straight-line code in one thread, and each call returns, with an error if the SDK's or the
channel's timeout strikes. Starting a run, uploads and commits are not fair. The clock
stops at `MaxTime` and objects are finite, so a run cannot be kept busy by an endless
supply of keys; with such a supply the loop need not end. In `service`, weak fairness of
the Raft thread (`Commit`, `Apply`) and of each handler thread that has its answer
(`ReplyToProposal`, `ReplyToRead`): threads of a running process run. Calls, time-outs,
snapshots and crashes are not fair, so `CallsReturn` does not rest on a time-out.

## Findings

- A batch refused for a malformed extent leaves the extents before it merged
  (`meta_state.cc:366`, also 411); size, version and times stay.
- `grace_seconds * 1000` wraps (`gc_service.cc:64`): a huge value meant to keep
  everything makes young objects eligible.
- An append that timed out and was applied is sent again by the next flush
  (`fuse_server.cc:145`), so its bytes appear twice; `base_version` is sent but never
  compared. A non-append commit is idempotent and does not suffer.
- `releasedir` is `PulpfsRelease` (`fuse_server.cc:546`) while `opendir` returns the
  inode number as handle (406); both number spaces start at 1.

Seven more things are worth knowing, though no line of the repository says otherwise:

- Time stamps are taken while an entry is applied (`meta_state.cc:704`). After a restart
  the inodes that the log touched behind the snapshot have later stamps than clients saw.
- `PulpfsRename` does not call `RememberParent`: after a rename by the mount itself, too,
  `..` of the moved directory names the old parent until the mount fetches its entry again.
- `NotLeader` reaches the mount as `InvalidArgument` (`error.cc:59`, `meta_client.cc:28`),
  so the `EAGAIN` that `ToErrno` has for it is never used. A group of one node does not
  lose its leadership; with more nodes this would show.
- A third RPC of readdir that has no answer makes `..` the directory itself
  (`fuse_server.cc:275`), though nothing was moved.
- A release whose commit fails erases the handle all the same (`fuse_server.cc:500`): the
  writes are dropped, and the error goes into the reply to a release.
  `WritesLeaveByCommit` is about handles that stay open.
- A written object waits in its handle without a bound until flush, fsync or release
  (`fuse_server.cc:476`), and the collector consults committed layouts only
  (`gc_service.cc:57`, 93-100). A file that is kept open longer than the grace period loses
  the object; the commit, which checks no object, then makes a file whose bytes are gone.
- `CommitHandle` clears the pending extents once the commit is accepted and ignores a
  `GetLayout` that fails after it (`fuse_server.cc:139`, also 152): flush succeeds, and the
  handle goes on with the layout from before its own writes and does not show them.

An unlinked file has no layout, so the collector may remove its objects while a handle
still has it open; `ReadableUnlessChanged` promises reads only while the file is there in
the version the handle has, and not for an object that was overdue when it was committed.

## Proofs

`tlapm` checks every proof to its leaves. Assumptions are the named `ASSUME`s of the
modules (constants are naturals or sets of the right kind, names and bad names are
disjoint) and what a theorem states itself.

**MetaStateProofs.** `Spec => []MetaInv`, where
`MetaInv = TypeI /\ IdsBelowNext /\ Tree /\ LayoutsInSync /\ ExtentsDisjoint`.
`Tree` holds entries that resolve, one parent per inode, and rootedness; none is
inductive alone. Rename needs one parent to know that the moved entry is the only
one of its inode, rootedness to know that the walk of `IsAncestor` really decides
descent, and resolution for the parents' attributes. `IdsBelowNext` keeps creation
from reusing an inode. The key step is that a rename which `IsAncestor` admits keeps
every set of non-root inodes with a parent outside it: for a set that a moved
directory would close, the set's old exit must have been that directory, and the
closure of the new parent would then contain it. From `MetaInv` follow
`NoDanglingDentry`, `OneParent`, `Rooted`, `LayoutsInSync`, `ExtentsDisjoint` and
`SnapshotRestorable`, for any number of inodes and any batches, malformed ones
included. `TypeI` is `TypeOK` with link counts in `Int`. `CountInv` adds to `MetaInv` that
`dentries` is finite and that each link count is 2 plus the number of subdirectory
entries, or 1; it gives `LinkCountsRight` and, because such a number is natural,
`MetaTypeCorrect`. Finiteness is needed because cardinalities are only then numbers that
go up and down by one. The step that needs an argument is a rename that replaces a
directory: the new parent loses one subdirectory and gains one, the old one loses one,
and the two parents may be the same.

**ExtentProofs.** `MergeExtent`, `MergeFirst` and `TruncateExtents` keep extents
well-typed and disjoint; `MergeFirst` is a recursive function, and the proof goes by
natural induction on how many extents are merged.

**MetaBytesProofs.** `MetaImplementsBytes`, `ExtentsStayWithinSize` and
`VersionsTellChanges` hold under `BatchesValid`, that no batch has a malformed extent:
`rejected` shows what becomes of the other batches, and a mount sends none. The invariant
is `MetaInv` and `ExtentsWithinSize`. With extents disjoint, `CellsAt` has at most one
member; merging one extent changes exactly the bytes that it covers, which natural
induction carries over to a batch. A byte past the end of a file has no extent, so
growing a file leaves zeros, as `ByteFiles` wants it.

**GcProofs.** `BaseInv` (types, stamps in the past and at most `MaxSkew` off, cutoff at
least `GraceMs` old) is inductive. `CollectorIsSafe` adds `ListedRight` and
`NoneCondemned`: an object wanted but not listed was uploaded at most `MaxPending`
before the listing, hence after the cutoff when
`MaxPending + MaxListDelay + MaxSkew < GraceMs`. `SweepIsComplete` uses `SweepInv`: the
orphans still stored are those the sweep has not come to.

**FuseProofs.** All of it assumes `KeysOfWrites`, that `Keys` has every tuple that
`MakeObjectKey` can make (TLC's instances have only the keys that their bounds reach).
`FuseInv` is `MetaInv` with well-typed mounts and, beside `LiveExtentsBacked` itself:
every stored key was made by a mount with an earlier writer id or sequence number
(`BucketOK`), so that the next key is new; late commands and pending extents are well
formed (`LateOK`, `HandleOK`), so that a commit is never refused half-way; and the layout
that a handle remembers is the file's present one when the versions agree, and not of a
later version (`LayoutCurrent`). What a commit, truncate or rename leaves of extents are
parts of the extents that were there or came with the command (`PartsOf`), and a part of
an extent inside an object is inside it too. `WantedExtentsBacked` and
`ObjectsAreImmutable` follow, for any number of mounts, handles, failures and restarts.

With the collector, `CollectorSparesWanted` and `UnchangedFilesReadable` assume
`MaxPending + MaxListDelay < GraceMs`. The invariant `SparesInv` says of each run of the
collector: a wanted key that is not overdue and not on the listing was waiting when the
listing was taken, so it was put at most `MaxPending` before it, and is younger than the
cutoff (`KeySafe`). It survives the steps of the mounts because of `KeysTracked`: no step makes an old
object wanted again. A key becomes wanted by the put that makes its object, and after that
only moves, from a handle to a late command or into a file; what is forgotten by all of them
stays forgotten. A new object has the stamp `now`, which is later than any cutoff.

What waits in a handle is then followed from the put to the file. `StepWrites` divides the
steps into three: a put may add an extent to one handle, an accepted commit takes all from
one, and every other step leaves what waits alone. On it rest:

- `AppendsStayInLine`: the pending appends of a handle follow one another from 0 and end at
  `pending_append_length`. Without it an append that the state machine shifts to the end of
  the file could leave a hole (`AppendsAreGapless`), or one of its extents could be merged
  over another (`WritesOnlyLeaveIntoFile`).
- `CloseKeepsWhatWasRead`: reading through a handle lays the pending extents over the layout
  byte by byte, the state machine cuts and merges extents, and `MergedIsOverlay` says that
  the two are the same for well-formed extents.
- `PlainWritesLandOnce`: the key of an object carries the offset of its write. With no
  appending handle every wanted extent is where its key says (`PlainInv`), and cutting keeps
  it there (`PiecesOf`), so a commit that is repeated or late changes nothing about this.
- `WritesLandOnceUntilFailure`: for appending handles the place is known only at the commit.
  `OnceInv` says that an object is in one handle or in files, never in both, as long as no
  call has failed: its extent leaves the handle in the step that brings it into the file.
  `failures` counts every failed call; `fuse_retry` shows that the one which matters, an
  append that is applied without an answer, does break the property.

Four theorems say how far the findings reach. `ValidBatchesAllOrNothing`: a refused command
changes something only when its batch has a malformed extent; `MountsCommitAllOrNothing`:
no mount ever sends one, so only another client of the service can come to the state of
`rejected`. `OnlyReleaseDirDropsHandles`: an open file loses its handle only if its number is
that of a directory which is opened, as in `fuse_releasedir`. `GraceHonoured`: without the
wrap of `gc_overflow` the grace period is kept. The two theorems on `WrittenOnce` do it for
`fuse_retry`.

**DirProofs.** `DirType` is `CountInv` (from which a directory is a finite set of entries
with different names) and the types of `request` and `listing`. The entries can be put
in the order of their names, so the `CHOOSE` of `Entries` has a value, and it has each
entry once. For `DotDotIsParent`, `HintsInv` says that the hint of a known inode is its
parent, or that the request under way holds the inode's entry and will store the hint;
and that an entry it holds leads to the directory as long as the inode is known, and
never to the directory itself. The theorem allows the directory itself only when the third
RPC has no reply. For `ListingsDriftNoFurther`, `Drift` is a balance at every
moment: what the kernel has passed without getting it, and what the stale list of the
request under way lacks, is paid for by removals; repeats, and what was got and is still
ahead, by additions. A directory that changes keeps the balance because the counters move
with it. That giving a list up for a fresh one keeps it is `FirstsDrift`: of the entries in
both lists, those among the first n of the second but not of the first are no more than
those which the first n of the first have lost.

**ServiceProofs.** A replay must end where it ended before, so the proof begins with what
is false of most state machines and true of this one: what a command does depends on the
state and the command alone. `Run(s, c)` is `MetaState` as a function, and `ApplyYields`
says that every action is that function. (Time stamps are what the code takes from
elsewhere; they are outside of `MetaState`.) `LogInv` then says that the history is
committed, that its states follow from one another by `Run` along the log, and that the
state in memory and the snapshot are members of it; an `Apply` of an old entry finds the
old state, that of a new one extends the history, and a crash keeps the committed part of
the log. `CallInv` follows a call: a proposed command lies behind the history at its own
index, so it is answered by the `Apply` that runs it for the first time and by no other.
`ErrnosTellOutcomes` adds that the conversions of `ErrorMap` keep the kinds apart,
`ReadsAreLinearizable` that a read of the state in memory is one of `past[applied]`.
`StampsInv` is the least obvious. That the stamps in memory are not older than those of
the history is not inductive: a stamp that an entry did not set came from the snapshot,
and the history may have it from a boot that started from the same snapshot, or from an
older one. What is inductive is that for every later point of the history up to which an
inode is left alone (`Lasts`) its stamp there is not later than the one in memory, the
same of the snapshot, and that a stamp in memory that is as old as the snapshot is not
later than the one in it. `ServiceImplementsMetaState` maps the one step that goes beyond
the history to a step of `MetaState`, and all others to stuttering. `ServiceAssumption`
says that clients propose the commands and make the requests that the handlers can build
(`RaftCommand`, `ReadRequest`).

Only model-checked: the liveness properties `RunTerminates` and `CallsReturn`, since
liveness under fairness is outside the prover. Every other property of a passing run is a
theorem. Where a property needs more than its module says, the theorem has it as a
hypothesis and the run as a bound:

| Theorem | Hypothesis |
|---|---|
| `MetaImplementsBytes`, `ExtentsStayWithinSize`, `VersionsTellChanges`, `ValidBatchesAllOrNothing` | `BatchesValid` |
| `CollectorIsSafe` | `MaxPending + MaxListDelay + MaxSkew < GraceMs` |
| `SweepIsComplete` | `MaxSkew < GraceMs` |
| `GraceHonoured` | the product does not wrap: `GraceMs = GraceSeconds * MsPerSecond` |
| the theorems on mounts in `FuseProofs` | `KeysOfWrites` |
| `CollectorSparesWanted`, `UnchangedFilesReadable` | also `MaxPending + MaxListDelay < GraceMs` |
| `PlainWritesLandOnce` | no appending handle |
| `WritesLandOnceUntilFailure` | none; it speaks of states before the first failure |

## Not modelled

- The Raft library: it is not in the repository. Elections, replication to other nodes
  and its storage are taken as a log that loses at most what was not committed.
- `MetaServer::Stop` beside a serving process: nothing calls it (there is no signal
  handler, and `Run` calls it after the gRPC server has ended), so every end is a crash.
- `main`, the flags and logging: no state. `AwsSdkRuntime`: a reference count that `main`
  holds once for the life of the process.
- The AWS SDK behind `S3Store` and the translation of its options.
- `getattr`, `forget` and `statfs` of the mounts: they answer and change nothing.
- Widths of file offsets: an offset comes from a non-negative `off_t` and a length from
  one kernel request, so the sums stay below 2^64.
- A clock that goes back over a restart.

## Plan

All parts that carry the program's logic are modelled, and every safety property that the
runs check is proved. What could follow is in the code's hands: a group of more than one
Raft node (with `NotLeader`, see above) once `main` can start one, and the concurrent
callbacks of a multi-threaded FUSE loop if `fuse_session_loop` is replaced. No module uses a
`RECURSIVE` operator, so all of them can be proved about.
