------------------------------- MODULE FuseGc -------------------------------
(***************************************************************************)
(* The mounts of FuseServer beside the collector, RunOnce of               *)
(* src/src/gc_service.cc, over one bucket and one clock.                   *)
(*                                                                         *)
(* The collector knows the layouts of the files and the age of an object,  *)
(* nothing else: what waits in a handle, in a command under way or only in *)
(* the layout that a handle remembers does not hold it back.  Pages, the   *)
(* order of the sweep, exit codes and the skew of two clocks are in        *)
(* GcService; here any subset of the orphans goes, in any order.           *)
(***************************************************************************)
EXTENDS FuseServer

CONSTANTS
    GraceMs,        \* --gc_grace_seconds, in units of the clock
    MaxPending,     \* a write that waits longer for its commit is overdue
    MaxListDelay,   \* longest time from the live listing to reading the clock
    MaxTime         \* bound: the last instant

ASSUME FuseGcAssumption ==
    GraceMs \in Nat /\ MaxPending \in Nat /\ MaxListDelay \in Nat /\ MaxTime \in Nat

VARIABLES
    now,            \* the clock
    modified,       \* last_modified_ms of the objects put
    removed,        \* keys whose object was deleted and not put again
    overdue,        \* history: keys that waited longer than MaxPending
    gc              \* where RunOnce is, with its local variables

store      == <<now, modified, removed>>
fuseGcVars == <<fuseVars, store, overdue, gc>>

NotRunning == [at |-> "idle"]
-----------------------------------------------------------------------------
(* The mounts. *)

\* Extents that wait: in a handle, or in a command that may still be applied.
WaitingExtents ==
    UNION ((UNION {{Pending(handles[m][fh]) : fh \in DOMAIN handles[m]} : m \in Mounts})
           \cup {CommandExtents(l.command) : l \in late})

KeysOf(extents) == {e.key : e \in extents}

\* Objects that this step puts.
PutNow == {k \in DOMAIN objects' : k \in DOMAIN objects => objects'[k] # objects[k]}

MountsStep ==
    /\ FuseNext
    /\ modified' = [k \in DOMAIN objects' |-> IF k \in PutNow THEN now ELSE modified[k]]
    /\ removed' = removed \ PutNow
    /\ UNCHANGED <<now, overdue, gc>>

\* Keys of extents that wait, put more than MaxPending before instant t.
OverdueAt(t) == {k \in KeysOf(WaitingExtents) : t - modified[k] > MaxPending}

\* Between its first call and reading the clock RunOnce takes no longer than
\* MaxListDelay; nothing in the code says so.
Tick ==
    /\ now < MaxTime
    /\ gc.at = "cutoff" => now - gc.listed_at < MaxListDelay
    /\ now' = now + 1
    /\ overdue' = overdue \cup OverdueAt(now + 1)
    /\ UNCHANGED <<fuseVars, modified, removed, gc>>
-----------------------------------------------------------------------------
(* RunOnce. *)

CallListLiveObjects ==
    /\ gc.at = "idle"
    /\ gc' = [at |-> "cutoff", live_objects |-> ListLiveObjects, listed_at |-> now]
    /\ UNCHANGED <<fuseVars, store, overdue>>

ReadClock ==
    /\ gc.at = "cutoff"
    /\ gc' = [at |-> "sweep", live_objects |-> gc.live_objects, cutoff |-> now - GraceMs]
    /\ UNCHANGED <<fuseVars, store, overdue>>

\* Mutant: the comparison with the live objects is forgotten.
IsOrphanIgnoreLive(k) == modified[k] <= gc.cutoff

IsOrphan(k) == k \notin gc.live_objects /\ modified[k] <= gc.cutoff

\* DeleteObject of an object on the page; a call that fails may have done it.
CallDeleteObject ==
    /\ gc.at = "sweep"
    /\ \E k \in DOMAIN objects \ removed : IsOrphan(k) /\ removed' = removed \cup {k}
    /\ UNCHANGED <<fuseVars, now, modified, overdue, gc>>

\* RunOnce returns, at its end or because a listing failed, or it is killed.
Return ==
    /\ gc.at # "idle" /\ gc' = NotRunning
    /\ UNCHANGED <<fuseVars, store, overdue>>
-----------------------------------------------------------------------------
FuseGcInit ==
    /\ FuseInit
    /\ now = 0 /\ modified = [k \in {} |-> 0] /\ removed = {} /\ overdue = {}
    /\ gc = NotRunning

RunOnce == CallListLiveObjects \/ ReadClock \/ CallDeleteObject \/ Return

FuseGcNext == MountsStep \/ Tick \/ RunOnce

FuseGcSpec == FuseGcInit /\ [][FuseGcNext]_fuseGcVars
-----------------------------------------------------------------------------
(* Properties. *)

\* No object is missing that a file refers to, or that may still come into one,
\* unless it waited for a commit longer than MaxPending: neither a listing that
\* grows old while mounts commit, nor retries and late commands, nor a sweep
\* that stops half-way make the collector remove data.
LiveExtentsStored == \A e \in WantedExtents : e.key \in removed => e.key \in overdue

\* A handle reads through a layout it took earlier, whose objects the collector
\* may have removed.  That happens only when the file was changed after the
\* layout was taken, and the version then tells: while the version of the file
\* is still the one in the handle, no object of the layout is missing, unless it
\* was overdue when it was committed.
ReadableUnlessChanged ==
    \A m \in Mounts : \A fh \in DOMAIN handles[m] :
        LET h == handles[m][fh]
            i == h.inode_id
        IN  i \in DOMAIN inodes /\ inodes[i].version = h.layout.attrs.version
                => \A e \in h.layout.extents :
                       Backed(e) /\ (e.key \in removed => e.key \in overdue)
=============================================================================
