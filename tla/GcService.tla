----------------------------- MODULE GcService -----------------------------
(***************************************************************************)
(* The orphan collector, GcService::RunOnce of src/src/gc_service.cc, and  *)
(* what runs beside it: FUSE mounts that upload an object first and commit *)
(* it to the metadata service later, and metadata operations (overwrite,   *)
(* truncate, unlink, rename) that make objects garbage.                    *)
(*                                                                         *)
(* A run is a sequence of calls to two other services with time passing    *)
(* and mounts working between any two of them: ListLiveObjects, reading    *)
(* the clock, one ListObjects per page, one DeleteObject per orphan.       *)
(*                                                                         *)
(* An object key is used once (MakeObjectKey: writer id and sequence       *)
(* number), so a key's last_modified never changes and a page of the       *)
(* listing is modelled by its keys.  Keys are numbers in listing order.    *)
(***************************************************************************)
EXTENDS Integers, FiniteSets

CONSTANTS
    Keys,           \* object keys, in the order ListObjects returns them
    PageSize,       \* keys per page of a listing
    GraceSeconds,   \* --gc_grace_seconds
    MsPerSecond,    \* 1000
    Word,           \* 2^64: the product is taken in uint64_t
    MaxPending,     \* longest time between an upload and its commit
    MaxListDelay,   \* longest time from the live listing to reading the clock
    MaxSkew,        \* difference of the store's clock and the collector's
    MaxTime         \* bound: the last instant

ASSUME GcAssumption ==
    /\ Keys \subseteq Nat \ {0}
    /\ \E n \in Keys \cup {0} : \A k \in Keys : k <= n
    /\ PageSize \in Nat \ {0}
    /\ GraceSeconds \in Nat /\ MsPerSecond \in Nat /\ Word \in Nat \ {0}
    /\ MaxPending \in Nat /\ MaxListDelay \in Nat /\ MaxSkew \in Nat
    /\ MaxTime \in Nat

VARIABLES
    now,            \* the collector's clock, in milliseconds
    phase,          \* per key: unused, pending in a handle, live, garbage
    stored,         \* keys in the object store
    uploaded,       \* per key: when it was put
    modified,       \* per key: last_modified_ms, by the store's clock
    dry_run,        \* --gc_dry_run
    gc_pc,          \* where RunOnce is
    live_objects,   \* its copy of the live keys
    listed_at,      \* when the service took that copy, until the clock is read
    cutoff,         \* cutoff_ms
    token,          \* continuation_token: last key seen, 0 for empty
    page,           \* keys of the current page still to examine
    delete_failed,  \* number of failed DeleteObject calls
    exit_code       \* of the last run: 0 or -1

world == <<now, phase, stored, uploaded, modified>>
gc == <<gc_pc, live_objects, listed_at, cutoff, token, page, delete_failed, exit_code>>
vars == <<world, dry_run, gc>>

Live == {k \in Keys : phase[k] = "live"}

\* static_cast<int64_t>(config_.grace_seconds * 1000)
GraceMs ==
    LET product == (GraceSeconds * MsPerSecond) % Word
    IN  IF product < Word \div 2 THEN product ELSE product - Word

\* Mutant: seconds are taken for milliseconds.
CutoffNoMs(t) == t - GraceSeconds

Cutoff(t) == t - GraceMs
-----------------------------------------------------------------------------
(* The mounts and the metadata service, as far as the collector sees them. *)

\* PutObject of a FUSE write; the key goes to the handle's pending extents.
Upload(k) ==
    /\ phase[k] = "unused"
    /\ phase' = [phase EXCEPT ![k] = "pending"]
    /\ stored' = stored \cup {k}
    /\ uploaded' = [uploaded EXCEPT ![k] = now]
    /\ \E skew \in -MaxSkew .. MaxSkew : modified' = [modified EXCEPT ![k] = now + skew]
    /\ UNCHANGED <<now, dry_run, gc>>

\* CommitHandle: the pending extent is merged into the file's layout.  The
\* code sets no limit to the time since the upload; MaxPending is the limit
\* that the users of a mount must keep.
Commit(k) ==
    /\ phase[k] = "pending" /\ now - uploaded[k] <= MaxPending
    /\ phase' = [phase EXCEPT ![k] = "live"]
    /\ UNCHANGED <<now, stored, uploaded, modified, dry_run, gc>>

\* The handle is lost before its commit, or the last extent that refers to
\* the object is overwritten, truncated away or unlinked.
Abandon(k) ==
    /\ phase[k] \in {"pending", "live"}
    /\ phase' = [phase EXCEPT ![k] = "garbage"]
    /\ UNCHANGED <<now, stored, uploaded, modified, dry_run, gc>>

Tick ==
    /\ now < MaxTime
    /\ gc_pc = "cutoff" => now - listed_at < MaxListDelay
    /\ now' = now + 1
    /\ UNCHANGED <<phase, stored, uploaded, modified, dry_run, gc>>
-----------------------------------------------------------------------------
(* RunOnce. *)

\* RunOnce returns; its local variables are gone.
Return(code) ==
    /\ gc_pc' = "idle" /\ exit_code' = code
    /\ live_objects' = {} /\ listed_at' = 0 /\ cutoff' = 0
    /\ token' = 0 /\ page' = {} /\ delete_failed' = 0
    /\ UNCHANGED <<world, dry_run>>

CallListLiveObjects ==
    /\ gc_pc = "idle"
    /\ \/ /\ live_objects' = Live
          /\ listed_at' = now
          /\ gc_pc' = "cutoff"
          /\ UNCHANGED <<world, dry_run, cutoff, token, page, delete_failed, exit_code>>
       \/ Return(-1)

ReadClock ==
    /\ gc_pc = "cutoff"
    /\ cutoff' = Cutoff(now)
    /\ listed_at' = 0
    /\ gc_pc' = "list"
    /\ UNCHANGED <<world, dry_run, live_objects, token, page, delete_failed, exit_code>>

\* The stored keys behind the continuation token, and the first page of them.
After(t) == {k \in stored : k > t}

FirstPage(t) == {k \in After(t) : Cardinality({j \in After(t) : j < k}) < PageSize}

\* Mutant: the token names the key after the last one of the page, which the
\* next page then skips.
NextTokenPastEnd(t) ==
    LET rest == After(t) \ FirstPage(t)
    IN  IF rest = {} THEN 0 ELSE CHOOSE k \in rest : \A j \in rest : k <= j

\* next_continuation_token: empty on the last page, else where this one ends.
NextToken(t) ==
    IF After(t) = FirstPage(t) THEN 0
    ELSE CHOOSE k \in FirstPage(t) : \A j \in FirstPage(t) : j <= k

CallListObjects ==
    /\ gc_pc = "list"
    /\ \/ /\ page' = FirstPage(token)
          /\ token' = NextToken(token)
          /\ gc_pc' = "scan"
          /\ UNCHANGED <<world, dry_run, live_objects, listed_at, cutoff, delete_failed, exit_code>>
       \/ Return(-1)

\* The object of the page whose turn it is.
Current == CHOOSE k \in page : \A j \in page : k <= j

\* Mutant: the comparison with the live objects is forgotten.
IsOrphanIgnoreLive(k) == modified[k] <= cutoff

IsOrphan(k) == k \notin live_objects /\ modified[k] <= cutoff

\* Live, young and (in a dry run) orphaned objects are counted and kept.
Keep ==
    /\ gc_pc = "scan" /\ page # {}
    /\ ~IsOrphan(Current) \/ dry_run
    /\ page' = page \ {Current}
    /\ UNCHANGED <<world, dry_run, gc_pc, live_objects, listed_at, cutoff, token,
                   delete_failed, exit_code>>

\* DeleteObject; a call that fails may have removed the object all the same.
CallDeleteObject ==
    /\ gc_pc = "scan" /\ page # {}
    /\ IsOrphan(Current) /\ ~dry_run
    /\ page' = page \ {Current}
    /\ \/ stored' = stored \ {Current} /\ UNCHANGED delete_failed
       \/ stored' = stored \ {Current} /\ delete_failed' = delete_failed + 1
       \/ UNCHANGED stored /\ delete_failed' = delete_failed + 1
    /\ UNCHANGED <<now, phase, uploaded, modified, dry_run, gc_pc, live_objects, listed_at,
                   cutoff, token, exit_code>>

\* Mutant: when a delete has failed, the listing starts over at the end.
EndPageRetry ==
    /\ gc_pc = "scan" /\ page = {}
    /\ \/ /\ token # 0 \/ delete_failed > 0
          /\ gc_pc' = "list" /\ delete_failed' = IF token = 0 THEN 0 ELSE delete_failed
          /\ UNCHANGED <<world, dry_run, live_objects, listed_at, cutoff, token, page, exit_code>>
       \/ token = 0 /\ delete_failed = 0 /\ Return(0)

EndPage ==
    /\ gc_pc = "scan" /\ page = {}
    /\ \/ /\ token # 0
          /\ gc_pc' = "list"
          /\ UNCHANGED <<world, dry_run, live_objects, listed_at, cutoff, token, page,
                         delete_failed, exit_code>>
       \/ token = 0 /\ Return(IF delete_failed = 0 THEN 0 ELSE -1)
-----------------------------------------------------------------------------
Init ==
    /\ now = 0
    /\ phase = [k \in Keys |-> "unused"]
    /\ stored = {}
    /\ uploaded = [k \in Keys |-> 0]
    /\ modified = [k \in Keys |-> 0]
    /\ dry_run \in BOOLEAN
    /\ gc_pc = "idle"
    /\ live_objects = {} /\ listed_at = 0 /\ cutoff = 0
    /\ token = 0 /\ page = {} /\ delete_failed = 0 /\ exit_code = 0

Mounts == \/ \E k \in Keys : Upload(k) \/ Commit(k) \/ Abandon(k)
          \/ Tick

RunStep == ReadClock \/ CallListObjects \/ Keep \/ CallDeleteObject \/ EndPage

RunOnce == CallListLiveObjects \/ RunStep

Next == Mounts \/ RunOnce

Spec == Init /\ [][Next]_vars

\* RunOnce is one thread of straight-line code: once started it goes on.
FairSpec == Spec /\ WF_vars(RunStep)
-----------------------------------------------------------------------------
TypeOK ==
    /\ now \in Nat
    /\ phase \in [Keys -> {"unused", "pending", "live", "garbage"}]
    /\ stored \subseteq Keys
    /\ uploaded \in [Keys -> Nat] /\ modified \in [Keys -> Int]
    /\ dry_run \in BOOLEAN
    /\ gc_pc \in {"idle", "cutoff", "list", "scan"}
    /\ live_objects \subseteq Keys
    /\ listed_at \in Nat /\ cutoff \in Int
    /\ token \in Keys \cup {0} /\ page \subseteq Keys
    /\ delete_failed \in Nat /\ exit_code \in {0, -1}

\* The longest a commit can trail the clock reading that condemns its object.
GraceCovers == MaxPending + MaxListDelay + MaxSkew < GraceMs

\* An object that a file refers to, or that its handle can still commit.
Wanted(k) ==
    phase[k] = "live" \/ (phase[k] = "pending" /\ now - uploaded[k] <= MaxPending)

\* No wanted object is ever missing from the store: neither the live listing
\* going stale while mounts commit, nor a slow or partly failed run, makes the
\* collector remove data.  Under GraceCovers.
WantedObjectsStored == \A k \in Keys : Wanted(k) => k \in stored

\* --gc_grace_seconds: an object is removed only when that many seconds have
\* passed since it was last modified.
GracePeriodHonoured ==
    [][\A k \in stored \ stored' : now - modified[k] >= GraceSeconds * MsPerSecond]_vars

\* A run that ends with exit code 0 has swept everything: each object left in
\* the store was live when the run listed the live objects, or is younger than
\* the cutoff, although pages are listed while objects come and go.
SweepComplete ==
    [][gc_pc = "scan" /\ gc_pc' = "idle" /\ exit_code' = 0 /\ ~dry_run
          => \A k \in stored : k \in live_objects \/ modified[k] > cutoff]_vars

\* A run always comes to its end, whatever fails on its way.
RunTerminates == gc_pc # "idle" ~> gc_pc = "idle"
-----------------------------------------------------------------------------
(* The inductive invariants. *)

\* Stamps of used keys: put in the past, and last_modified at most MaxSkew off.
StampsRight ==
    \A k \in Keys : phase[k] # "unused" =>
        uploaded[k] <= now /\ uploaded[k] - MaxSkew <= modified[k]

\* Time has only moved on since the cutoff was computed.
CutoffOld == gc_pc \in {"list", "scan"} => cutoff <= now - GraceMs

BaseInv == TypeOK /\ StampsRight /\ CutoffOld

\* Between the live listing and the clock reading: a wanted object that is not
\* on the list was uploaded at most MaxPending before the listing.
ListedRight ==
    gc_pc = "cutoff" =>
        /\ listed_at <= now /\ now - listed_at <= MaxListDelay
        /\ \A k \in Keys : Wanted(k) /\ k \notin live_objects
                              => listed_at <= uploaded[k] + MaxPending

\* After it: no wanted object is condemned.
NoneCondemned ==
    gc_pc \in {"list", "scan"} => \A k \in Keys : Wanted(k) => ~IsOrphan(k)

SafeInv == BaseInv /\ ListedRight /\ NoneCondemned /\ WantedObjectsStored

\* The orphans still in the store are the ones the sweep has not come to.
Unswept(k) ==
    \/ gc_pc = "list" /\ k > token
    \/ gc_pc = "scan" /\ (k \in page \/ (token # 0 /\ k > token))

SweepInv ==
    /\ BaseInv
    /\ gc_pc = "idle" => token = 0
    /\ gc_pc = "cutoff" => token = 0
    /\ gc_pc \in {"list", "scan"} /\ ~dry_run /\ delete_failed = 0 =>
            \A k \in stored : IsOrphan(k) => Unswept(k)
=============================================================================
