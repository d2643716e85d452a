----------------------------- MODULE GcProofs ------------------------------
(***************************************************************************)
(* The collector never removes an object that is or can become live, for   *)
(* any number of keys, any page size and any times that GraceCovers allows.*)
(***************************************************************************)
EXTENDS GcService, NatLemmas, FiniteSetTheorems

\* The grace period that the code computes is an integer, possibly negative.
LEMMA GraceMsType == GraceMs \in Int
BY GcAssumption DEF GraceMs

\* A page that is not the whole rest of the listing has a greatest key.
LEMMA LastOfPage ==
    ASSUME TypeOK, After(token) # FirstPage(token)
    PROVE  \E k \in FirstPage(token) : \A j \in FirstPage(token) : j <= k
<1>1. PICK n \in Nat : Keys \subseteq 0 .. n
    BY GcAssumption
<1>2. FirstPage(token) \subseteq Keys
    BY DEF FirstPage, After, TypeOK
<1>3. FirstPage(token) # {}
    <2>1. After(token) \in SUBSET Nat /\ After(token) # {}
        BY GcAssumption DEF FirstPage, After, TypeOK
    <2>2. PICK k \in After(token) : \A j \in After(token) : k <= j
        BY <2>1, LeastMember
    <2>3. {j \in After(token) : j < k} = {}
        BY <2>1, <2>2
    <2>4. k \in FirstPage(token)
        BY <2>3, FS_EmptySet, GcAssumption DEF FirstPage
    <2> QED BY <2>4
<1> QED BY <1>1, <1>2, <1>3, GreatestMember

\* The token is a key or empty.
LEMMA NextTokenType ==
    ASSUME TypeOK
    PROVE  NextToken(token) \in Keys \cup {0}
<1>1. FirstPage(token) \subseteq Keys
    BY DEF FirstPage, After, TypeOK
<1> QED BY <1>1, LastOfPage DEF NextToken

-----------------------------------------------------------------------------
(* Types, stamps and the age of the cutoff. *)

\* The collector and the mounts start with nothing uploaded.
LEMMA BaseInit == Init => BaseInv
<1> SUFFICES ASSUME Init PROVE BaseInv
    OBVIOUS
<1>1. TypeOK
    BY GcAssumption DEF Init, TypeOK
<1>2. StampsRight /\ CutoffOld
    BY DEF Init, StampsRight, CutoffOld
<1> QED BY <1>1, <1>2 DEF BaseInv

\* Every step of a mount and of RunOnce preserves BaseInv.
LEMMA BaseNext == BaseInv /\ [Next]_vars => BaseInv'
<1> SUFFICES ASSUME BaseInv, [Next]_vars PROVE BaseInv'
    OBVIOUS
<1> USE GcAssumption, GraceMsType DEF BaseInv
<1>1. ASSUME NEW k \in Keys, Upload(k) PROVE BaseInv'
    <2>1. PICK skew \in -MaxSkew .. MaxSkew : modified' = [modified EXCEPT ![k] = now + skew]
        BY <1>1 DEF Upload
    <2>2. TypeOK'
        BY <1>1, <2>1 DEF Upload, TypeOK, gc
    <2>3. StampsRight' /\ CutoffOld'
        BY <1>1, <2>1 DEF Upload, TypeOK, StampsRight, CutoffOld, gc
    <2> QED BY <2>2, <2>3
<1>2. ASSUME NEW k \in Keys, Commit(k) PROVE BaseInv'
    BY <1>2 DEF Commit, TypeOK, StampsRight, CutoffOld, gc
<1>3. ASSUME NEW k \in Keys, Abandon(k) PROVE BaseInv'
    BY <1>3 DEF Abandon, TypeOK, StampsRight, CutoffOld, gc
<1>4. CASE Tick
    BY <1>4 DEF Tick, TypeOK, StampsRight, CutoffOld, gc
<1>5. ASSUME NEW code \in {0, -1}, Return(code) PROVE BaseInv'
    <2>1. TypeOK'
        BY <1>5 DEF Return, TypeOK, world
    <2>2. StampsRight' /\ CutoffOld'
        BY <1>5 DEF Return, StampsRight, CutoffOld, world
    <2> QED BY <2>1, <2>2
<1>6. CASE CallListLiveObjects
    <2>1. CASE Return(-1)
        BY <2>1, <1>5
    <2>2. CASE ~Return(-1)
        BY <1>6, <2>2 DEF CallListLiveObjects, TypeOK, StampsRight, CutoffOld, Live, world
    <2> QED BY <2>1, <2>2
<1>7. CASE ReadClock
    BY <1>7 DEF ReadClock, TypeOK, StampsRight, CutoffOld, Cutoff, world
<1>8. CASE CallListObjects
    <2>1. CASE Return(-1)
        BY <2>1, <1>5
    <2>2. CASE ~Return(-1)
        <3>1. FirstPage(token) \subseteq Keys
            BY DEF FirstPage, After, TypeOK
        <3>2. NextToken(token) \in Keys \cup {0}
            BY NextTokenType
        <3> QED BY <1>8, <2>2, <3>1, <3>2
                DEF CallListObjects, TypeOK, StampsRight, CutoffOld, world
    <2> QED BY <2>1, <2>2
<1>9. CASE Keep
    BY <1>9 DEF Keep, TypeOK, StampsRight, CutoffOld, world
<1>10. CASE CallDeleteObject
    <2>0. stored' \subseteq Keys
        BY <1>10 DEF CallDeleteObject, TypeOK
    <2>3. delete_failed' \in Nat
        BY <1>10 DEF CallDeleteObject, TypeOK
    <2>4. page' \subseteq Keys
        BY <1>10 DEF CallDeleteObject, TypeOK
    <2>1. TypeOK'
        BY <1>10, <2>0, <2>3, <2>4 DEF CallDeleteObject, TypeOK
    <2>2. StampsRight' /\ CutoffOld'
        BY <1>10 DEF CallDeleteObject, StampsRight, CutoffOld
    <2> QED BY <2>1, <2>2
<1>11. CASE EndPage
    <2>1. CASE token = 0
        BY <1>11, <1>5, <2>1 DEF EndPage
    <2>2. CASE token # 0
        BY <1>11, <2>2 DEF EndPage, TypeOK, StampsRight, CutoffOld, world
    <2> QED BY <2>1, <2>2
<1>12. CASE UNCHANGED vars
    BY <1>12 DEF vars, world, gc, TypeOK, StampsRight, CutoffOld
<1> QED BY <1>1, <1>2, <1>3, <1>4, <1>6, <1>7, <1>8, <1>9, <1>10, <1>11, <1>12
    DEF Next, Mounts, RunOnce, RunStep

\* Type correctness, for every instance.
THEOREM GcTypeCorrect == Spec => []BaseInv
BY BaseInit, BaseNext, PTL DEF Spec

\* --gc_grace_seconds is kept, as long as the product with 1000 fits the word:
\* whatever is deleted was last modified that long ago.
THEOREM GraceHonoured ==
    ASSUME GraceMs = GraceSeconds * MsPerSecond
    PROVE  Spec => GracePeriodHonoured
<1>1. BaseInv /\ [Next]_vars =>
        [\A k \in stored \ stored' : now - modified[k] >= GraceSeconds * MsPerSecond]_vars
    <2> SUFFICES ASSUME BaseInv, Next, NEW k \in stored \ stored'
                 PROVE  now - modified[k] >= GraceSeconds * MsPerSecond
        BY DEF vars, world
    <2>1. CallDeleteObject
        BY DEF Next, Mounts, RunOnce, RunStep, Upload, Commit, Abandon, Tick, Return,
               CallListLiveObjects, ReadClock, CallListObjects, Keep, EndPage, world
    <2>2. IsOrphan(k)
        BY <2>1 DEF CallDeleteObject
    <2> QED BY <2>1, <2>2, GraceMsType, GcAssumption
        DEF BaseInv, TypeOK, CutoffOld, CallDeleteObject, IsOrphan
<1> QED BY <1>1, GcTypeCorrect, PTL DEF Spec, GracePeriodHonoured
-----------------------------------------------------------------------------
(* No wanted object is deleted. *)

\* Every step preserves SafeInv, when the grace period covers the delays.
LEMMA SafeNext == GraceCovers /\ SafeInv /\ [Next]_vars => SafeInv'
<1> SUFFICES ASSUME GraceCovers, SafeInv, [Next]_vars PROVE SafeInv'
    OBVIOUS
<1> USE GcAssumption, GraceMsType
<1>0. BaseInv /\ BaseInv'
    BY BaseNext DEF SafeInv
<1>1. ASSUME NEW k \in Keys, Upload(k) PROVE SafeInv'
    <2>1. PICK skew \in -MaxSkew .. MaxSkew : modified' = [modified EXCEPT ![k] = now + skew]
        BY <1>1 DEF Upload
    <2>2. ListedRight'
        BY <1>0, <1>1 DEF Upload, SafeInv, BaseInv, TypeOK, ListedRight, Wanted, gc
    <2>3. NoneCondemned'
        BY <1>0, <1>1, <2>1 DEF Upload, SafeInv, BaseInv, TypeOK, CutoffOld, NoneCondemned,
                Wanted, IsOrphan, gc, GraceCovers
    <2>4. WantedObjectsStored'
        BY <1>0, <1>1 DEF Upload, SafeInv, BaseInv, TypeOK, WantedObjectsStored, Wanted
    <2> QED BY <1>0, <2>2, <2>3, <2>4 DEF SafeInv
<1>2. ASSUME NEW k \in Keys, Commit(k) PROVE SafeInv'
    BY <1>0, <1>2 DEF Commit, SafeInv, BaseInv, TypeOK, ListedRight, NoneCondemned,
                WantedObjectsStored, Wanted, IsOrphan, gc
<1>3. ASSUME NEW k \in Keys, Abandon(k) PROVE SafeInv'
    BY <1>0, <1>3 DEF Abandon, SafeInv, BaseInv, TypeOK, ListedRight, NoneCondemned,
                WantedObjectsStored, Wanted, IsOrphan, gc
<1>4. CASE Tick
    BY <1>0, <1>4 DEF Tick, SafeInv, BaseInv, TypeOK, ListedRight, NoneCondemned,
                WantedObjectsStored, Wanted, IsOrphan, gc
<1>5. ASSUME NEW code \in {0, -1}, Return(code) PROVE SafeInv'
    BY <1>0, <1>5 DEF Return, SafeInv, ListedRight, NoneCondemned,
                WantedObjectsStored, Wanted, world
<1>6. CASE CallListLiveObjects
    <2>1. CASE Return(-1)
        BY <2>1, <1>5
    <2>2. CASE ~Return(-1)
        <3>1. ListedRight'
            <4>1. live_objects' = Live /\ listed_at' = now /\ UNCHANGED <<now, phase, uploaded>>
                BY <1>6, <2>2 DEF CallListLiveObjects, world
            <4>2. now \in Nat /\ uploaded \in [Keys -> Nat]
                BY <1>0 DEF BaseInv, TypeOK
            <4> QED BY <4>1, <4>2 DEF ListedRight, Wanted, Live
        <3>2. NoneCondemned' /\ WantedObjectsStored'
            BY <1>6, <2>2 DEF CallListLiveObjects, SafeInv, NoneCondemned,
                WantedObjectsStored, Wanted, world
        <3> QED BY <1>0, <3>1, <3>2 DEF SafeInv
    <2> QED BY <2>1, <2>2
<1>7. CASE ReadClock
    BY <1>0, <1>7 DEF ReadClock, SafeInv, BaseInv, TypeOK, StampsRight, ListedRight,
                NoneCondemned, WantedObjectsStored, Wanted, IsOrphan, Cutoff, GraceCovers, world
<1>8. CASE CallListObjects
    <2>1. CASE Return(-1)
        BY <2>1, <1>5
    <2>2. CASE ~Return(-1)
        BY <1>0, <1>8, <2>2 DEF CallListObjects, SafeInv, ListedRight, NoneCondemned,
                WantedObjectsStored, Wanted, IsOrphan, world
    <2> QED BY <2>1, <2>2
<1>9. CASE Keep
    BY <1>0, <1>9 DEF Keep, SafeInv, ListedRight, NoneCondemned, WantedObjectsStored,
                Wanted, IsOrphan, world
<1>10. CASE CallDeleteObject
    <2>1. \A k \in Keys : Wanted(k) => k # Current
        BY <1>10 DEF CallDeleteObject, SafeInv, NoneCondemned
    <2>2. \A k \in Keys : Wanted(k)' = Wanted(k) /\ IsOrphan(k)' = IsOrphan(k)
        BY <1>10 DEF CallDeleteObject, Wanted, IsOrphan
    <2>3. \A k \in stored : k # Current => k \in stored'
        BY <1>10 DEF CallDeleteObject
    <2>4. WantedObjectsStored'
        BY <2>1, <2>2, <2>3 DEF SafeInv, WantedObjectsStored
    <2>5. ListedRight' /\ NoneCondemned'
        BY <1>10, <2>2 DEF CallDeleteObject, SafeInv, ListedRight, NoneCondemned
    <2> QED BY <1>0, <2>4, <2>5 DEF SafeInv
<1>11. CASE EndPage
    <2>1. CASE token = 0
        BY <1>11, <1>5, <2>1 DEF EndPage
    <2>2. CASE token # 0
        BY <1>0, <1>11, <2>2 DEF EndPage, SafeInv, ListedRight, NoneCondemned,
                WantedObjectsStored, Wanted, IsOrphan, world
    <2> QED BY <2>1, <2>2
<1>12. CASE UNCHANGED vars
    BY <1>0, <1>12 DEF vars, world, gc, SafeInv, ListedRight, NoneCondemned,
                WantedObjectsStored, Wanted, IsOrphan
<1> QED BY <1>1, <1>2, <1>3, <1>4, <1>6, <1>7, <1>8, <1>9, <1>10, <1>11, <1>12
    DEF Next, Mounts, RunOnce, RunStep

\* The collector never deletes an object that a file refers to or that a
\* handle can still commit, if commits trail uploads, the clock reading trails
\* the live listing and the clocks differ by less than the grace period.
THEOREM CollectorIsSafe ==
    ASSUME GraceCovers
    PROVE  Spec => []WantedObjectsStored
<1>1. Init => SafeInv
    BY BaseInit DEF Init, SafeInv, ListedRight, NoneCondemned, WantedObjectsStored, Wanted
<1>2. SafeInv /\ [Next]_vars => SafeInv'
    BY SafeNext
<1>3. SafeInv => WantedObjectsStored
    BY DEF SafeInv
<1> QED BY <1>1, <1>2, <1>3, PTL DEF Spec
-----------------------------------------------------------------------------
(* A sweep misses nothing. *)

\* A page holds a key with every smaller key behind the token: the keys that
\* are left for later pages are above all keys of this one.
LEMMA PageIsInitial ==
    ASSUME TypeOK, NEW j \in FirstPage(token), NEW k \in After(token) \ FirstPage(token)
    PROVE  j < k
<1> DEFINE Below(m) == {i \in After(token) : i < m}
<1>1. j \in Nat /\ k \in Nat /\ After(token) \subseteq Nat
    BY GcAssumption DEF FirstPage, After, TypeOK
<1> SUFFICES ASSUME k <= j PROVE FALSE
    BY <1>1
<1>2. Below(k) \subseteq Below(j)
    BY <1>1
<1>3. IsFiniteSet(Below(j))
    <2>1. Below(j) \subseteq 0 .. j
        BY <1>1
    <2>2. IsFiniteSet(0 .. j)
        BY <1>1, FS_Interval
    <2> QED BY <2>1, <2>2, FS_Subset
<1>4. Cardinality(Below(k)) <= Cardinality(Below(j))
    BY <1>2, <1>3, FS_Subset
<1>5. Cardinality(Below(j)) < PageSize
    BY DEF FirstPage
<1>6. Cardinality(Below(j)) \in Nat /\ Cardinality(Below(k)) \in Nat
    BY <1>2, <1>3, FS_Subset, FS_CardinalityType
<1>7. Cardinality(Below(k)) < PageSize
    BY <1>4, <1>5, <1>6, GcAssumption
<1> QED BY <1>7 DEF FirstPage

\* Paging: a stored key behind the token is on the page or behind the next
\* token.
LEMMA PagingMissesNothing ==
    ASSUME TypeOK, NEW k \in After(token)
    PROVE  k \in FirstPage(token) \/ (NextToken(token) # 0 /\ k > NextToken(token))
<1> SUFFICES ASSUME k \notin FirstPage(token)
             PROVE  NextToken(token) # 0 /\ k > NextToken(token)
    OBVIOUS
<1>1. After(token) # FirstPage(token)
    OBVIOUS
<1>2. \E l \in FirstPage(token) : \A j \in FirstPage(token) : j <= l
    BY <1>1, LastOfPage
<1>3. NextToken(token) \in FirstPage(token)
    BY <1>1, <1>2, Zenon DEF NextToken
<1>4. NextToken(token) < k
    BY <1>3, PageIsInitial
<1>5. NextToken(token) \in Nat \ {0} /\ k \in Nat
    BY <1>3, GcAssumption DEF FirstPage, After, TypeOK
<1> QED BY <1>4, <1>5

\* Every step preserves SweepInv, when a new object is younger than the cutoff.
LEMMA SweepNext == MaxSkew < GraceMs /\ SweepInv /\ [Next]_vars => SweepInv'
<1> SUFFICES ASSUME MaxSkew < GraceMs, SweepInv, [Next]_vars PROVE SweepInv'
    OBVIOUS
<1> USE GcAssumption, GraceMsType
<1>0. BaseInv /\ BaseInv'
    BY BaseNext DEF SweepInv
<1>1. ASSUME NEW k \in Keys, Upload(k) PROVE SweepInv'
    <2>1. PICK skew \in -MaxSkew .. MaxSkew : modified' = [modified EXCEPT ![k] = now + skew]
        BY <1>1 DEF Upload
    <2>2. gc_pc \in {"list", "scan"} => ~IsOrphan(k)'
        BY <1>0, <1>1, <2>1 DEF Upload, BaseInv, TypeOK, CutoffOld, IsOrphan, gc
    <2>3. \A j \in stored : j # k => IsOrphan(j)' = IsOrphan(j)
        BY <1>0, <1>1, <2>1 DEF Upload, BaseInv, TypeOK, IsOrphan, gc
    <2> QED BY <1>0, <1>1, <2>2, <2>3 DEF Upload, SweepInv, Unswept, gc
<1>2. ASSUME NEW k \in Keys, Commit(k) PROVE SweepInv'
    BY <1>0, <1>2 DEF Commit, SweepInv, Unswept, IsOrphan, gc
<1>3. ASSUME NEW k \in Keys, Abandon(k) PROVE SweepInv'
    BY <1>0, <1>3 DEF Abandon, SweepInv, Unswept, IsOrphan, gc
<1>4. CASE Tick
    BY <1>0, <1>4 DEF Tick, SweepInv, Unswept, IsOrphan, gc
<1>5. ASSUME NEW code \in {0, -1}, Return(code) PROVE SweepInv'
    BY <1>0, <1>5 DEF Return, SweepInv
<1>6. CASE CallListLiveObjects
    <2>1. CASE Return(-1)
        BY <2>1, <1>5
    <2>2. CASE ~Return(-1)
        BY <1>0, <1>6, <2>2 DEF CallListLiveObjects, SweepInv
    <2> QED BY <2>1, <2>2
<1>7. CASE ReadClock
    <2>1. token' = 0 /\ stored' = stored /\ gc_pc' = "list"
        BY <1>7 DEF ReadClock, SweepInv, world
    <2>2. \A k \in stored : k > 0
        BY <1>0 DEF BaseInv, TypeOK
    <2> QED BY <1>0, <2>1, <2>2 DEF SweepInv, Unswept
<1>8. CASE CallListObjects
    <2>1. CASE Return(-1)
        BY <2>1, <1>5
    <2>2. CASE ~Return(-1)
        <3>1. /\ page' = FirstPage(token) /\ token' = NextToken(token)
              /\ gc_pc = "list" /\ gc_pc' = "scan"
              /\ UNCHANGED <<stored, modified, dry_run, live_objects, cutoff, delete_failed>>
            BY <1>8, <2>2 DEF CallListObjects, world
        <3>2. \A k \in stored : k > token => k \in page' \/ (token' # 0 /\ k > token')
            BY <1>0, <3>1, PagingMissesNothing DEF BaseInv, After
        <3> QED BY <1>0, <3>1, <3>2 DEF SweepInv, Unswept, IsOrphan
    <2> QED BY <2>1, <2>2
<1>9. CASE Keep
    BY <1>0, <1>9 DEF Keep, SweepInv, Unswept, IsOrphan, world
<1>10. CASE CallDeleteObject
    <2>1. delete_failed' = 0 =>
              stored' = stored \ {Current} /\ delete_failed = 0
        BY <1>0, <1>10 DEF CallDeleteObject, BaseInv, TypeOK
    <2> QED BY <1>0, <1>10, <2>1 DEF CallDeleteObject, SweepInv, Unswept, IsOrphan
<1>11. CASE EndPage
    <2>1. CASE token = 0
        BY <1>11, <1>5, <2>1 DEF EndPage
    <2>2. CASE token # 0
        BY <1>0, <1>11, <2>2 DEF EndPage, SweepInv, Unswept, IsOrphan, world
    <2> QED BY <2>1, <2>2
<1>12. CASE UNCHANGED vars
    BY <1>0, <1>12 DEF vars, world, gc, SweepInv, Unswept, IsOrphan
<1> QED BY <1>1, <1>2, <1>3, <1>4, <1>6, <1>7, <1>8, <1>9, <1>10, <1>11, <1>12
    DEF Next, Mounts, RunOnce, RunStep

\* A run with exit code 0 leaves no orphan that it could know of, however many
\* pages the listing has and whatever is uploaded and deleted meanwhile.
THEOREM SweepIsComplete ==
    ASSUME MaxSkew < GraceMs
    PROVE  Spec => SweepComplete
<1>1. Init => SweepInv
    BY BaseInit DEF Init, SweepInv
<1>2. SweepInv /\ [Next]_vars => SweepInv'
    BY SweepNext
<1>3. SweepInv /\ [Next]_vars =>
        [gc_pc = "scan" /\ gc_pc' = "idle" /\ exit_code' = 0 /\ ~dry_run
            => \A k \in stored : k \in live_objects \/ modified[k] > cutoff]_vars
    <2> SUFFICES ASSUME SweepInv, Next, gc_pc = "scan", gc_pc' = "idle", exit_code' = 0, ~dry_run
                 PROVE  \A k \in stored : k \in live_objects \/ modified[k] > cutoff
        OBVIOUS
    <2>1. EndPage
        BY DEF Next, Mounts, RunOnce, RunStep, Upload, Commit, Abandon, Tick,
               CallListLiveObjects, ReadClock, CallListObjects, Keep, CallDeleteObject, gc
    <2>2. token = 0 /\ page = {} /\ delete_failed = 0
        BY <2>1 DEF EndPage, Return
    <2>3. \A k \in stored : ~IsOrphan(k)
        BY <2>2 DEF SweepInv, Unswept
    <2> QED BY <2>3 DEF SweepInv, BaseInv, TypeOK, IsOrphan
<1> QED BY <1>1, <1>2, <1>3, PTL DEF Spec, SweepComplete
=============================================================================
