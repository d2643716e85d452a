----------------------------- MODULE DirProofs -----------------------------
(***************************************************************************)
(* What the kernel sees of directories through one mount, for any          *)
(* directories, names and page size.                                       *)
(***************************************************************************)
EXTENDS FuseDir, MetaStateProofs

(***************************************************************************)
(* Lists in the order of names.  An entry is <<name, inode>>.              *)
(***************************************************************************)
\* A directory: finitely many entries, one for each name.
IsListing(S) ==
    /\ IsFiniteSet(S)
    /\ \A x \in S : x[1] \in Nat
    /\ \A x, y \in S : x[1] = y[1] => x = y

InOrder(s, S) ==
    /\ s \in [1 .. Cardinality(S) -> S]
    /\ \A i, j \in DOMAIN s : i < j => s[i][1] < s[j][1]

\* One entry less.
LEMMA ListingWithout ==
    ASSUME NEW S, IsListing(S), NEW x \in S
    PROVE  /\ IsListing(S \ {x}) /\ Cardinality(S) \in Nat
           /\ Cardinality(S \ {x}) = Cardinality(S) - 1
BY FS_RemoveElement, FS_CardinalityType DEF IsListing

\* A non-empty directory has a last entry.
LEMMA LastEntry ==
    ASSUME NEW S, IsListing(S), S # {}
    PROVE  \E x \in S : \A y \in S : y[1] <= x[1]
<1> DEFINE Good(n) == \A T : IsListing(T) /\ Cardinality(T) = n /\ T # {} =>
                          \E x \in T : \A y \in T : y[1] <= x[1]
           G == {n \in Nat : Good(n)}
<1>1. 0 \in G
    BY FS_EmptySet DEF IsListing
<1>2. ASSUME NEW n \in G PROVE n + 1 \in G
    <2> SUFFICES ASSUME NEW T, IsListing(T), Cardinality(T) = n + 1, T # {}
                 PROVE  \E x \in T : \A y \in T : y[1] <= x[1]
        OBVIOUS
    <2>1. PICK x \in T : TRUE
        OBVIOUS
    <2>2. IsListing(T \ {x}) /\ Cardinality(T \ {x}) = n
        BY <2>1, ListingWithout
    <2>3. \A y \in T : y[1] \in Nat
        BY DEF IsListing
    <2>4. CASE T \ {x} = {}
        BY <2>1, <2>3, <2>4
    <2>5. CASE T \ {x} # {}
        <3>1. PICK z \in T \ {x} : \A y \in T \ {x} : y[1] <= z[1]
            BY <1>2, <2>2, <2>5
        <3>2. CASE z[1] <= x[1]
            BY <2>1, <2>3, <3>1, <3>2
        <3>3. CASE ~(z[1] <= x[1])
            <4>1. x[1] <= z[1]
                BY <2>1, <2>3, <3>1, <3>3
            <4> QED BY <3>1, <4>1
        <3> QED BY <3>2, <3>3
    <2> QED BY <2>4, <2>5
<1> HIDE DEF Good
<1>3. G = Nat
    BY <1>1, <1>2, SetInduction
<1>4. Good(Cardinality(S))
    BY <1>3, FS_CardinalityType DEF IsListing
<1> QED BY <1>4 DEF Good

\* A directory can be listed in the order of the names.
LEMMA Listable ==
    ASSUME NEW S, IsListing(S)
    PROVE  \E s : InOrder(s, S)
<1> DEFINE Good(n) == \A T : IsListing(T) /\ Cardinality(T) = n => \E s : InOrder(s, T)
           G == {n \in Nat : Good(n)}
<1>1. 0 \in G
    <2> SUFFICES ASSUME NEW T, IsListing(T), Cardinality(T) = 0
                 PROVE  \E s : InOrder(s, T)
        OBVIOUS
    <2>1. InOrder([k \in 1 .. 0 |-> 0], T)
        BY DEF InOrder
    <2> QED BY <2>1
<1>2. ASSUME NEW n \in G PROVE n + 1 \in G
    <2> SUFFICES ASSUME NEW T, IsListing(T), Cardinality(T) = n + 1
                 PROVE  \E s : InOrder(s, T)
        OBVIOUS
    <2>1. T # {}
        BY FS_EmptySet
    <2>2. PICK x \in T : \A y \in T : y[1] <= x[1]
        BY <2>1, LastEntry
    <2>3. IsListing(T \ {x}) /\ Cardinality(T \ {x}) = n
        BY ListingWithout
    <2>4. PICK s : InOrder(s, T \ {x})
        BY <1>2, <2>3
    <2> DEFINE t == [k \in 1 .. n + 1 |-> IF k = n + 1 THEN x ELSE s[k]]
    <2>5. /\ s \in [1 .. n -> T \ {x}] /\ \A i, j \in 1 .. n : i < j => s[i][1] < s[j][1]
        BY <2>3, <2>4 DEF InOrder
    <2>6. \A k \in 1 .. n + 1 : k # n + 1 => k \in 1 .. n
        OBVIOUS
    <2>7. t \in [1 .. n + 1 -> T]
        BY <2>5, <2>6
    <2>8. ASSUME NEW i \in 1 .. n + 1, NEW j \in 1 .. n + 1, i < j
          PROVE  t[i][1] < t[j][1]
        <3>1. i \in 1 .. n /\ t[i] = s[i]
            BY <2>6, <2>8
        <3>2. CASE j = n + 1
            <4>1. s[i] \in T /\ s[i] # x /\ t[j] = x
                BY <2>5, <3>1, <3>2
            <4>2. s[i][1] \in Nat /\ x[1] \in Nat /\ s[i][1] # x[1] /\ s[i][1] <= x[1]
                BY <2>2, <4>1 DEF IsListing
            <4> QED BY <3>1, <4>1, <4>2
        <3>3. CASE j # n + 1
            <4>1. j \in 1 .. n /\ t[j] = s[j]
                BY <2>6, <3>3
            <4> QED BY <2>5, <2>8, <3>1, <4>1
        <3> QED BY <3>2, <3>3
    <2>9. InOrder(t, T)
        BY <2>7, <2>8 DEF InOrder
    <2> QED BY <2>9
<1> HIDE DEF Good
<1>3. G = Nat
    BY <1>1, <1>2, SetInduction
<1>4. Good(Cardinality(S))
    BY <1>3, FS_CardinalityType DEF IsListing
<1> QED BY <1>4 DEF Good

\* What it means for s to list S in order: every entry is there, once.
LEMMA InOrderIs ==
    ASSUME NEW S, IsListing(S), NEW s, InOrder(s, S)
    PROVE  /\ Cardinality(S) \in Nat /\ DOMAIN s = 1 .. Cardinality(S)
           /\ s \in Seq(S) /\ Len(s) = Cardinality(S)
           /\ \A k \in DOMAIN s : s[k] \in S
           /\ \A i, j \in DOMAIN s : s[i][1] < s[j][1] => i < j
           /\ \A i, j \in DOMAIN s : s[i] = s[j] => i = j
           /\ \A x \in S : \E k \in DOMAIN s : s[k] = x
<1> DEFINE N == Cardinality(S)
<1>1. N \in Nat /\ IsFiniteSet(S)
    BY FS_CardinalityType DEF IsListing
<1>2. s \in [1 .. N -> S] /\ DOMAIN s = 1 .. N
    BY DEF InOrder
<1>3. \A i \in 1 .. N : s[i] \in S /\ s[i][1] \in Nat
    BY <1>2 DEF IsListing
<1>4. ASSUME NEW i \in 1 .. N, NEW j \in 1 .. N
      PROVE  i < j => s[i][1] < s[j][1]
    BY <1>2 DEF InOrder
<1>5. \A i, j \in 1 .. N : s[i][1] < s[j][1] => i < j
    <2> SUFFICES ASSUME NEW i \in 1 .. N, NEW j \in 1 .. N, s[i][1] < s[j][1], ~(i < j)
                 PROVE  FALSE
        OBVIOUS
    <2>1. CASE i = j
        BY <1>3, <2>1
    <2>2. CASE j < i
        BY <1>3, <1>4, <2>2
    <2> QED BY <1>1, <2>1, <2>2
<1>6. \A i, j \in 1 .. N : s[i] = s[j] => i = j
    <2> SUFFICES ASSUME NEW i \in 1 .. N, NEW j \in 1 .. N, s[i] = s[j], i # j
                 PROVE  FALSE
        OBVIOUS
    <2>1. i < j \/ j < i
        BY <1>1
    <2>2. s[i][1] < s[j][1] \/ s[j][1] < s[i][1]
        BY <1>4, <2>1
    <2> QED BY <1>3, <2>2
<1>7. s \in Injection(1 .. N, S)
    BY <1>2, <1>6 DEF Injection, IsInjective
<1>8. Cardinality(1 .. N) = N
    BY <1>1, FS_Interval
<1>9. s \in Surjection(1 .. N, S)
    BY <1>1, <1>7, <1>8, FS_Injection
<1>10. \A x \in S : \E k \in 1 .. N : s[k] = x
    BY <1>9 DEF Surjection
<1>11. s \in Seq(S) /\ Len(s) = N
    BY <1>1, <1>2
<1> QED BY <1>1, <1>2, <1>3, <1>5, <1>6, <1>10, <1>11

\* A directory of a table of entries is a listing.
Table(dent) ==
    /\ IsFiniteSet(DOMAIN dent)
    /\ DOMAIN dent \subseteq Nat \X Names /\ dent \in [DOMAIN dent -> Nat]

\* The entries of a directory are finitely many and have different names.
LEMMA EntrySetIs ==
    ASSUME NEW dent, Table(dent), NEW d
    PROVE  IsListing(EntrySet(dent, d)) /\ EntrySet(dent, d) \subseteq Nat \X Nat
<1> DEFINE K == {l \in DOMAIN dent : l[1] = d}
           E == EntrySet(dent, d)
<1>1. IsFiniteSet(E)
    <2> DEFINE g == [k \in K |-> <<k[2], dent[k]>>]
    <2>1. IsFiniteSet(K)
        BY FS_Subset, K \in SUBSET DOMAIN dent DEF Table
    <2>2. g \in Surjection(K, E)
        BY DEF Surjection, EntrySet
    <2> HIDE DEF K, g, E
    <2> QED BY <2>1, <2>2, FS_Surjection
<1>2. \A x \in E : x \in Nat \X Nat /\ x[1] \in Nat
    BY DirAssumption DEF EntrySet, Table
<1>3. ASSUME NEW x \in E, NEW y \in E, x[1] = y[1] PROVE x = y
    <2>1. PICK k \in K : x = <<k[2], dent[k]>>
        BY DEF EntrySet
    <2>2. PICK l \in K : y = <<l[2], dent[l]>>
        BY DEF EntrySet
    <2>3. k[2] = l[2] /\ k[1] = l[1]
        BY <1>3, <2>1, <2>2
    <2>4. k = <<k[1], k[2]>> /\ l = <<l[1], l[2]>>
        BY DEF Table
    <2>5. k = l
        BY <2>3, <2>4
    <2> QED BY <2>1, <2>2, <2>5
<1> QED BY <1>1, <1>2, <1>3 DEF IsListing

\* The entries of a directory, and the reply that lists them.
EntriesListed ==
    Table(dentries) /\ \A d : InOrder(Entries(d), EntrySet(dentries, d))

\* The list that ReadDir builds has each entry of the directory once, by name.
LEMMA EntriesAre == CountInv => EntriesListed
<1> SUFFICES ASSUME CountInv PROVE EntriesListed
    OBVIOUS
<1>1. Table(dentries)
    BY DEF CountInv, Counted, MetaInv, TypeI, Table
<1>2. ASSUME NEW d PROVE InOrder(Entries(d), EntrySet(dentries, d))
    <2> DEFINE E == EntrySet(dentries, d)
    <2>1. PICK s : InOrder(s, E)
        BY <1>1, EntrySetIs, Listable
    <2>2. \E t \in [1 .. Cardinality(E) -> E] : \A i, j \in DOMAIN t : i < j => t[i][1] < t[j][1]
        BY <2>1 DEF InOrder
    <2> QED BY <2>2 DEF InOrder, Entries
<1> QED BY <1>1, <1>2 DEF EntriesListed

-----------------------------------------------------------------------------
(* The types of the mount's own state. *)

Entry == Nat \X Nat

Listings ==
    [dir : Nat, off : Nat, got : Seq(Entry), ended : BOOLEAN,
     steady : SUBSET Entry, removed : Nat, added : Nat]

AtAttrs == [at |-> "attrs"]

AtEntries == [at : {"entries"}, entries : Seq(Entry)]

DirType ==
    /\ CountInv
    /\ listing \in {NoListing} \cup Listings
    /\ request \in {Idle, AtAttrs} \cup AtEntries
    /\ request # Idle => listing \in Listings

\* The kernel's listing is there or not, and a request is at one place.
LEMMA Distinct ==
    /\ NoListing \notin Listings
    /\ Idle # AtAttrs /\ Idle \notin AtEntries /\ AtAttrs \notin AtEntries
    /\ Idle.at # "attrs" /\ Idle.at # "entries" /\ AtAttrs.at = "attrs"
    /\ \A r \in AtEntries : r.at = "entries"
<1>1. NoListing \notin Listings
    <2> SUFFICES ASSUME NoListing \in Listings PROVE FALSE
        OBVIOUS
    <2>1. DOMAIN NoListing = {"dir"}
        BY DEF NoListing
    <2>2. "off" \in DOMAIN NoListing
        BY DEF Listings
    <2> QED BY <2>1, <2>2
<1>2. Idle.at = "idle" /\ AtAttrs.at = "attrs" /\ \A r \in AtEntries : r.at = "entries"
    BY DEF Idle, AtAttrs, AtEntries
<1> QED BY <1>1, <1>2

\* The watch keeps the kernel's listing and counts on.
LEMMA WatchIs ==
    ASSUME CountInv, CountInv', NEW learned, Watch(learned), listing \in Listings
    PROVE  /\ listing' \in Listings
           /\ listing'.dir = listing.dir /\ listing'.off = listing.off
           /\ listing'.got = listing.got /\ listing'.ended = listing.ended
           /\ LET before == EntrySet(dentries, listing.dir)
                  after  == EntrySet(dentries', listing.dir)
              IN  /\ IsFiniteSet(before) /\ IsFiniteSet(after)
                  /\ listing'.steady = listing.steady \cap after
                  /\ listing'.removed = listing.removed + Cardinality(before \ after)
                  /\ listing'.added = listing.added + Cardinality(after \ before)
<1> DEFINE before == EntrySet(dentries, listing.dir)
           after  == EntrySet(dentries', listing.dir)
<1>1. Table(dentries) /\ Table(dentries')
    <2>1. CountInv' => EntriesListed'
        BY EntriesAre, PTL
    <2> QED BY <2>1, EntriesAre DEF EntriesListed, Table
<1>2. IsFiniteSet(before) /\ IsFiniteSet(after)
    BY <1>1, EntrySetIs DEF IsListing
<1>3. Cardinality(before \ after) \in Nat /\ Cardinality(after \ before) \in Nat
    BY <1>2, FS_Difference, FS_CardinalityType
<1>4. listing' = [listing EXCEPT !.steady  = @ \cap after,
                                 !.removed = @ + Cardinality(before \ after),
                                 !.added   = @ + Cardinality(after \ before)]
    BY Distinct DEF Watch
<1> DEFINE rem == Cardinality(before \ after)
           add == Cardinality(after \ before)
<1> HIDE DEF before, after, rem, add
<1>5. /\ listing'.dir = listing.dir /\ listing'.off = listing.off
      /\ listing'.got = listing.got /\ listing'.ended = listing.ended
      /\ listing'.steady = listing.steady \cap after
      /\ listing'.removed = listing.removed + rem
      /\ listing'.added = listing.added + add
    BY <1>4 DEF Listings, rem, add
<1>6. listing' \in Listings
    <2>1. /\ listing.steady \cap after \in SUBSET Entry
          /\ listing.removed + rem \in Nat /\ listing.added + add \in Nat
        BY <1>3 DEF Listings, rem, add
    <2>2. listing' = [listing EXCEPT !.steady  = @ \cap after, !.removed = @ + rem, !.added = @ + add]
        BY <1>4 DEF rem, add
    <2> HIDE DEF Entry
    <2> QED BY <2>1, <2>2 DEF Listings
<1> QED BY <1>2, <1>5, <1>6 DEF before, after, rem, add

-----------------------------------------------------------------------------
\* Every step of the mount is one of MetaState, or leaves it alone.
LEMMA MetaOfDir == DirNext => \/ UNCHANGED vars
                              \/ Next
<1> SUFFICES ASSUME DirNext PROVE UNCHANGED vars \/ Next
    OBVIOUS
<1>1. CASE OtherRequest
    BY <1>1 DEF OtherRequest, Next
<1>2. ASSUME NEW p \in InodeIds, NEW n \in Names, PulpfsMkdirOrCreate(p, n) PROVE Next
    BY <1>2 DEF PulpfsMkdirOrCreate, Next, NamespaceStep, AnyName
<1> QED BY <1>1, <1>2 DEF DirNext, PulpfsLookup, PulpfsOpenDir, CloseDir, PulpfsReadDir,
                          FetchEntries, ReplyPage, ReplyError

\* Where the parents are.
ParentsRight ==
    /\ \A k \in DOMAIN dentries :
           /\ dentries[k] \in DOMAIN inodes /\ k[1] \in DOMAIN inodes
           /\ ParentOf(dentries[k]) = k[1] /\ dentries[k] # k[1]
    /\ ParentOf(Root) = Root /\ Root \in DOMAIN inodes
    /\ \A i \in DOMAIN inodes : ParentOf(i) \in DOMAIN inodes

\* In a rooted tree ParentOf is the only directory that has an entry of the inode.
LEMMA ParentOfIs == MetaInv => ParentsRight
<1> SUFFICES ASSUME MetaInv PROVE ParentsRight
    OBVIOUS
<1>1. Linked(DOMAIN inodes, Dirs, dentries) /\ RootedIn(DOMAIN inodes, dentries)
    BY DEF MetaInv, Tree
<1>2. \A i : ParentOf(i) = ParentIn(dentries, i)
    BY DEF ParentOf, ParentIn
<1>3. Dirs \subseteq DOMAIN inodes
    BY DEF Dirs
<1>4. /\ \A k \in DOMAIN dentries : ParentOf(dentries[k]) = k[1]
      /\ ParentOf(Root) = Root
      /\ \A i \in DOMAIN inodes : ParentOf(i) \in Dirs
    BY <1>1, <1>2, ParentIs
<1>5. ASSUME NEW k \in DOMAIN dentries, dentries[k] = k[1] PROVE FALSE
    <2>1. dentries[k] \in DOMAIN inodes \ {Root}
        BY <1>1 DEF Linked
    <2>2. {dentries[k]} \in SUBSET (DOMAIN inodes \ {Root})
        BY <2>1
    <2>3. ParentIn(dentries, dentries[k]) # dentries[k]
        BY <1>1, <2>2 DEF RootedIn
    <2> QED BY <1>2, <1>4, <1>5, <2>3
<1> QED BY <1>1, <1>3, <1>4, <1>5 DEF Linked, ParentsRight

\* The types are kept.
LEMMA DirTypeStep == DirType /\ [DirNext]_dirVars => DirType'
<1> SUFFICES ASSUME DirType, [DirNext]_dirVars PROVE DirType'
    OBVIOUS
<1>1. CountInv'
    <2>1. [Next]_vars
        BY MetaOfDir DEF dirVars
    <2> QED BY <2>1, CountStep, MetaInvStep DEF CountInv, DirType
<1>2. ASSUME NEW learned, Watch(learned), request' = request PROVE DirType'
    <2>1. CASE listing = NoListing
        BY <1>1, <1>2, <2>1 DEF Watch, DirType
    <2>2. CASE listing \in Listings
        BY <1>1, <1>2, <2>2, WatchIs DEF DirType
    <2> QED BY <2>1, <2>2 DEF DirType
<1>3. ASSUME NEW d \in Listed, PulpfsOpenDir(d) PROVE DirType'
    <2>1. d \in Nat
        BY <1>3 DEF PulpfsOpenDir, ReadDirError, DirType, CountInv, MetaInv, TypeI
    <2>2. EntrySet(dentries, d) \in SUBSET Entry
        BY EntriesAre, EntrySetIs DEF DirType, Entry, EntriesListed
    <2>3. listing' \in Listings
        <3> HIDE DEF Entry
        <3> QED BY <1>3, <2>1, <2>2 DEF PulpfsOpenDir, Listings
    <2> QED BY <1>1, <1>3, <2>3 DEF PulpfsOpenDir, DirType
<1>4. CASE PulpfsReadDir
    BY <1>1, <1>4 DEF PulpfsReadDir, DirType, AtAttrs
<1>5. CASE FetchEntries
    <2>1. CASE ReplyError
        BY <1>1, <2>1 DEF ReplyError, DirType
    <2>2. CASE ~ReplyError
        <3>1. /\ request' = [at |-> "entries", entries |-> Entries(listing.dir)]
              /\ listing' = listing /\ request # Idle
            BY <1>5, <2>2, Distinct DEF FetchEntries
        <3>2. Entries(listing.dir) \in Seq(Entry)
            <4> DEFINE E == EntrySet(dentries, listing.dir)
            <4>1. Entries(listing.dir) \in Seq(E) /\ E \subseteq Entry
                BY EntriesAre, EntrySetIs, InOrderIs DEF DirType, Entry, EntriesListed
            <4> HIDE DEF E
            <4> QED BY <4>1
        <3>3. request' \in AtEntries
            BY <3>1, <3>2 DEF AtEntries
        <3> QED BY <1>1, <3>1, <3>3 DEF DirType
    <2> QED BY <2>1, <2>2
<1>6. CASE ReplyPage
    <2>1. listing \in Listings /\ request.entries \in Seq(Entry) /\ request' = Idle
        BY <1>6, Distinct DEF ReplyPage, DirType, AtEntries
    <2>2. listing' \in Listings
        <3> DEFINE size == 2 + Len(request.entries)
                   last == IF size < listing.off + PageSize THEN size ELSE listing.off + PageSize
                   page == SubSeq(request.entries, LargerOf(listing.off, 2) - 1, last - 2)
        <3>1. CASE listing' = [listing EXCEPT !.ended = TRUE]
            BY <2>1, <3>1 DEF Listings
        <3>2. CASE listing' = [listing EXCEPT !.off = NextOffset(last - 1), !.got = @ \o page]
            <4>1. listing.off \in Nat /\ listing.got \in Seq(Entry)
                BY <2>1 DEF Listings
            <4>2. last \in Nat /\ last <= size /\ Len(request.entries) \in Nat
                BY <2>1, <4>1, DirAssumption
            <4>3. NextOffset(last - 1) = last
                BY <4>2 DEF NextOffset
            <4>4. page \in Seq(Entry)
                <5>1. \A k \in (LargerOf(listing.off, 2) - 1) .. (last - 2) : request.entries[k] \in Entry
                    BY <2>1, <4>1, <4>2 DEF LargerOf
                <5> HIDE DEF last, Entry
                <5> QED BY <2>1, <4>1, <4>2, <5>1 DEF LargerOf
            <4>5. listing.got \o page \in Seq(Entry)
                BY <4>1, <4>4
            <4> HIDE DEF last, page, Entry
            <4> QED BY <2>1, <3>2, <4>2, <4>3, <4>5 DEF Listings
        <3> QED BY <1>6, <3>1, <3>2 DEF ReplyPage
    <2> QED BY <1>1, <2>1, <2>2 DEF DirType
<1>7. CASE CloseDir
    BY <1>1, <1>7 DEF CloseDir, DirType
<1>8. CASE UNCHANGED <<request, listing>>
    BY <1>1, <1>8 DEF DirType
<1> QED BY <1>2, <1>3, <1>4, <1>5, <1>6, <1>7, <1>8
        DEF DirNext, dirVars, OtherRequest, PulpfsLookup, PulpfsMkdirOrCreate

-----------------------------------------------------------------------------
(***************************************************************************)
(* The hints.  What makes DotDotRight inductive: the mount knows inodes    *)
(* that exist, the entries a request holds are in its directory as long as *)
(* they are known, and a hint that differs from the parent is about to be  *)
(* replaced by the request.                                                *)
(***************************************************************************)
FetchedIds == {request.entries[k][2] : k \in DOMAIN request.entries}

HintsInv ==
    /\ known \subseteq DOMAIN inodes
    /\ request.at = "entries" =>
           \A i \in FetchedIds : i # listing.dir /\ (i \in known => ParentOf(i) = listing.dir)
    /\ \A i \in known : HintOf(i) = ParentOf(i) \/ (request.at = "entries" /\ i \in FetchedIds)

\* The hints give the right answer.
LEMMA HintsAnswer == DirType /\ HintsInv => DotDotRight
<1> SUFFICES ASSUME DirType, HintsInv, request.at = "entries", listing.dir \in known,
                    NEW replied \in BOOLEAN
             PROVE  \/ DotDot(listing.dir, replied) = ParentOf(listing.dir)
                    \/ ~replied /\ DotDot(listing.dir, replied) = listing.dir
    BY DEF DotDotRight
<1>1. HintOf(listing.dir) = ParentOf(listing.dir)
    BY DEF HintsInv
<1>2. ParentOf(listing.dir) \in DOMAIN inodes
    BY ParentOfIs DEF HintsInv, DirType, CountInv, ParentsRight
<1> QED BY <1>1, <1>2 DEF DotDot, GetAttrError

\* A step that only watches.
LEMMA HintsWatched ==
    ASSUME DirType, HintsInv, Watch({}), UNCHANGED <<parents, request>>
    PROVE  HintsInv'
<1>1. \A i \in known' : i \in known /\ i \in DOMAIN inodes' /\ ParentOf(i)' = ParentOf(i)
    BY DEF Watch
<1>2. request.at = "entries" => listing'.dir = listing.dir
    BY Distinct DEF Watch, DirType, Listings
<1>3. FetchedIds' = FetchedIds /\ \A i : HintOf(i)' = HintOf(i)
    BY DEF FetchedIds, HintOf
<1> QED BY <1>1, <1>2, <1>3 DEF HintsInv

\* The mount learns of inode x, whose parent is p, while it is idle.
LEMMA HintLearned ==
    ASSUME HintsInv, request = Idle, request' = Idle, NEW x, NEW p,
           parents' = Emplace(parents, x, p), x \in DOMAIN inodes', ParentOf(x)' = p,
           \A i \in known' : i = x \/ (i \in known /\ i \in DOMAIN inodes' /\ ParentOf(i)' = ParentOf(i))
    PROVE  HintsInv'
<1>1. request.at # "entries" /\ request'.at # "entries"
    BY Distinct
<1>2. /\ DOMAIN parents' = DOMAIN parents \cup {x} /\ parents'[x] = p
      /\ \A i \in DOMAIN parents : i # x => parents'[i] = parents[i]
    BY DEF Emplace
<1>3. HintOf(x)' = p /\ \A i : i # x => HintOf(i)' = HintOf(i)
    BY <1>2 DEF HintOf
<1>4. \A i \in known' : i \in DOMAIN inodes' /\ HintOf(i)' = ParentOf(i)'
    BY <1>1, <1>3 DEF HintsInv
<1> QED BY <1>1, <1>4 DEF HintsInv

\* The hints are kept right.
LEMMA HintsStep == DirType /\ DirType' /\ HintsInv /\ [DirNext]_dirVars => HintsInv'
<1> SUFFICES ASSUME DirType, DirType', HintsInv, [DirNext]_dirVars PROVE HintsInv'
    OBVIOUS
<1>1. MetaInv
    BY DEF DirType, CountInv
<1>2. CASE OtherRequest
    BY <1>2, HintsWatched DEF OtherRequest
<1>3. ASSUME NEW p \in InodeIds, NEW n \in Names, PulpfsLookup(p, n) PROVE HintsInv'
    <2>0. PICK x : x = dentries[<<p, n>>]
        OBVIOUS
    <2>1. <<p, n>> \in DOMAIN dentries
        BY <1>3 DEF PulpfsLookup, EntryError
    <2>2. x \in DOMAIN inodes /\ ParentOf(x) = p
        BY <1>1, <2>0, <2>1, ParentOfIs DEF ParentsRight
    <2>3. inodes' = inodes /\ dentries' = dentries /\ \A i : ParentOf(i)' = ParentOf(i)
        BY <1>3 DEF PulpfsLookup, vars, ParentOf
    <2>4. /\ request = Idle /\ request' = Idle
          /\ parents' = Emplace(parents, x, p) /\ known' = known \cup {x}
        BY <1>3, <2>0 DEF PulpfsLookup
    <2>5. \A i \in known' : i = x \/ (i \in known /\ i \in DOMAIN inodes' /\ ParentOf(i)' = ParentOf(i))
        BY <2>3, <2>4 DEF HintsInv
    <2>6. x \in DOMAIN inodes' /\ ParentOf(x)' = p
        BY <2>2, <2>3
    <2> QED BY <2>4, <2>5, <2>6, HintLearned
<1>4. ASSUME NEW p \in InodeIds, NEW n \in Names, PulpfsMkdirOrCreate(p, n) PROVE HintsInv'
    <2>0. PICK x : x = next_inode_id
        OBVIOUS
    <2>1. dentries' = Emplace(dentries, <<p, n>>, x)
        BY <1>4, <2>0 DEF PulpfsMkdirOrCreate, Mkdir, CreateFile, CreateNode
    <2>2. <<p, n>> \in DOMAIN dentries' /\ dentries'[<<p, n>>] = x
        BY <2>1 DEF Emplace
    <2>3. x \in DOMAIN inodes' /\ ParentOf(x)' = p
        <3>1. MetaInv'
            BY DEF DirType, CountInv
        <3>2. MetaInv' => ParentsRight'
            BY ParentOfIs, PTL
        <3> QED BY <2>2, <3>1, <3>2 DEF ParentsRight
    <2>4. /\ request = Idle /\ request' = Idle
          /\ parents' = Emplace(parents, x, p) /\ Watch({x})
        BY <1>4, <2>0 DEF PulpfsMkdirOrCreate, HintsAfterCreate
    <2>5. \A i \in known' : i = x \/ (i \in known /\ i \in DOMAIN inodes' /\ ParentOf(i)' = ParentOf(i))
        BY <2>4 DEF Watch
    <2> QED BY <2>3, <2>4, <2>5, HintLearned
<1>5. CASE FetchEntries
    <2>1. /\ inodes' = inodes /\ dentries' = dentries /\ \A i : ParentOf(i)' = ParentOf(i)
          /\ parents' = parents /\ \A i : HintOf(i)' = HintOf(i)
        BY <1>5 DEF FetchEntries, ReplyError, vars, ParentOf, HintOf
    <2>2. request.at # "entries"
        BY <1>5 DEF FetchEntries
    <2>3. CASE ReplyError
        BY <2>1, <2>2, <2>3, Distinct DEF ReplyError, HintsInv
    <2>4. CASE ~ReplyError
        <3> DEFINE d == listing.dir
                   E == EntrySet(dentries, d)
        <3>1. /\ request' = [at |-> "entries", entries |-> Entries(d)] /\ listing' = listing
              /\ known' = known \cup {e[2] : e \in E}
            BY <1>5, <2>4 DEF FetchEntries
        <3>2. IsListing(E) /\ InOrder(Entries(d), E)
            BY EntriesAre, EntrySetIs DEF DirType, EntriesListed
        <3>3. FetchedIds' = {e[2] : e \in E}
            <4>1. FetchedIds' = {Entries(d)[k][2] : k \in DOMAIN Entries(d)}
                BY <3>1 DEF FetchedIds
            <4>2. /\ \A k \in DOMAIN Entries(d) : Entries(d)[k] \in E
                  /\ \A e \in E : \E k \in DOMAIN Entries(d) : Entries(d)[k] = e
                BY <3>2, InOrderIs
            <4> QED BY <4>1, <4>2
        <3>4. ASSUME NEW i \in {e[2] : e \in E} PROVE i \in DOMAIN inodes /\ i # d /\ ParentOf(i) = d
            <4>1. PICK k \in DOMAIN dentries : k[1] = d /\ i = dentries[k]
                BY DEF EntrySet
            <4> QED BY <1>1, <4>1, ParentOfIs DEF ParentsRight
        <3> HIDE DEF d, E
        <3>5. listing'.dir = d /\ request'.at = "entries"
            BY <3>1 DEF d
        <3> QED BY <2>1, <2>2, <3>1, <3>3, <3>4, <3>5 DEF HintsInv
    <2> QED BY <2>3, <2>4
<1>6. CASE ReplyPage
    <2>1. /\ inodes' = inodes /\ dentries' = dentries /\ \A i : ParentOf(i)' = ParentOf(i)
          /\ request.at = "entries" /\ request' = Idle /\ known' = known
          /\ parents' = RememberEntries(request.entries, listing.dir)
        BY <1>6 DEF ReplyPage, vars, ParentOf
    <2>2. /\ \A i \in FetchedIds : HintOf(i)' = listing.dir
          /\ \A i : i \notin FetchedIds => HintOf(i)' = HintOf(i)
        <3>1. /\ DOMAIN parents' = DOMAIN parents \cup FetchedIds
              /\ \A i \in DOMAIN parents' : parents'[i] = IF i \in FetchedIds THEN listing.dir ELSE parents[i]
            BY <2>1 DEF RememberEntries, FetchedIds
        <3> QED BY <3>1 DEF HintOf
    <2>3. request'.at # "entries"
        BY <2>1, Distinct
    <2> QED BY <2>1, <2>2, <2>3 DEF HintsInv
<1>7. ASSUME UNCHANGED <<vars, parents, known>>, request'.at # "entries", request.at # "entries"
      PROVE  HintsInv'
    BY <1>7 DEF vars, HintsInv, ParentOf, HintOf
<1>8. CASE PulpfsReadDir
    BY <1>7, <1>8, Distinct DEF PulpfsReadDir, AtAttrs
<1>9. CASE CloseDir \/ \E d \in Listed : PulpfsOpenDir(d)
    BY <1>7, <1>9, Distinct DEF CloseDir, PulpfsOpenDir
<1>10. CASE UNCHANGED dirVars
    <2>1. /\ inodes' = inodes /\ known' = known /\ request' = request /\ listing' = listing
          /\ FetchedIds' = FetchedIds
          /\ \A i : ParentOf(i)' = ParentOf(i) /\ HintOf(i)' = HintOf(i)
        BY <1>10 DEF dirVars, vars, ParentOf, HintOf, FetchedIds
    <2> QED BY <2>1 DEF HintsInv
<1> QED BY <1>2, <1>3, <1>4, <1>5, <1>6, <1>8, <1>9, <1>10 DEF DirNext

\* The hints of a new mount.
LEMMA DirInitInv == DirInit => DirType /\ HintsInv
<1> SUFFICES ASSUME DirInit PROVE DirType /\ HintsInv
    OBVIOUS
<1>1. CountInv
    BY CountInit, MetaInvInit DEF CountInv, DirInit
<1>2. DirType
    BY <1>1 DEF DirType, DirInit
<1>3. HintsInv
    <2>1. known = {Root} /\ request.at # "entries" /\ HintOf(Root) = Root
        BY Distinct DEF DirInit, HintOf
    <2> QED BY <1>1, <2>1, ParentOfIs DEF HintsInv, CountInv, ParentsRight
<1> QED BY <1>2, <1>3

\* A mount answers `..' with the parent of the directory, however requests of
\* other mounts fall between its three RPCs, unless the directory was moved
\* after the mount last fetched its entry, or the third RPC has no reply.
THEOREM DotDotIsParent == DirSpec => []DotDotRight
<1>1. DirType /\ HintsInv /\ [DirNext]_dirVars => (DirType /\ HintsInv)'
    BY DirTypeStep, HintsStep
<1> QED BY <1>1, DirInitInv, HintsAnswer, PTL DEF DirSpec

-----------------------------------------------------------------------------
(* Counting. *)

\* A set is counted in two parts.
LEMMA Parts ==
    ASSUME NEW S, IsFiniteSet(S), NEW T
    PROVE  /\ IsFiniteSet(S \cap T) /\ IsFiniteSet(S \ T)
           /\ Cardinality(S \cap T) \in Nat /\ Cardinality(S \ T) \in Nat
           /\ Cardinality(S) = Cardinality(S \cap T) + Cardinality(S \ T)
<1>1. IsFiniteSet(S \cap T) /\ IsFiniteSet(S \ T)
    BY FS_Intersection, FS_Difference
<1>2. Cardinality(S \ T) = Cardinality(S) - Cardinality(S \cap T)
    BY FS_Difference
<1>3. Cardinality(S \cap T) \in Nat /\ Cardinality(S \ T) \in Nat /\ Cardinality(S) \in Nat
    BY <1>1, FS_CardinalityType
<1> QED BY <1>1, <1>2, <1>3

\* A subset of two sets is no larger than they are together.
LEMMA Within ==
    ASSUME NEW S, NEW T, IsFiniteSet(S), IsFiniteSet(T), NEW U, U \subseteq S \cup T
    PROVE  /\ IsFiniteSet(U) /\ Cardinality(U) \in Nat
           /\ Cardinality(S) \in Nat /\ Cardinality(T) \in Nat
           /\ Cardinality(U) <= Cardinality(S) + Cardinality(T)
<1>1. IsFiniteSet(S \cup T) /\ Cardinality(S \cup T) = Cardinality(S) + Cardinality(T) - Cardinality(S \cap T)
    BY FS_Union
<1>2. IsFiniteSet(U) /\ Cardinality(U) <= Cardinality(S \cup T)
    BY <1>1, FS_Subset
<1>3. Cardinality(S) \in Nat /\ Cardinality(T) \in Nat /\ Cardinality(S \cap T) \in Nat /\ Cardinality(U) \in Nat
    BY <1>2, FS_Intersection, FS_CardinalityType
<1> QED BY <1>1, <1>2, <1>3

\* A subset is no larger.
LEMMA Smaller ==
    ASSUME NEW S, IsFiniteSet(S), NEW U, U \subseteq S
    PROVE  /\ IsFiniteSet(U) /\ Cardinality(U) \in Nat /\ Cardinality(S) \in Nat
           /\ Cardinality(U) <= Cardinality(S)
BY FS_Subset, FS_CardinalityType, U \in SUBSET S

\* The first n entries of a list.
First(s, n) == {s[k] : k \in {j \in DOMAIN s : j <= n}}

\* They are n, or all.
LEMMA FirstIs ==
    ASSUME NEW S, IsListing(S), NEW s, InOrder(s, S), NEW n \in Nat
    PROVE  /\ First(s, n) \subseteq S /\ IsFiniteSet(First(s, n))
           /\ Cardinality(First(s, n)) \in Nat /\ Cardinality(First(s, n)) <= n
           /\ \A x \in S \ First(s, n) : /\ Cardinality(First(s, n)) = n
                                        /\ \A y \in First(s, n) : y[1] < x[1]
           /\ \A x \in First(s, n), y \in S : y[1] < x[1] => y \in First(s, n)
<1> DEFINE N == Cardinality(S)
           m == IF n < N THEN n ELSE N
           H == First(s, n)
           f == [k \in 1 .. m |-> s[k]]
<1>1. /\ N \in Nat /\ DOMAIN s = 1 .. N
      /\ \A k \in DOMAIN s : s[k] \in S
      /\ \A i, j \in DOMAIN s : s[i][1] < s[j][1] => i < j
      /\ \A i, j \in DOMAIN s : s[i] = s[j] => i = j
      /\ \A x \in S : \E k \in DOMAIN s : s[k] = x
      /\ \A i, j \in DOMAIN s : i < j => s[i][1] < s[j][1]
    <2>1. \A i, j \in DOMAIN s : i < j => s[i][1] < s[j][1]
        BY DEF InOrder
    <2> QED BY <2>1, InOrderIs
<1>2. \A x : x \in H <=> \E k \in 1 .. N : k <= n /\ x = s[k]
    BY <1>1 DEF First
<1> HIDE DEF N, H
<1>3. /\ m \in Nat /\ 1 .. m \subseteq 1 .. N /\ m <= n
      /\ \A k \in 1 .. N : k <= n <=> k \in 1 .. m
    BY <1>1
<1>4. f \in Bijection(1 .. m, H)
    <2>1. f \in [1 .. m -> H]
        BY <1>2, <1>3
    <2>2. \A i, j \in 1 .. m : f[i] = f[j] => i = j
        BY <1>1, <1>3
    <2>3. \A x \in H : \E k \in 1 .. m : f[k] = x
        BY <1>2, <1>3
    <2> HIDE DEF f, m
    <2> QED BY <2>1, <2>2, <2>3 DEF Bijection, Injection, IsInjective, Surjection
<1> HIDE DEF f
<1>5. IsFiniteSet(H) /\ Cardinality(H) = m
    <2>1. IsFiniteSet(1 .. m) /\ Cardinality(1 .. m) = m
        BY <1>3, FS_Interval
    <2>2. ExistsBijection(1 .. m, H)
        BY <1>4 DEF ExistsBijection
    <2> QED BY <2>1, <2>2, FS_Bijection
<1>6. H \subseteq S
    BY <1>1, <1>2
<1>7. ASSUME NEW x \in S, x \notin H
      PROVE  Cardinality(H) = n /\ \A y \in H : y[1] < x[1]
    <2>1. PICK k \in 1 .. N : s[k] = x
        BY <1>1
    <2>2. n < k
        BY <1>1, <1>2, <1>7, <2>1
    <2>3. m = n
        BY <1>1, <2>2
    <2>4. \A y \in H : y[1] < x[1]
        BY <1>1, <1>2, <2>1, <2>2
    <2> QED BY <1>5, <2>3, <2>4
<1>8. ASSUME NEW x \in H, NEW y \in S, y[1] < x[1] PROVE y \in H
    <2>1. PICK k \in 1 .. N : k <= n /\ x = s[k]
        BY <1>2
    <2>2. PICK j \in 1 .. N : y = s[j]
        BY <1>1
    <2>3. j < k
        BY <1>1, <1>8, <2>1, <2>2
    <2> QED BY <1>1, <1>2, <2>1, <2>2, <2>3
<1>9. Cardinality(H) \in Nat /\ Cardinality(H) <= n
    BY <1>3, <1>5
<1> QED BY <1>5, <1>6, <1>7, <1>8, <1>9 DEF H

\* How far two lists can drift: what is among the first n of the one and not
\* of the other, though in both, is no more than what the one has lost.
LEMMA FirstsDrift ==
    ASSUME NEW S, IsListing(S), NEW s, InOrder(s, S),
           NEW T, IsListing(T), NEW t, InOrder(t, T), NEW n \in Nat
    PROVE  Cardinality((First(t, n) \ First(s, n)) \cap S) <= Cardinality(First(s, n) \ T)
<1> DEFINE A == First(s, n)
           B == First(t, n)
           X == (B \ A) \cap S
<1>1. /\ A \subseteq S /\ IsFiniteSet(A) /\ Cardinality(A) \in Nat
      /\ \A x \in S \ A : Cardinality(A) = n /\ \A y \in A : y[1] < x[1]
    BY FirstIs
<1>2. /\ B \subseteq T /\ IsFiniteSet(B) /\ Cardinality(B) \in Nat /\ Cardinality(B) <= n
      /\ \A x \in B, y \in T : y[1] < x[1] => y \in B
    BY FirstIs
<1> HIDE DEF A, B
<1> SUFFICES Cardinality(X) <= Cardinality(A \ T)
    BY DEF A, B
<1>0. Cardinality(A \ T) \in Nat
    BY <1>1, Parts
<1>3. CASE X = {}
    BY <1>0, <1>3, FS_EmptySet
<1>4. CASE X # {}
    <2>1. PICK x \in X : TRUE
        BY <1>4
    <2>2. Cardinality(A) = n /\ \A y \in A : y[1] < x[1]
        BY <1>1, <2>1
    <2>3. A \cap T \subseteq A \cap B
        BY <1>2, <2>1, <2>2
    <2>4. A \cap T = B \cap A
        BY <1>2, <2>3
    <2>5. /\ Cardinality(A) = Cardinality(A \cap T) + Cardinality(A \ T)
          /\ Cardinality(A \cap T) \in Nat /\ Cardinality(A \ T) \in Nat
        BY <1>1, Parts
    <2>6. /\ Cardinality(B) = Cardinality(B \cap A) + Cardinality(B \ A)
          /\ Cardinality(B \ A) \in Nat /\ IsFiniteSet(B \ A)
        BY <1>2, Parts
    <2>7. Cardinality(X) <= Cardinality(B \ A) /\ Cardinality(X) \in Nat
        BY <2>6, Smaller
    <2>8. Cardinality(A \cap T) = Cardinality(B \cap A)
        BY <2>4
    <2>9. Cardinality(A) = n /\ Cardinality(B) <= n
        BY <1>2, <2>2
    <2> HIDE DEF X
    <2> QED BY <2>5, <2>6, <2>7, <2>8, <2>9
<1> QED BY <1>3, <1>4

\* The members of a list.
Members(s) == {s[k] : k \in DOMAIN s}

\* The entries from the a-th to the b-th, as a page.
LEMMA PageIs ==
    ASSUME NEW S, IsListing(S), NEW s, InOrder(s, S), NEW a \in Nat, NEW b \in Int,
           NEW c \in Nat, c = (IF b < a THEN a ELSE b), c <= Cardinality(S)
    PROVE  LET page == SubSeq(s, a + 1, b)
               Q    == Members(page)
           IN  /\ page \in Seq(S) /\ Q \subseteq S
               /\ First(s, c) = First(s, a) \cup Q /\ First(s, a) \cap Q = {}
               /\ Cardinality(Q) = Len(page) /\ IsFiniteSet(Q)
<1> DEFINE N == Cardinality(S)
           page == SubSeq(s, a + 1, b)
           Q == Members(page)
<1>1. /\ N \in Nat /\ DOMAIN s = 1 .. N /\ s \in Seq(S)
      /\ \A k \in DOMAIN s : s[k] \in S
      /\ \A i, j \in DOMAIN s : s[i] = s[j] => i = j
    BY InOrderIs
<1> HIDE DEF N
<1>2. PICK m \in Nat : m = c - a /\ c <= N /\ c = m + a
    <2>1. c - a \in Nat
        OBVIOUS
    <2> QED BY <2>1 DEF N
<1>3. /\ Len(page) = m /\ DOMAIN page = 1 .. m
      /\ \A k \in 1 .. m : page[k] = s[k + a]
    <2>1. CASE b < a
        <3>1. page = << >>
            BY <1>1, <2>1
        <3>2. m = 0
            BY <1>2, <2>1
        <3> HIDE DEF page
        <3> QED BY <3>1, <3>2
    <2>2. CASE ~(b < a)
        BY <1>1, <1>2, <2>2
    <2> QED BY <2>1, <2>2
<1> HIDE DEF page
<1>0. Q = {page[k] : k \in DOMAIN page}
    BY DEF Members
<1> HIDE DEF Q
<1>4. \A k \in 1 .. m : k + a \in 1 .. N /\ page[k] \in S
    BY <1>1, <1>2, <1>3
<1>5. page \in Seq(S)
    <2>1. page = [k \in 1 .. m |-> s[k + a]]
        <3>1. page = [k \in DOMAIN page |-> page[k]]
            BY <1>1 DEF page
        <3> QED BY <1>3, <3>1
    <2>2. page \in [1 .. m -> S]
        BY <1>4, <2>1
    <2> QED BY <2>2
<1>6. page \in Bijection(1 .. m, Q)
    <2>1. page \in [1 .. m -> Q]
        <3>1. \A k \in 1 .. m : page[k] \in Q
            BY <1>0, <1>3
        <3>2. page = [k \in 1 .. m |-> page[k]]
            BY <1>3, <1>5
        <3> QED BY <3>1, <3>2
    <2>2. ASSUME NEW i \in 1 .. m, NEW j \in 1 .. m, page[i] = page[j]
          PROVE  i = j
        <3>1. s[i + a] = s[j + a] /\ i + a \in DOMAIN s /\ j + a \in DOMAIN s
            BY <1>1, <1>3, <1>4, <2>2
        <3>2. i + a = j + a
            BY <1>1, <3>1
        <3> QED BY <3>2
    <2>3. \A x \in Q : \E k \in 1 .. m : page[k] = x
        BY <1>0, <1>3
    <2> QED BY <2>1, <2>2, <2>3 DEF Bijection, Injection, IsInjective, Surjection
<1>7. Cardinality(Q) = Len(page) /\ IsFiniteSet(Q)
    <2>1. IsFiniteSet(1 .. m) /\ Cardinality(1 .. m) = m
        BY <1>2, FS_Interval
    <2>2. ExistsBijection(1 .. m, Q)
        BY <1>6 DEF ExistsBijection
    <2> QED BY <1>3, <2>1, <2>2, FS_Bijection
<1>8. /\ \A x : x \in First(s, c) <=> \E k \in 1 .. N : k <= c /\ x = s[k]
      /\ \A x : x \in First(s, a) <=> \E k \in 1 .. N : k <= a /\ x = s[k]
    BY <1>1 DEF First
<1>9. \A x : x \in Q <=> \E k \in 1 .. N : a < k /\ k <= c /\ x = s[k]
    <2>1. ASSUME NEW x \in Q PROVE \E k \in 1 .. N : a < k /\ k <= c /\ x = s[k]
        <3>1. PICK k \in 1 .. m : x = s[k + a]
            BY <1>0, <1>3
        <3>2. k + a \in 1 .. N /\ a < k + a /\ k + a <= c
            <4>1. k \in Nat /\ 1 <= k /\ k <= m
                OBVIOUS
            <4> QED BY <1>1, <1>2, <4>1
        <3> QED BY <3>1, <3>2
    <2>2. ASSUME NEW k \in 1 .. N, a < k, k <= c PROVE s[k] \in Q
        <3>1. k - a \in 1 .. m /\ s[(k - a) + a] = s[k]
            BY <1>2, <2>2
        <3> QED BY <1>0, <1>3, <3>1
    <2> QED BY <2>1, <2>2
<1>10. First(s, c) = First(s, a) \cup Q
    <2>1. ASSUME NEW x \in First(s, c) PROVE x \in First(s, a) \cup Q
        <3>1. PICK k \in 1 .. N : k <= c /\ x = s[k]
            BY <1>8
        <3>2. k <= a \/ a < k
            BY <1>1
        <3> QED BY <1>8, <1>9, <3>1, <3>2
    <2>2. ASSUME NEW x \in First(s, a) PROVE x \in First(s, c)
        <3>1. PICK k \in 1 .. N : k <= a /\ x = s[k]
            BY <1>8
        <3>2. k <= c
            BY <1>1, <1>2, <3>1
        <3> QED BY <1>8, <3>1, <3>2
    <2>3. ASSUME NEW x \in Q PROVE x \in First(s, c)
        BY <1>8, <1>9
    <2> QED BY <2>1, <2>2, <2>3
<1>11. ASSUME NEW x \in First(s, a), x \in Q PROVE FALSE
    <2>1. PICK k \in 1 .. N : k <= a /\ x = s[k]
        BY <1>8
    <2>2. PICK j \in 1 .. N : a < j /\ x = s[j]
        BY <1>9, <1>11
    <2>3. k = j
        BY <1>1, <2>1, <2>2
    <2> QED BY <2>1, <2>2, <2>3
<1>12. Q \subseteq S
    BY <1>1, <1>9
<1> QED BY <1>5, <1>7, <1>10, <1>11, <1>12 DEF Q, page

\* A list has finitely many members.
LEMMA MembersFinite ==
    ASSUME NEW E, NEW s \in Seq(E)
    PROVE  /\ IsFiniteSet(Members(s)) /\ Members(s) \subseteq E
<1> DEFINE R == Members(s)
<1>1. DOMAIN s = 1 .. Len(s) /\ Len(s) \in Nat /\ \A k \in DOMAIN s : s[k] \in E
    OBVIOUS
<1>2. IsFiniteSet(DOMAIN s)
    BY <1>1, FS_Interval
<1>3. s = [k \in DOMAIN s |-> s[k]]
    OBVIOUS
<1>4. s \in [DOMAIN s -> R]
    BY <1>3 DEF Members
<1>5. \A x \in R : \E k \in DOMAIN s : s[k] = x
    BY DEF Members
<1> HIDE DEF R
<1>6. s \in Surjection(DOMAIN s, R)
    BY <1>4, <1>5 DEF Surjection
<1>7. IsFiniteSet(R)
    BY <1>2, <1>6, FS_Surjection
<1> QED BY <1>1, <1>7 DEF R, Members

\* A page that is appended brings its members.
LEMMA JoinedMembers ==
    ASSUME NEW E, NEW s \in Seq(E), NEW t \in Seq(E)
    PROVE  Members(s \o t) = Members(s) \cup Members(t)
<1>1. /\ s \o t \in Seq(E) /\ Len(s \o t) = Len(s) + Len(t)
      /\ Len(s) \in Nat /\ Len(t) \in Nat
      /\ DOMAIN s = 1 .. Len(s) /\ DOMAIN t = 1 .. Len(t) /\ DOMAIN (s \o t) = 1 .. Len(s) + Len(t)
      /\ \A k \in 1 .. Len(s) : (s \o t)[k] = s[k]
      /\ \A k \in 1 .. Len(t) : (s \o t)[Len(s) + k] = t[k]
    OBVIOUS
<1> DEFINE u == s \o t
<1> HIDE DEF u
<1>2. ASSUME NEW k \in 1 .. Len(s) + Len(t) PROVE u[k] \in Members(s) \cup Members(t)
    <2>1. CASE k <= Len(s)
        BY <1>1, <2>1 DEF Members, u
    <2>2. CASE ~(k <= Len(s))
        <3>1. k - Len(s) \in 1 .. Len(t) /\ k = Len(s) + (k - Len(s))
            BY <1>1, <2>2
        <3> QED BY <1>1, <3>1 DEF Members, u
    <2> QED BY <2>1, <2>2
<1>3. ASSUME NEW k \in 1 .. Len(s) PROVE s[k] \in Members(u)
    <2>1. k \in DOMAIN u /\ u[k] = s[k]
        BY <1>1 DEF u
    <2> QED BY <2>1 DEF Members
<1>4. ASSUME NEW k \in 1 .. Len(t) PROVE t[k] \in Members(u)
    <2>1. Len(s) + k \in DOMAIN u /\ u[Len(s) + k] = t[k]
        BY <1>1 DEF u
    <2> QED BY <2>1 DEF Members
<1>5. Members(u) = Members(s) \cup Members(t)
    BY <1>1, <1>2, <1>3, <1>4 DEF Members, u
<1> QED BY <1>5 DEF u

-----------------------------------------------------------------------------
(***************************************************************************)
(* The drift of a listing.  The kernel has passed the entries H of a list  *)
(* of the directory's entries F, which now are C; it has got the entries G *)
(* with r repeats; st have been there all the time, rem were removed and   *)
(* add were added meanwhile.  What was passed and not got, or will not be  *)
(* passed because the list is stale, is paid for by removals; what was got *)
(* and is still to come again, by additions.                               *)
(***************************************************************************)
Drift(st, G, r, H, F, C, rem, add) ==
    /\ st \subseteq F \cap C
    /\ Cardinality((st \cap H) \ G) + Cardinality(F \ C) <= rem
    /\ r + Cardinality(G \cap (F \ H)) + Cardinality(C \ F) <= add

\* The directory changes from C to C2.
LEMMA DriftWatched ==
    ASSUME NEW st, NEW G, NEW r \in Int, NEW H, NEW F, NEW C, NEW rem \in Nat, NEW add \in Nat,
           Drift(st, G, r, H, F, C, rem, add), IsFiniteSet(F), IsFiniteSet(C),
           NEW C2, IsFiniteSet(C2)
    PROVE  Drift(st \cap C2, G, r, H, F, C2, rem + Cardinality(C \ C2), add + Cardinality(C2 \ C))
<1>1. IsFiniteSet(F \ C) /\ IsFiniteSet(C \ C2) /\ IsFiniteSet(C \ F) /\ IsFiniteSet(C2 \ C)
    BY Parts
<1>2. /\ Cardinality(F \ C2) \in Nat /\ Cardinality(F \ C) \in Nat /\ Cardinality(C \ C2) \in Nat
      /\ Cardinality(F \ C2) <= Cardinality(F \ C) + Cardinality(C \ C2)
    <2>1. F \ C2 \subseteq (F \ C) \cup (C \ C2)
        OBVIOUS
    <2> QED BY <1>1, <2>1, Within
<1>3. /\ Cardinality(C2 \ F) \in Nat /\ Cardinality(C \ F) \in Nat /\ Cardinality(C2 \ C) \in Nat
      /\ Cardinality(C2 \ F) <= Cardinality(C \ F) + Cardinality(C2 \ C)
    <2>1. C2 \ F \subseteq (C \ F) \cup (C2 \ C)
        OBVIOUS
    <2> QED BY <1>1, <2>1, Within
<1>4. /\ Cardinality((st \cap H) \ G) \in Nat /\ Cardinality(((st \cap C2) \cap H) \ G) \in Nat
      /\ Cardinality(((st \cap C2) \cap H) \ G) <= Cardinality((st \cap H) \ G)
    <2>1. IsFiniteSet((st \cap H) \ G)
        BY Smaller, (st \cap H) \ G \subseteq F DEF Drift
    <2>2. ((st \cap C2) \cap H) \ G \subseteq (st \cap H) \ G
        OBVIOUS
    <2> QED BY <2>1, <2>2, Smaller
<1>5. Cardinality(G \cap (F \ H)) \in Nat
    BY Smaller, G \cap (F \ H) \subseteq F
<1>6. st \cap C2 \subseteq F \cap C2
    BY DEF Drift
<1>7. Cardinality(((st \cap C2) \cap H) \ G) + Cardinality(F \ C2) <= rem + Cardinality(C \ C2)
    BY <1>2, <1>4 DEF Drift
<1>8. r + Cardinality(G \cap (F \ H)) + Cardinality(C2 \ F) <= add + Cardinality(C2 \ C)
    BY <1>3, <1>5 DEF Drift
<1> QED BY <1>6, <1>7, <1>8 DEF Drift

\* The list s of F is given up for a list t of C.
LEMMA DriftRefetched ==
    ASSUME NEW F, IsListing(F), NEW s, InOrder(s, F), NEW C, IsListing(C), NEW t, InOrder(t, C),
           NEW n \in Nat, NEW st, NEW G, NEW r \in Int, NEW rem \in Nat, NEW add \in Nat,
           Drift(st, G, r, First(s, n), F, C, rem, add)
    PROVE  Drift(st, G, r, First(t, n), C, C, rem, add)
<1> DEFINE A == First(s, n)
           B == First(t, n)
<1>1. IsFiniteSet(F) /\ IsFiniteSet(C)
    BY DEF IsListing
<1>2. A \subseteq F /\ IsFiniteSet(A) /\ B \subseteq C /\ IsFiniteSet(B)
    BY FirstIs
<1>3. /\ Cardinality((B \ A) \cap F) <= Cardinality(A \ C)
      /\ Cardinality((A \ B) \cap C) <= Cardinality(B \ F)
    BY FirstsDrift
<1>4. Drift(st, G, r, A, F, C, rem, add)
    OBVIOUS
<1> HIDE DEF A, B
<1>5. Cardinality(C \ C) = 0
    BY FS_EmptySet, C \ C = {}
<1>6. Cardinality((st \cap B) \ G) <= rem
    <2>1. (st \cap B) \ G \subseteq ((st \cap A) \ G) \cup ((B \ A) \cap F)
        BY <1>4 DEF Drift
    <2>2. IsFiniteSet((st \cap A) \ G) /\ IsFiniteSet((B \ A) \cap F)
        BY <1>1, <1>2, Smaller, (st \cap A) \ G \subseteq A, (B \ A) \cap F \subseteq F
    <2>3. /\ Cardinality((st \cap B) \ G) \in Nat /\ Cardinality((st \cap A) \ G) \in Nat
          /\ Cardinality((B \ A) \cap F) \in Nat
          /\ Cardinality((st \cap B) \ G) <= Cardinality((st \cap A) \ G) + Cardinality((B \ A) \cap F)
        BY <2>1, <2>2, Within
    <2>4. /\ Cardinality(A \ C) \in Nat /\ Cardinality(F \ C) \in Nat
          /\ Cardinality(A \ C) <= Cardinality(F \ C)
        <3>1. IsFiniteSet(F \ C) /\ A \ C \subseteq F \ C
            BY <1>1, <1>2, Parts
        <3> QED BY <3>1, Smaller
    <2> QED BY <1>3, <1>4, <2>3, <2>4 DEF Drift
<1>7. r + Cardinality(G \cap (C \ B)) <= add
    <2> DEFINE X == G \cap (F \ A)
               Y == (A \ B) \cap C
               Z == (C \ F) \ B
    <2>1. G \cap (C \ B) \subseteq X \cup (Y \cup Z)
        OBVIOUS
    <2>2. IsFiniteSet(X) /\ IsFiniteSet(Y) /\ IsFiniteSet(Z)
        BY <1>1, <1>2, Smaller, X \subseteq F, Y \subseteq C, Z \subseteq C
    <2>3. /\ IsFiniteSet(Y \cup Z) /\ Cardinality(Y \cup Z) \in Nat
          /\ Cardinality(Y) \in Nat /\ Cardinality(Z) \in Nat
          /\ Cardinality(Y \cup Z) <= Cardinality(Y) + Cardinality(Z)
        BY <2>2, Within, Y \cup Z \subseteq Y \cup Z
    <2>4. /\ Cardinality(G \cap (C \ B)) \in Nat /\ Cardinality(X) \in Nat
          /\ Cardinality(G \cap (C \ B)) <= Cardinality(X) + Cardinality(Y \cup Z)
        BY <2>1, <2>2, <2>3, Within
    <2>5. /\ Cardinality(C \ F) = Cardinality(B \ F) + Cardinality(Z)
          /\ Cardinality(B \ F) \in Nat /\ Cardinality(C \ F) \in Nat
        <3>1. IsFiniteSet(C \ F) /\ (C \ F) \cap B = B \ F
            BY <1>1, <1>2, Parts
        <3> QED BY <3>1, Parts
    <2>6. r + Cardinality(X) + Cardinality(C \ F) <= add
        BY <1>4 DEF Drift
    <2>7. Cardinality(Y) <= Cardinality(B \ F)
        BY <1>3
    <2> HIDE DEF X, Y, Z
    <2> QED BY <2>3, <2>4, <2>5, <2>6, <2>7
<1>8. st \subseteq C \cap C
    BY <1>4 DEF Drift
<1>9. Cardinality((st \cap B) \ G) + Cardinality(C \ C) <= rem
    <2>1. Cardinality((st \cap B) \ G) \in Nat
        BY <1>2, Smaller, (st \cap B) \ G \subseteq B
    <2> QED BY <1>5, <1>6, <2>1
<1>10. r + Cardinality(G \cap (C \ B)) + Cardinality(C \ C) <= add
    <2>1. Cardinality(G \cap (C \ B)) \in Nat
        BY <1>1, Smaller, G \cap (C \ B) \subseteq C
    <2> QED BY <1>5, <1>7, <2>1
<1>11. Drift(st, G, r, B, C, C, rem, add)
    BY <1>8, <1>9, <1>10 DEF Drift
<1> QED BY <1>11 DEF B

\* The kernel gets a page Q of the list, and passes it.
LEMMA DriftPaged ==
    ASSUME NEW F, IsFiniteSet(F), NEW C, IsFiniteSet(C), NEW H, NEW Q, Q \subseteq F, Q \cap H = {},
           NEW st, NEW G, IsFiniteSet(G), NEW l \in Nat, NEW rem \in Nat, NEW add \in Nat,
           Drift(st, G, l - Cardinality(G), H, F, C, rem, add)
    PROVE  Drift(st, G \cup Q, l + Cardinality(Q) - Cardinality(G \cup Q), H \cup Q, F, C, rem, add)
<1>1. IsFiniteSet(Q) /\ Cardinality(Q) \in Nat /\ Cardinality(G) \in Nat
    BY Smaller, FS_CardinalityType
<1>2. Cardinality(G \cup Q) = Cardinality(G) + Cardinality(Q) - Cardinality(G \cap Q)
    BY <1>1, FS_Union
<1>3. /\ Cardinality(G \cap (F \ H)) = Cardinality(G \cap Q) + Cardinality(G \cap (F \ (H \cup Q)))
      /\ Cardinality(G \cap Q) \in Nat /\ Cardinality(G \cap (F \ (H \cup Q))) \in Nat
    <2> DEFINE X == G \cap (F \ H)
    <2>1. IsFiniteSet(X)
        BY Smaller, X \subseteq F
    <2>2. X \cap Q = G \cap Q /\ X \ Q = G \cap (F \ (H \cup Q))
        OBVIOUS
    <2> HIDE DEF X
    <2>3. /\ Cardinality(X) = Cardinality(X \cap Q) + Cardinality(X \ Q)
          /\ Cardinality(X \cap Q) \in Nat /\ Cardinality(X \ Q) \in Nat
        BY <2>1, Parts
    <2>4. /\ Cardinality(X) = Cardinality(G \cap Q) + Cardinality(G \cap (F \ (H \cup Q)))
          /\ Cardinality(G \cap Q) \in Nat /\ Cardinality(G \cap (F \ (H \cup Q))) \in Nat
        BY ONLY <2>2, <2>3
    <2> QED BY <2>4 DEF X
<1>4. (G \cup Q) \cap (F \ (H \cup Q)) = G \cap (F \ (H \cup Q))
    OBVIOUS
<1>5. Cardinality(C \ F) \in Nat /\ Cardinality(F \ C) \in Nat
    BY Parts
<1>6. l + Cardinality(Q) - Cardinality(G \cup Q) + Cardinality((G \cup Q) \cap (F \ (H \cup Q)))
        + Cardinality(C \ F) <= add
    <2>1. l - Cardinality(G) + Cardinality(G \cap (F \ H)) + Cardinality(C \ F) <= add
        BY DEF Drift
    <2>2. Cardinality((G \cup Q) \cap (F \ (H \cup Q))) = Cardinality(G \cap (F \ (H \cup Q)))
        BY <1>4
    <2> QED BY <1>1, <1>2, <1>3, <1>5, <2>1, <2>2
<1>7. /\ Cardinality((st \cap H) \ G) \in Nat
      /\ Cardinality((st \cap (H \cup Q)) \ (G \cup Q)) \in Nat
      /\ Cardinality((st \cap (H \cup Q)) \ (G \cup Q)) <= Cardinality((st \cap H) \ G)
    <2>1. IsFiniteSet((st \cap H) \ G)
        BY Smaller, (st \cap H) \ G \subseteq F DEF Drift
    <2>2. (st \cap (H \cup Q)) \ (G \cup Q) \subseteq (st \cap H) \ G
        OBVIOUS
    <2> QED BY <2>1, <2>2, Smaller
<1>8. Cardinality((st \cap (H \cup Q)) \ (G \cup Q)) + Cardinality(F \ C) <= rem
    BY <1>5, <1>7 DEF Drift
<1> QED BY <1>6, <1>8 DEF Drift

-----------------------------------------------------------------------------
(* The drift of the kernel's listing. *)

\* The list that the next page is cut from.
List == IF request.at = "entries" THEN request.entries ELSE Entries(listing.dir)

Passed == LargerOf(listing.off, 2) - 2

Drifted(s, F, C) ==
    Drift(listing.steady, Got, Len(listing.got) - Cardinality(Got), First(s, Passed), F, C,
          listing.removed, listing.added)

Follows(s) ==
    /\ IsListing(Members(s)) /\ InOrder(s, Members(s))
    /\ Drifted(s, Members(s), EntrySet(dentries, listing.dir))

DriftInv ==
    listing \in Listings =>
        /\ Follows(List)
        /\ listing.ended => Cardinality(listing.steady \ Got) <= listing.removed

\* What a list in order lists.
LEMMA ListedMembers ==
    ASSUME NEW S, IsListing(S), NEW s, InOrder(s, S)
    PROVE  Members(s) = S
BY InOrderIs DEF Members

\* The numbers and sets that the drift is about.
LEMMA ListingIs ==
    listing \in Listings =>
        /\ Got = Members(listing.got) /\ IsFiniteSet(Got)
        /\ Len(listing.got) \in Nat /\ Cardinality(Got) \in Nat
        /\ Len(listing.got) - Cardinality(Got) \in Int
        /\ listing.removed \in Nat /\ listing.added \in Nat /\ listing.off \in Nat /\ Passed \in Nat
<1> SUFFICES ASSUME listing \in Listings
             PROVE  /\ Got = Members(listing.got) /\ IsFiniteSet(Got)
                    /\ Len(listing.got) \in Nat /\ Cardinality(Got) \in Nat
                    /\ Len(listing.got) - Cardinality(Got) \in Int
                    /\ listing.removed \in Nat /\ listing.added \in Nat
                    /\ listing.off \in Nat /\ Passed \in Nat
    OBVIOUS
<1>1. /\ listing.got \in Seq(Entry)
      /\ listing.removed \in Nat /\ listing.added \in Nat /\ listing.off \in Nat
    BY DEF Listings
<1>2. Got = Members(listing.got)
    BY DEF Got, Members
<1>3. IsFiniteSet(Got) /\ Cardinality(Got) \in Nat
    BY <1>1, <1>2, MembersFinite, FS_CardinalityType
<1>4. Len(listing.got) \in Nat
    BY <1>1
<1>5. Passed \in Nat
    BY <1>1 DEF Passed, LargerOf
<1> QED BY <1>1, <1>2, <1>3, <1>4, <1>5

\* The drift gives the bounds.
LEMMA DriftMeans == DirType /\ DriftInv => ListingDriftBounded
<1> SUFFICES ASSUME DirType, DriftInv, listing # NoListing
             PROVE  /\ Len(listing.got) - Cardinality(Got) <= listing.added
                    /\ listing.ended => Cardinality(listing.steady \ Got) <= listing.removed
    BY DEF ListingDriftBounded
<1>1. listing \in Listings
    BY DEF DirType
<1> DEFINE F == Members(List)
           C == EntrySet(dentries, listing.dir)
           H == First(List, Passed)
<1>2. IsFiniteSet(F) /\ IsFiniteSet(C)
    BY <1>1, EntriesAre, EntrySetIs DEF DriftInv, Follows, IsListing, DirType, EntriesListed
<1>3. Len(listing.got) - Cardinality(Got) + Cardinality(Got \cap (F \ H)) + Cardinality(C \ F) <= listing.added
    BY <1>1 DEF DriftInv, Follows, Drifted, Drift
<1>4. Cardinality(Got \cap (F \ H)) \in Nat /\ Cardinality(C \ F) \in Nat
    BY <1>2, Smaller, Got \cap (F \ H) \subseteq F, C \ F \subseteq C
<1> HIDE DEF F, C, H
<1>5. Len(listing.got) - Cardinality(Got) <= listing.added
    BY <1>1, <1>3, <1>4, ListingIs
<1> QED BY <1>1, <1>5 DEF DriftInv

\* The list may be fetched anew.
Refetchable ==
    \A s : Follows(s) => Follows(Entries(listing.dir))

\* A stale list may be given up for the present one without loss of the balance.
LEMMA DriftFresh == CountInv /\ listing \in Listings => Refetchable
<1> SUFFICES ASSUME CountInv, listing \in Listings, NEW s, Follows(s)
             PROVE  Follows(Entries(listing.dir))
    BY DEF Refetchable
<1> DEFINE t == Entries(listing.dir)
           C == EntrySet(dentries, listing.dir)
<1>1. IsListing(C) /\ InOrder(t, C) /\ Members(t) = C
    BY EntriesAre, EntrySetIs, ListedMembers DEF EntriesListed
<1> HIDE DEF t
<1>2. Drifted(t, C, C)
    BY <1>1, ListingIs, DriftRefetched DEF Follows, Drifted
<1> QED BY <1>1, <1>2 DEF t, Follows

\* A step in which directories change.
LEMMA DriftInvWatched ==
    ASSUME DirType, DirType', DriftInv, NEW learned, Watch(learned), request' = request
    PROVE  DriftInv'
<1> SUFFICES ASSUME listing' \in Listings
             PROVE  /\ Follows(List)'
                    /\ listing'.ended => Cardinality(listing'.steady \ Got') <= listing'.removed
    BY DEF DriftInv
<1>1. listing \in Listings
    BY Distinct DEF Watch, DirType
<1> DEFINE d == listing.dir
           C == EntrySet(dentries, d)
           D == EntrySet(dentries', d)
<1>2. /\ listing'.dir = d /\ listing'.off = listing.off
      /\ listing'.got = listing.got /\ listing'.ended = listing.ended
      /\ IsFiniteSet(C) /\ IsFiniteSet(D)
      /\ listing'.steady = listing.steady \cap D
      /\ listing'.removed = listing.removed + Cardinality(C \ D)
      /\ listing'.added = listing.added + Cardinality(D \ C)
    BY <1>1, WatchIs DEF DirType
<1>3. Got' = Got /\ Passed' = Passed
    BY <1>2 DEF Got, Passed
<1>4. EntrySet(dentries, listing.dir)' = D
    BY <1>2 DEF EntrySet
<1> DEFINE F == Members(List)
<1>5. IsListing(F) /\ InOrder(List, F) /\ Drifted(List, F, C)
    BY <1>1 DEF DriftInv, Follows
<1>6. IsFiniteSet(F)
    BY <1>5 DEF IsListing
<1>7. PICK s : s = List
    OBVIOUS
<1>8. Drift(listing.steady \cap D, Got, Len(listing.got) - Cardinality(Got), First(s, Passed), Members(s), D,
            listing.removed + Cardinality(C \ D), listing.added + Cardinality(D \ C))
    BY <1>1, <1>2, <1>5, <1>6, <1>7, ListingIs, DriftWatched DEF Drifted
<1>9. Follows(s)'
    BY <1>2, <1>3, <1>4, <1>5, <1>7, <1>8 DEF Drifted, Follows
<1>11. Follows(List)'
    <2>1. CASE request.at = "entries"
        <3>1. List' = s
            BY <1>7, <2>1 DEF List
        <3> QED BY <1>9, <3>1 DEF Follows, Drifted, Members
    <2>2. CASE request.at # "entries"
        <3>1. List' = Entries(listing.dir)'
            BY <2>2 DEF List
        <3>2. CountInv' /\ (listing \in Listings)' => Refetchable'
            BY DriftFresh, PTL
        <3>3. Follows(Entries(listing.dir))'
            BY <1>9, <3>2 DEF DirType, Refetchable
        <3> QED BY <3>1, <3>3 DEF Follows, Drifted, Members
    <2> QED BY <2>1, <2>2
<1>12. listing'.ended => Cardinality(listing'.steady \ Got') <= listing'.removed
    <2> DEFINE U == listing.steady \ Got
               V == (listing.steady \cap D) \ Got
    <2>1. listing.steady \subseteq F
        BY <1>5 DEF Drifted, Drift
    <2>2. IsFiniteSet(U) /\ V \subseteq U
        BY <1>6, <2>1, Smaller, U \subseteq F
    <2>3. Cardinality(V) <= Cardinality(U) /\ Cardinality(V) \in Nat /\ Cardinality(U) \in Nat
        BY <2>2, Smaller
    <2>4. Cardinality(C \ D) \in Nat
        BY <1>2, Parts
    <2>5. listing.ended => Cardinality(U) <= listing.removed
        BY <1>1 DEF DriftInv
    <2>6. listing'.steady \ Got' = V
        BY <1>2, <1>3
    <2>7. listing.removed \in Nat
        BY <1>1, ListingIs
    <2> HIDE DEF U, V, C, D
    <2>8. listing'.removed = listing.removed + Cardinality(C \ D)
        BY <1>2
    <2>9. listing'.ended => listing.ended
        BY <1>1, <1>2
    <2>10. Cardinality(U) <= listing.removed => Cardinality(V) <= listing'.removed
        BY <2>3, <2>4, <2>7, <2>8
    <2> QED BY <2>5, <2>6, <2>9, <2>10
<1> QED BY <1>11, <1>12

\* A step that changes neither directories nor the kernel's listing, nor the
\* list.
LEMMA DriftSame ==
    ASSUME DriftInv, UNCHANGED <<vars, listing>>, List' = List
    PROVE  DriftInv'
<1>1. UNCHANGED <<dentries, listing>>
    BY DEF vars
<1>2. Got' = Got /\ Passed' = Passed
    BY <1>1 DEF Got, Passed
<1> QED BY <1>1, <1>2 DEF DriftInv, Follows, Drifted, EntrySet, Members

\* A new listing has not drifted.
LEMMA DriftOpened ==
    ASSUME DirType, DirType', NEW d \in Listed, PulpfsOpenDir(d)
    PROVE  DriftInv'
<1>0. PICK E : E = EntrySet(dentries, d)
    OBVIOUS
<1>1. /\ listing' = [dir |-> d, off |-> 0, got |-> <<>>, ended |-> FALSE,
                     steady |-> E, removed |-> 0, added |-> 0]
      /\ dentries' = dentries /\ request' = Idle
    BY <1>0 DEF PulpfsOpenDir, vars
<1>2. /\ listing'.dir = d /\ listing'.off = 0 /\ listing'.got = <<>> /\ listing'.ended = FALSE
      /\ listing'.steady = E /\ listing'.removed = 0 /\ listing'.added = 0
    BY <1>1
<1>3. EntrySet(dentries, listing.dir)' = E
    BY <1>0, <1>1, <1>2 DEF EntrySet
<1>4. List' = Entries(listing.dir)'
    BY <1>1, Distinct DEF List
<1>5. PICK t : t = List'
    OBVIOUS
<1>6. IsListing(E) /\ InOrder(t, E) /\ Members(t) = E
    <2>1. CountInv' => EntriesListed'
        BY EntriesAre, PTL
    <2>2. InOrder(Entries(listing.dir)', EntrySet(dentries, listing.dir)')
        BY <2>1 DEF DirType, EntriesListed
    <2>3. InOrder(t, E)
        BY <1>3, <1>4, <1>5, <2>2
    <2>4. IsListing(E)
        BY <1>0, EntriesAre, EntrySetIs DEF DirType, EntriesListed
    <2> QED BY <2>3, <2>4, ListedMembers
<1>7. Got' = {} /\ Passed' = 0
    BY <1>2 DEF Got, Passed, LargerOf
<1>8. First(t, 0) = {}
    <2>1. DOMAIN t = 1 .. Cardinality(E)
        BY <1>6, InOrderIs
    <2> QED BY <2>1 DEF First
<1>9. Drift(E, {}, 0, {}, E, E, 0, 0)
    <2>1. (E \cap {}) \ {} = {} /\ E \ E = {} /\ {} \cap (E \ {}) = {}
        OBVIOUS
    <2> QED BY <2>1, FS_EmptySet DEF Drift
<1>10. Drifted(t, E, E)'
    <2>1. Len(<<>>) - Cardinality({}) = 0
        BY FS_EmptySet
    <2>2. (Len(listing.got) - Cardinality(Got))' = 0
        BY <1>2, <1>7, <2>1
    <2>3. First(t, Passed') = {}
        BY <1>7, <1>8
    <2> QED BY <1>2, <1>7, <1>9, <2>2, <2>3 DEF Drifted
<1>11. Follows(t)'
    BY <1>3, <1>6, <1>10 DEF Follows, Drifted
<1> QED BY <1>2, <1>5, <1>11 DEF DriftInv, Follows, Drifted, Members

\* The reply: the page is got and passed, or nothing is left, and the list is
\* given up.
LEMMA DriftReplied ==
    ASSUME DirType, DirType', DriftInv, ReplyPage
    PROVE  DriftInv'
<1>0. PICK s : s = request.entries
    OBVIOUS
<1> DEFINE size == 2 + Len(s)
           last == IF size < listing.off + PageSize THEN size ELSE listing.off + PageSize
           page == SubSeq(s, LargerOf(listing.off, 2) - 1, last - 2)
           F == Members(s)
           C == EntrySet(dentries, listing.dir)
           L == listing
<1>1. /\ L \in Listings /\ request.at = "entries" /\ request' = Idle /\ dentries' = dentries
      /\ listing' = IF L.off >= size THEN [L EXCEPT !.ended = TRUE]
                    ELSE [L EXCEPT !.off = NextOffset(last - 1), !.got = @ \o page]
    BY <1>0, Distinct DEF ReplyPage, DirType, vars
<1>2. Follows(s) /\ IsListing(F) /\ InOrder(s, F)
    BY <1>0, <1>1 DEF DriftInv, Follows, List
<1>3. /\ IsFiniteSet(F) /\ IsFiniteSet(C)
      /\ Len(s) \in Nat /\ Len(s) = Cardinality(F)
    BY <1>2, InOrderIs, EntriesAre, EntrySetIs DEF IsListing, DirType, EntriesListed
<1>4. /\ L.off \in Nat /\ Passed \in Nat /\ L.removed \in Nat /\ L.added \in Nat
      /\ IsFiniteSet(Got) /\ Len(L.got) \in Nat /\ L.got \in Seq(Entry) /\ L.ended \in BOOLEAN
      /\ Got = Members(L.got) /\ Len(L.got) - Cardinality(Got) \in Int
    <2>1. L.got \in Seq(Entry) /\ L.ended \in BOOLEAN
        BY <1>1 DEF Listings
    <2> QED BY <1>1, <2>1, ListingIs
<1>5. ASSUME Follows(s)', listing'.dir = L.dir,
             listing'.ended => Cardinality(listing'.steady \ Got') <= listing'.removed
      PROVE  DriftInv'
    <2>1. List' = Entries(listing.dir)'
        BY <1>1, Distinct DEF List
    <2>2. CountInv' /\ (listing \in Listings)' => Refetchable'
        BY DriftFresh, PTL
    <2>3. listing' \in Listings => Follows(Entries(listing.dir))'
        BY <1>5, <2>2 DEF DirType, Refetchable
    <2>4. listing' \in Listings => Follows(List)'
        BY <2>1, <2>3 DEF Follows, Drifted, Members
    <2> QED BY <1>5, <2>4 DEF DriftInv
<1>6. CASE L.off >= size
    <2>1. listing' = [L EXCEPT !.ended = TRUE]
        BY <1>1, <1>6
    <2>2. /\ listing'.dir = L.dir /\ listing'.off = L.off /\ listing'.got = L.got
          /\ listing'.steady = L.steady /\ listing'.removed = L.removed /\ listing'.added = L.added
        BY <1>1, <2>1 DEF Listings
    <2>3. Got' = Got /\ Passed' = Passed /\ EntrySet(dentries, listing.dir)' = C
        BY <1>1, <2>2 DEF Got, Passed, EntrySet
    <2>4. Follows(s)'
        BY <1>2, <2>2, <2>3 DEF Follows, Drifted
    <2>5. F \subseteq First(s, Passed)
        <3>1. Passed >= Len(s)
            BY <1>3, <1>4, <1>6 DEF Passed, LargerOf
        <3>2. DOMAIN s = 1 .. Len(s) /\ \A x \in F : \E k \in DOMAIN s : s[k] = x
            BY <1>2, <1>3, InOrderIs
        <3> QED BY <1>3, <1>4, <3>1, <3>2 DEF First
    <2>6. Cardinality(L.steady \ Got) <= L.removed
        <3>1. Drift(L.steady, Got, Len(L.got) - Cardinality(Got), First(s, Passed), F, C, L.removed, L.added)
            BY <1>2 DEF Follows, Drifted
        <3>2. L.steady \cap First(s, Passed) = L.steady
            BY <2>5, <3>1 DEF Drift
        <3>3. Cardinality(L.steady \ Got) + Cardinality(F \ C) <= L.removed
            BY <3>1, <3>2 DEF Drift
        <3>4. Cardinality(L.steady \ Got) \in Nat /\ Cardinality(F \ C) \in Nat
            BY <1>3, <3>1, Smaller, L.steady \ Got \subseteq F, F \ C \subseteq F DEF Drift
        <3> QED BY <1>4, <3>3, <3>4
    <2> QED BY <1>5, <2>2, <2>3, <2>4, <2>6
<1>7. CASE ~(L.off >= size)
    <2> DEFINE n == LargerOf(last, 2) - 2
               Q == Members(page)
    <2>1. /\ last \in Nat /\ last > L.off /\ last <= size /\ NextOffset(last - 1) = last
          /\ n \in Nat /\ n <= Len(s) /\ n = (IF last - 2 < Passed THEN Passed ELSE last - 2)
        <3>1. /\ last \in Nat /\ last > L.off /\ last <= size
            BY <1>3, <1>4, <1>7, DirAssumption
        <3>2. NextOffset(last - 1) = last
            BY <3>1 DEF NextOffset
        <3> HIDE DEF last
        <3> QED BY <1>3, <1>4, <3>1, <3>2 DEF LargerOf, Passed
    <2>2. page = SubSeq(s, Passed + 1, last - 2)
        <3>1. LargerOf(L.off, 2) - 1 = Passed + 1
            BY <1>4 DEF LargerOf, Passed
        <3> QED BY <3>1
    <2> HIDE DEF last, page, n, size
    <2>3. /\ page \in Seq(F) /\ Q \subseteq F
          /\ First(s, n) = First(s, Passed) \cup Q /\ First(s, Passed) \cap Q = {}
          /\ Cardinality(Q) = Len(page) /\ IsFiniteSet(Q)
        <3>1. PICK b \in Int : b = last - 2
            BY <2>1
        <3>2. page = SubSeq(s, Passed + 1, b) /\ n = (IF b < Passed THEN Passed ELSE b) /\ n <= Cardinality(F)
            BY <1>3, <2>1, <2>2, <3>1
        <3>3. LET pg == SubSeq(s, Passed + 1, b)
                  R  == Members(pg)
              IN  /\ pg \in Seq(F) /\ R \subseteq F
                  /\ First(s, n) = First(s, Passed) \cup R /\ First(s, Passed) \cap R = {}
                  /\ Cardinality(R) = Len(pg) /\ IsFiniteSet(R)
            BY <1>2, <1>4, <2>1, <3>2, PageIs
        <3> QED BY <3>2, <3>3
    <2>4. /\ listing'.dir = L.dir /\ listing'.off = last /\ listing'.got = L.got \o page
          /\ listing'.steady = L.steady /\ listing'.removed = L.removed /\ listing'.added = L.added
          /\ listing'.ended = L.ended
        BY <1>1, <1>7, <2>1 DEF Listings
    <2>5. F \subseteq Entry
        <3>1. s \in Seq(Entry)
            BY <1>0, <1>1, Distinct DEF DirType, AtEntries
        <3> QED BY <3>1, MembersFinite
    <2>6. Got' = Got \cup Q /\ Len(L.got \o page) = Len(L.got) + Cardinality(Q)
        <3>1. page \in Seq(Entry)
            BY <2>3, <2>5
        <3>2. Members(L.got \o page) = Members(L.got) \cup Members(page)
            BY <1>4, <3>1, JoinedMembers
        <3>3. Got' = Members(L.got \o page)
            BY <2>4 DEF Got, Members
        <3> QED BY <1>4, <2>3, <2>4, <3>1, <3>2, <3>3
    <2>7. Passed' = n /\ EntrySet(dentries, listing.dir)' = C
        BY <1>1, <2>4 DEF Passed, EntrySet, n
    <2>8. Drift(L.steady, Got \cup Q, Len(L.got) + Cardinality(Q) - Cardinality(Got \cup Q), First(s, n), F, C,
                L.removed, L.added)
        <3>1. Drift(L.steady, Got, Len(L.got) - Cardinality(Got), First(s, Passed), F, C, L.removed, L.added)
            BY <1>2 DEF Follows, Drifted
        <3> QED BY <1>3, <1>4, <2>3, <3>1, DriftPaged
    <2>9. Follows(s)'
        <3>1. Len(listing'.got) = Len(L.got) + Cardinality(Q)
            BY <2>4, <2>6
        <3>2. Cardinality(Q) \in Nat /\ Cardinality(Got \cup Q) \in Nat
            BY <1>4, <2>3, FS_Union, FS_CardinalityType
        <3>3. Len(listing'.got) - Cardinality(Got') = Len(L.got) + Cardinality(Q) - Cardinality(Got \cup Q)
            BY <1>4, <2>6, <3>1, <3>2
        <3>4. Drift(listing'.steady, Got', Len(listing'.got) - Cardinality(Got'), First(s, Passed'), F,
                    EntrySet(dentries, listing.dir)', listing'.removed, listing'.added)
            BY <2>4, <2>6, <2>7, <2>8, <3>3
        <3>5. Drifted(s, F, EntrySet(dentries, listing.dir))'
            BY <3>4 DEF Drifted
        <3> QED BY <1>2, <3>5 DEF Follows
    <2>10. listing'.ended => Cardinality(listing'.steady \ Got') <= listing'.removed
        <3> DEFINE U == L.steady \ Got
                   V == L.steady \ (Got \cup Q)
        <3>1. L.steady \subseteq F
            BY <1>2 DEF Follows, Drifted, Drift
        <3>2. IsFiniteSet(U) /\ V \subseteq U
            BY <1>3, <3>1, Smaller, U \subseteq F
        <3>3. Cardinality(V) <= Cardinality(U) /\ Cardinality(V) \in Nat /\ Cardinality(U) \in Nat
            BY <3>2, Smaller
        <3>4. L.ended => Cardinality(U) <= L.removed
            BY <1>1 DEF DriftInv
        <3>5. Cardinality(U) <= L.removed => Cardinality(V) <= L.removed
            BY <1>4, <3>3
        <3>6. listing'.ended => Cardinality(V) <= L.removed
            BY <2>4, <3>4, <3>5
        <3> QED BY <2>4, <2>6, <3>6
    <2> QED BY <1>5, <2>4, <2>9, <2>10
<1> QED BY <1>6, <1>7

\* Every step keeps the drift within its bounds.
LEMMA DriftStep == DirType /\ DirType' /\ DriftInv /\ [DirNext]_dirVars => DriftInv'
<1> SUFFICES ASSUME DirType, DirType', DriftInv, [DirNext]_dirVars PROVE DriftInv'
    OBVIOUS
<1>1. CASE OtherRequest
    BY <1>1, DriftInvWatched DEF OtherRequest
<1>2. ASSUME NEW p \in InodeIds, NEW n \in Names, PulpfsLookup(p, n) PROVE DriftInv'
    <2>1. UNCHANGED <<vars, listing>> /\ request' = request /\ dentries' = dentries /\ listing' = listing
        BY <1>2 DEF PulpfsLookup, vars
    <2>2. List' = List
        BY <2>1 DEF List, Entries, EntrySet
    <2> QED BY <2>1, <2>2, DriftSame
<1>3. ASSUME NEW p \in InodeIds, NEW n \in Names, PulpfsMkdirOrCreate(p, n) PROVE DriftInv'
    <2>1. PICK learned : Watch(learned)
        BY <1>3 DEF PulpfsMkdirOrCreate
    <2> QED BY <1>3, <2>1, DriftInvWatched DEF PulpfsMkdirOrCreate
<1>4. ASSUME NEW d \in Listed, PulpfsOpenDir(d) PROVE DriftInv'
    BY <1>4, DriftOpened
<1>5. CASE listing' = NoListing
    BY <1>5, Distinct DEF DriftInv
<1>6. CASE PulpfsReadDir
    <2>1. /\ UNCHANGED <<vars, listing>> /\ dentries' = dentries /\ listing' = listing
          /\ request = Idle /\ request' = AtAttrs
        BY <1>6 DEF PulpfsReadDir, vars, AtAttrs
    <2>2. List = Entries(listing.dir) /\ List' = Entries(listing.dir)'
        BY <2>1, Distinct DEF List
    <2>3. List' = List
        BY <2>1, <2>2 DEF Entries, EntrySet
    <2> QED BY <2>1, <2>3, DriftSame
<1>7. CASE FetchEntries
    <2>1. /\ UNCHANGED <<vars, listing>> /\ dentries' = dentries /\ listing' = listing
          /\ request.at # "entries"
          /\ \/ request' = Idle
             \/ request'.at = "entries" /\ request'.entries = Entries(listing.dir)
        BY <1>7 DEF FetchEntries, ReplyError, vars
    <2>2. Entries(listing.dir)' = Entries(listing.dir)
        BY <2>1 DEF Entries, EntrySet
    <2>3. List' = List
        BY <2>1, <2>2, Distinct DEF List
    <2> QED BY <2>1, <2>3, DriftSame
<1>8. CASE ReplyPage
    BY <1>8, DriftReplied
<1>9. CASE UNCHANGED dirVars
    <2>1. UNCHANGED <<vars, listing>> /\ request' = request /\ dentries' = dentries
        BY <1>9 DEF dirVars, vars
    <2>2. List' = List
        BY <2>1 DEF List, Entries, EntrySet
    <2> QED BY <2>1, <2>2, DriftSame
<1> QED BY <1>1, <1>2, <1>3, <1>4, <1>5, <1>6, <1>7, <1>8, <1>9 DEF DirNext, CloseDir

\* However pages are cut and other mounts create and remove meanwhile, a
\* listing misses no more of the entries that were there all the time than
\* others were removed, and repeats no more than were added.
THEOREM ListingsDriftNoFurther == DirSpec => []ListingDriftBounded
<1>1. DirInit => DriftInv
    <2>1. DirInit => listing \notin Listings
        BY Distinct DEF DirInit
    <2> QED BY <2>1 DEF DriftInv
<1>2. DirType /\ DriftInv /\ [DirNext]_dirVars => (DirType /\ DriftInv)'
    BY DirTypeStep, DriftStep
<1> QED BY <1>1, <1>2, DirInitInv, DriftMeans, PTL DEF DirSpec
=============================================================================
