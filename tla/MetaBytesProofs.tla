-------------------------- MODULE MetaBytesProofs --------------------------
(***************************************************************************)
(* What is true of file contents and versions when clients send only       *)
(* well-formed batches (BatchesValid), as PulpFS's own FUSE client does.   *)
(***************************************************************************)
EXTENDS MetaBytes, MetaStateProofs

(***************************************************************************)
(* The table w is ino with newer versions, and perhaps other modes or link *)
(* counts, for the members of X, and the same for all others.              *)
(***************************************************************************)
Aged(w, ino, X) ==
    /\ w \in [DOMAIN ino -> AttrsI] /\ DOMAIN w = DOMAIN ino
    /\ \A j \in DOMAIN ino : /\ w[j].type = ino[j].type /\ w[j].size = ino[j].size
                             /\ j \notin X => w[j] = ino[j]
                             /\ j \in X => w[j].version > ino[j].version

\* Nothing aged.
LEMMA NotAged ==
    ASSUME NEW ino, ino \in [DOMAIN ino -> AttrsI]
    PROVE  Aged(ino, ino, {})
BY DEF Aged

\* TouchInode ages the inode it names.
LEMMA TouchAges ==
    ASSUME NEW ino, ino \in [DOMAIN ino -> AttrsI], NEW w, NEW X, Aged(w, ino, X),
           NEW i \in DOMAIN ino
    PROVE  Aged(TouchInode(w, i), ino, X \cup {i})
<1> DEFINE T == TouchInode(w, i)
<1>1. w \in [DOMAIN w -> AttrsI] /\ i \in DOMAIN w /\ DOMAIN w = DOMAIN ino
    BY DEF Aged
<1>2. /\ T \in [DOMAIN ino -> AttrsI] /\ DOMAIN T = DOMAIN ino
      /\ \A j \in DOMAIN ino : j # i => T[j] = w[j]
      /\ T[i].type = w[i].type
    BY <1>1, TouchIs
<1>3. T[i].size = w[i].size /\ T[i].version = w[i].version + 1
    BY <1>1 DEF TouchInode, AttrsI
<1>4. w[i].version \in Nat /\ ino[i].version \in Nat
    BY <1>1 DEF AttrsI
<1>5. w[i].version >= ino[i].version
    BY <1>4 DEF Aged
<1>6. T[i].version > ino[i].version
    BY <1>3, <1>4, <1>5
<1> HIDE DEF T
<1>7. Aged(T, ino, X \cup {i})
    BY <1>2, <1>3, <1>6 DEF Aged
<1> QED BY <1>7 DEF T

\* AddLink changes nothing else of an inode that has aged.
LEMMA LinkAges ==
    ASSUME NEW ino, NEW w, NEW X, Aged(w, ino, X), NEW i \in X, i \in DOMAIN ino, NEW d \in Int
    PROVE  Aged(AddLink(w, i, d), ino, X)
<1> DEFINE A == AddLink(w, i, d)
<1>1. w \in [DOMAIN w -> AttrsI] /\ i \in DOMAIN w /\ DOMAIN w = DOMAIN ino
    BY DEF Aged
<1>2. /\ A \in [DOMAIN ino -> AttrsI] /\ DOMAIN A = DOMAIN ino
      /\ \A j \in DOMAIN ino : j # i => A[j] = w[j]
      /\ A[i].type = w[i].type
    BY <1>1, LinkIs
<1>3. A[i].size = w[i].size /\ A[i].version = w[i].version
    BY <1>1 DEF AddLink, AttrsI
<1> HIDE DEF A
<1>4. Aged(A, ino, X)
    BY <1>2, <1>3 DEF Aged
<1> QED BY <1>4 DEF A

\* A rename ages the two directories and what it moves.
LEMMA MovedAges ==
    ASSUME NEW ino, ino \in [DOMAIN ino -> AttrsI],
           NEW p \in DOMAIN ino, NEW q \in DOMAIN ino, NEW v \in DOMAIN ino
    PROVE  Aged(InodesMoved(ino, p, q, v), ino, {p, q, v})
<1> DEFINE a == TouchInode(ino, p)
           b == TouchInode(a, q)
           t == IF p = q THEN a ELSE b
           c == AddLink(t, p, -1)
           e == AddLink(c, q, 1)
           l == IF p # q /\ ino[v].type = "Directory" THEN e ELSE t
<1>0. -1 \in Int /\ 1 \in Int
    OBVIOUS
<1>1. Aged(a, ino, {p})
    <2>1. {} \cup {p} = {p}
        OBVIOUS
    <2>2. Aged(a, ino, {} \cup {p})
        BY NotAged, TouchAges
    <2> QED BY <2>1, <2>2
<1>2. InodesMoved(ino, p, q, v) = TouchInode(l, v)
    BY DEF InodesMoved
<1> HIDE DEF a
<1>3. Aged(b, ino, {p, q})
    <2>1. {p} \cup {q} = {p, q}
        OBVIOUS
    <2>2. Aged(b, ino, {p} \cup {q})
        BY <1>1, TouchAges
    <2> QED BY <2>1, <2>2
<1> HIDE DEF b
<1>4. Aged(t, ino, {p, q})
    BY <1>1, <1>3
<1> HIDE DEF t
<1>5. Aged(c, ino, {p, q})
    BY <1>0, <1>4, LinkAges
<1> HIDE DEF c
<1>6. Aged(e, ino, {p, q})
    BY <1>0, <1>5, LinkAges
<1> HIDE DEF e
<1>7. Aged(l, ino, {p, q})
    BY <1>4, <1>6
<1> HIDE DEF l
<1>8. Aged(TouchInode(l, v), ino, {p, q} \cup {v})
    BY <1>7, TouchAges
<1>9. {p, q} \cup {v} = {p, q, v}
    OBVIOUS
<1> QED BY <1>2, <1>8, <1>9

\* A removal ages the directory.
LEMMA WithoutAges ==
    ASSUME NEW ino, ino \in [DOMAIN ino -> AttrsI], NEW i \in DOMAIN ino,
           NEW p \in DOMAIN ino, p # i
    PROVE  Aged(InodesWithout(ino, p, i), Erase(ino, i), {p})
<1> DEFINE E == Erase(ino, i)
           T == TouchInode(E, p)
           L == AddLink(T, p, -1)
<1>1. E \in [DOMAIN E -> AttrsI] /\ p \in DOMAIN E
    BY DEF Erase
<1>2. InodesWithout(ino, p, i) = IF ino[i].type = "Directory" THEN L ELSE T
    BY DEF InodesWithout
<1> HIDE DEF E
<1>3. Aged(T, E, {p})
    <2>1. {} \cup {p} = {p}
        OBVIOUS
    <2>2. Aged(T, E, {} \cup {p})
        BY <1>1, NotAged, TouchAges
    <2> QED BY <2>1, <2>2
<1> HIDE DEF T
<1>4. Aged(L, E, {p})
    <2>1. -1 \in Int /\ p \in {p}
        OBVIOUS
    <2> QED BY <1>1, <1>3, <2>1, LinkAges
<1> HIDE DEF L
<1> QED BY <1>2, <1>3, <1>4 DEF E

-----------------------------------------------------------------------------
(* What a call that changes the namespace does to inodes, entries and files. *)

EntriesIn(d, i) == {<<k[2], d[k]>> : k \in {l \in DOMAIN d : l[1] = i}}

FileComes == \E new : /\ new \notin DOMAIN layouts
                      /\ DOMAIN layouts' = DOMAIN layouts \cup {new}
                      /\ layouts'[new].extents = {} /\ inodes'[new].size = 0

FileGoes == \E t \in DOMAIN layouts : DOMAIN layouts' = DOMAIN layouts \ {t}

\* Ids are handed out in order, and only to new inodes.
IdsInOrder ==
    /\ \A j \in DOMAIN inodes' : j \in DOMAIN inodes \/ j = next_inode_id
    /\ next_inode_id' \in {next_inode_id, next_inode_id + 1}

NamespaceChange(X) ==
    /\ IdsInOrder
    /\ \A j \in DOMAIN inodes \cap DOMAIN inodes' :
           /\ inodes'[j].type = inodes[j].type /\ inodes'[j].size = inodes[j].size
           /\ j \notin X => inodes'[j] = inodes[j]
           /\ j \in X => inodes'[j].version > inodes[j].version
    /\ \A j : j \notin X => EntriesIn(dentries', j) = EntriesIn(dentries, j)
    /\ \A j \in DOMAIN layouts \cap DOMAIN layouts' : layouts'[j].extents = layouts[j].extents
    /\ DOMAIN layouts' = DOMAIN layouts \/ FileComes \/ FileGoes

\* An entry comes or goes in its own directory.
LEMMA EntriesElsewhere ==
    ASSUME NEW d, NEW k, NEW v, NEW j, j # k[1]
    PROVE  EntriesIn(Erase(d, k), j) = EntriesIn(d, j) /\ EntriesIn(Emplace(d, k, v), j) = EntriesIn(d, j)
<1>1. \A l \in DOMAIN d : l[1] = j => l # k
    OBVIOUS
<1>2. {l \in DOMAIN Erase(d, k) : l[1] = j} = {l \in DOMAIN d : l[1] = j}
    BY <1>1 DEF Erase
<1>3. {l \in DOMAIN Emplace(d, k, v) : l[1] = j} = {l \in DOMAIN d : l[1] = j}
    BY <1>1 DEF Emplace
<1>4. \A l \in DOMAIN d : l[1] = j => Erase(d, k)[l] = d[l] /\ Emplace(d, k, v)[l] = d[l]
    BY <1>1 DEF Erase, Emplace
<1> QED BY <1>2, <1>3, <1>4 DEF EntriesIn

\* mkdir and create.
LEMMA CreateChange ==
    ASSUME MetaInv, NEW p, NEW n, NEW mode \in Modes,
           NEW type \in {"Directory", "File"}, CreateNode(p, n, type, mode)
    PROVE  NamespaceChange({p})
<1> DEFINE new == next_inode_id
           T == TouchInode(inodes, p)
           parents == IF type = "Directory" THEN AddLink(T, p, 1) ELSE T
<1>1. p \in DOMAIN inodes /\ <<p, n>> \notin DOMAIN dentries
    BY ParentOk DEF CreateNode, CreateError
<1>2. new \notin DOMAIN inodes /\ new \notin DOMAIN layouts /\ inodes \in [DOMAIN inodes -> AttrsI]
    BY DEF MetaInv, TypeI, IdsBelowNext, LayoutsInSync
<1>3. inodes' = Emplace(parents, new, NewAttrs(type, mode))
    BY DEF CreateNode
<1>4. Aged(T, inodes, {p})
    <2>1. {} \cup {p} = {p}
        OBVIOUS
    <2>2. Aged(T, inodes, {} \cup {p})
        BY <1>1, <1>2, NotAged, TouchAges
    <2> QED BY <2>1, <2>2
<1> HIDE DEF T
<1>5. Aged(parents, inodes, {p})
    <2>1. Aged(AddLink(T, p, 1), inodes, {p})
        BY <1>1, <1>4, LinkAges
    <2> QED BY <1>4, <2>1
<1> HIDE DEF parents
<1>6. /\ DOMAIN inodes' = DOMAIN inodes \cup {new} /\ inodes'[new] = NewAttrs(type, mode)
      /\ \A j \in DOMAIN inodes : inodes'[j] = parents[j]
    BY <1>2, <1>3, <1>5 DEF Emplace, Aged
<1>7. \A j : j \notin {p} => EntriesIn(dentries', j) = EntriesIn(dentries, j)
    <2>1. dentries' = Emplace(dentries, <<p, n>>, new) /\ <<p, n>>[1] = p
        BY DEF CreateNode
    <2> QED BY <2>1, EntriesElsewhere
<1>8. /\ \A j \in DOMAIN layouts \cap DOMAIN layouts' : layouts'[j].extents = layouts[j].extents
      /\ DOMAIN layouts' = DOMAIN layouts \/ FileComes
    <2>1. CASE type = "Directory"
        BY <2>1 DEF CreateNode
    <2>2. CASE type = "File"
        <3>1. layouts' = Emplace(layouts, new, [attrs |-> NewAttrs(type, mode), extents |-> {}])
            BY <2>2 DEF CreateNode
        <3>2. /\ DOMAIN layouts' = DOMAIN layouts \cup {new} /\ layouts'[new].extents = {}
              /\ \A j \in DOMAIN layouts : layouts'[j] = layouts[j]
            BY <1>2, <3>1 DEF Emplace
        <3>3. inodes'[new].size = 0
            BY <1>6 DEF NewAttrs
        <3> QED BY <1>2, <3>2, <3>3 DEF FileComes
    <2> QED BY <2>1, <2>2
<1>9. IdsInOrder
    BY <1>6 DEF IdsInOrder, CreateNode
<1> QED BY <1>2, <1>5, <1>6, <1>7, <1>8, <1>9 DEF NamespaceChange, Aged

\* What is left of the layouts when RemoveNode took the entry of i out.
LEMMA WithoutExtents ==
    ASSUME MetaInv, NEW p, NEW n, <<p, n>> \in DOMAIN dentries,
           NEW i, i = dentries[<<p, n>>], IsDirectoryEmpty(i)
    PROVE  WithoutLayout(LayoutsWithout(layouts, inodes, p, i), layouts, i)
<1>1. p \in Dirs
    BY RemovedIs DEF Removed
<1>2. p \notin DOMAIN layouts /\ layouts \in [DOMAIN layouts -> LayoutI]
    BY <1>1 DEF MetaInv, TypeI, LayoutsInSync, Dirs, IsDir, IsFile
<1> QED BY <1>2, LayoutsWithoutIs

\* unlink and rmdir.
LEMMA RemoveChange ==
    ASSUME MetaInv, NEW p, NEW n, <<p, n>> \in DOMAIN dentries,
           IsDirectoryEmpty(dentries[<<p, n>>]), RemoveNode(p, n)
    PROVE  NamespaceChange({p})
<1>1. PICK i : i = dentries[<<p, n>>]
    OBVIOUS
<1>2. /\ inodes' = InodesWithout(inodes, p, i) /\ dentries' = Erase(dentries, <<p, n>>)
      /\ layouts' = LayoutsWithout(layouts, inodes, p, i)
    BY <1>1 DEF RemoveNode
<1>3. i \in DOMAIN inodes /\ p \in DOMAIN inodes /\ p # i
    BY <1>1, RemovedIs DEF Removed
<1>4. Aged(inodes', Erase(inodes, i), {p})
    BY <1>2, <1>3, WithoutAges DEF MetaInv, TypeI
<1>5. /\ DOMAIN inodes' = DOMAIN inodes \ {i}
      /\ \A j \in DOMAIN inodes' :
             /\ inodes'[j].type = inodes[j].type /\ inodes'[j].size = inodes[j].size
             /\ j \notin {p} => inodes'[j] = inodes[j]
             /\ j \in {p} => inodes'[j].version > inodes[j].version
    BY <1>4 DEF Aged, Erase
<1>6. \A j : j \notin {p} => EntriesIn(dentries', j) = EntriesIn(dentries, j)
    <2>1. <<p, n>>[1] = p
        OBVIOUS
    <2> QED BY <1>2, <2>1, EntriesElsewhere
<1>7. WithoutLayout(layouts', layouts, i)
    BY <1>1, <1>2, WithoutExtents
<1>8. /\ \A j \in DOMAIN layouts \cap DOMAIN layouts' : layouts'[j].extents = layouts[j].extents
      /\ DOMAIN layouts' = DOMAIN layouts \/ FileGoes
    <2>1. CASE i \in DOMAIN layouts
        BY <1>7, <2>1 DEF WithoutLayout, FileGoes
    <2>2. CASE i \notin DOMAIN layouts
        BY <1>7, <2>2 DEF WithoutLayout
    <2> QED BY <2>1, <2>2
<1>9. IdsInOrder
    BY <1>5 DEF IdsInOrder, RemoveNode
<1> QED BY <1>5, <1>6, <1>8, <1>9 DEF NamespaceChange

\* rename, given the tables that are left without a replaced entry.
LEMMA MovedChange ==
    ASSUME NEW ino, ino \in [DOMAIN ino -> AttrsI], NEW lay, lay \in [DOMAIN lay -> LayoutI],
           NEW p \in DOMAIN ino, NEW q \in DOMAIN ino, NEW v \in DOMAIN ino,
           inodes' = InodesMoved(ino, p, q, v),
           layouts' = SyncAttrs(SyncAttrs(SyncAttrs(lay, inodes', p), inodes', q), inodes', v)
    PROVE  /\ Aged(inodes', ino, {p, q, v})
           /\ DOMAIN layouts' = DOMAIN lay
           /\ \A j \in DOMAIN lay : layouts'[j].extents = lay[j].extents
<1>1. Aged(inodes', ino, {p, q, v})
    BY MovedAges
<1>2. \A j \in DOMAIN ino : inodes'[j] \in AttrsI
    BY <1>1 DEF Aged
<1> DEFINE a == SyncAttrs(lay, inodes', p)
           b == SyncAttrs(a, inodes', q)
<1>3. ASSUME NEW l, l \in [DOMAIN lay -> LayoutI], DOMAIN l = DOMAIN lay, NEW i \in DOMAIN ino
      PROVE  /\ SyncAttrs(l, inodes', i) \in [DOMAIN lay -> LayoutI]
             /\ DOMAIN SyncAttrs(l, inodes', i) = DOMAIN lay
             /\ \A j \in DOMAIN lay : SyncAttrs(l, inodes', i)[j].extents = l[j].extents
    <2>1. CASE i \notin DOMAIN l
        BY <1>3, <2>1 DEF SyncAttrs
    <2>2. CASE i \in DOMAIN l
        <3>1. l[i] \in LayoutI
            BY <1>3, <2>2
        <3>2. /\ [l[i] EXCEPT !.attrs = inodes'[i]] \in LayoutI
              /\ [l[i] EXCEPT !.attrs = inodes'[i]].extents = l[i].extents
            BY <1>2, <3>1 DEF LayoutI
        <3>3. SyncAttrs(l, inodes', i) = [l EXCEPT ![i] = [l[i] EXCEPT !.attrs = inodes'[i]]]
            BY <2>2 DEF SyncAttrs
        <3> QED BY <1>3, <2>2, <3>2, <3>3
    <2> QED BY <2>1, <2>2
<1>4. a \in [DOMAIN lay -> LayoutI] /\ DOMAIN a = DOMAIN lay
      /\ \A j \in DOMAIN lay : a[j].extents = lay[j].extents
    BY <1>3
<1> HIDE DEF a
<1>5. b \in [DOMAIN lay -> LayoutI] /\ DOMAIN b = DOMAIN lay
      /\ \A j \in DOMAIN lay : b[j].extents = lay[j].extents
    BY <1>3, <1>4
<1>6. layouts' = SyncAttrs(b, inodes', v)
    BY DEF a
<1> HIDE DEF b
<1>7. DOMAIN layouts' = DOMAIN lay /\ \A j \in DOMAIN lay : layouts'[j].extents = b[j].extents
    BY <1>3, <1>5, <1>6
<1> QED BY <1>1, <1>5, <1>7

\* rename.
LEMMA RenameChange ==
    ASSUME MetaInv, NEW p, NEW n, NEW q, NEW m, RenameError(p, n, q, m) = "Ok",
           ~(<<q, m>> \in DOMAIN dentries /\ dentries[<<q, m>>] = dentries[<<p, n>>]),
           MoveEntry(p, n, q, m)
    PROVE  \E v : NamespaceChange({p, q, v})
<1>1. PICK v : v = dentries[<<p, n>>]
    OBVIOUS
<1>2. /\ <<p, n>> \in DOMAIN dentries /\ v \in DOMAIN inodes
      /\ p \in DOMAIN inodes /\ q \in DOMAIN inodes
      /\ <<q, m>> \in DOMAIN dentries =>
             /\ dentries[<<q, m>>] # v /\ dentries[<<q, m>>] # p
             /\ IsDirectoryEmpty(dentries[<<q, m>>])
    BY <1>1, RenameChecks
<1>3. inodes \in [DOMAIN inodes -> AttrsI] /\ layouts \in [DOMAIN layouts -> LayoutI]
    BY DEF MetaInv, TypeI
<1>4. ASSUME NEW j, j \notin {p, q, v} PROVE EntriesIn(dentries', j) = EntriesIn(dentries, j)
    <2>1. dentries' = Emplace(Erase(dentries, <<p, n>>), <<q, m>>, v)
        BY <1>1 DEF MoveEntry
    <2>2. <<p, n>>[1] # j /\ <<q, m>>[1] # j
        BY <1>4
    <2> QED BY <2>1, <2>2, EntriesElsewhere
<1>5. CASE <<q, m>> \notin DOMAIN dentries
    <2>1. /\ inodes' = InodesMoved(inodes, p, q, v)
          /\ layouts' = SyncAttrs(SyncAttrs(SyncAttrs(layouts, inodes', p), inodes', q), inodes', v)
        BY <1>1, <1>5 DEF MoveEntry
    <2>2. /\ Aged(inodes', inodes, {p, q, v}) /\ DOMAIN layouts' = DOMAIN layouts
          /\ \A j \in DOMAIN layouts : layouts'[j].extents = layouts[j].extents
        BY <1>2, <1>3, <2>1, MovedChange
    <2>3. IdsInOrder
        BY <2>2 DEF IdsInOrder, Aged, MoveEntry
    <2>4. NamespaceChange({p, q, v})
        BY <1>4, <2>2, <2>3 DEF NamespaceChange, Aged
    <2> QED BY <2>4
<1>6. CASE <<q, m>> \in DOMAIN dentries
    <2>1. PICK t : t = dentries[<<q, m>>]
        OBVIOUS
    <2>2. t # v /\ t # p /\ IsDirectoryEmpty(t)
        BY <1>2, <1>6, <2>1
    <2> DEFINE ino == InodesWithout(inodes, q, t)
               lay == LayoutsWithout(layouts, inodes, q, t)
    <2>3. /\ inodes' = InodesMoved(ino, p, q, v)
          /\ layouts' = SyncAttrs(SyncAttrs(SyncAttrs(lay, inodes', p), inodes', q), inodes', v)
        BY <1>1, <1>6, <2>1 DEF MoveEntry
    <2>4. t \in DOMAIN inodes /\ q # t
        BY <1>6, <2>1, <2>2, RemovedIs DEF Removed
    <2>5. Aged(ino, Erase(inodes, t), {q})
        BY <1>2, <1>3, <2>4, WithoutAges
    <2>6. WithoutLayout(lay, layouts, t)
        BY <1>6, <2>1, <2>2, WithoutExtents
    <2> HIDE DEF ino, lay
    <2>7. /\ DOMAIN ino = DOMAIN inodes \ {t} /\ ino \in [DOMAIN ino -> AttrsI]
          /\ \A j \in DOMAIN ino : /\ ino[j].type = inodes[j].type /\ ino[j].size = inodes[j].size
                                   /\ j # q => ino[j] = inodes[j]
                                   /\ j = q => ino[j].version > inodes[j].version
        BY <2>5 DEF Aged, Erase
    <2>8. lay \in [DOMAIN lay -> LayoutI]
        BY <2>6 DEF WithoutLayout
    <2>9. p \in DOMAIN ino /\ q \in DOMAIN ino /\ v \in DOMAIN ino
        BY <1>2, <2>2, <2>4, <2>7
    <2>10. /\ Aged(inodes', ino, {p, q, v}) /\ DOMAIN layouts' = DOMAIN lay
           /\ \A j \in DOMAIN lay : layouts'[j].extents = lay[j].extents
        <3>1. ino \in [DOMAIN ino -> AttrsI]
            BY <2>7
        <3> QED BY <2>3, <2>8, <2>9, <3>1, MovedChange, Zenon
    <2>11. \A j \in DOMAIN ino : inodes'[j].version \in Nat /\ inodes[j].version \in Nat /\ ino[j].version \in Nat
        <3>1. \A j \in DOMAIN ino : inodes'[j] \in AttrsI /\ inodes[j] \in AttrsI /\ ino[j] \in AttrsI
            BY <1>3, <2>7, <2>10 DEF Aged
        <3> QED BY <3>1 DEF AttrsI
    <2>12. ASSUME NEW j \in DOMAIN inodes \cap DOMAIN inodes'
           PROVE  /\ inodes'[j].type = inodes[j].type /\ inodes'[j].size = inodes[j].size
                  /\ j \notin {p, q, v} => inodes'[j] = inodes[j]
                  /\ j \in {p, q, v} => inodes'[j].version > inodes[j].version
        <3>1. j \in DOMAIN ino
            BY <2>10 DEF Aged
        <3>2. inodes'[j].type = inodes[j].type /\ inodes'[j].size = inodes[j].size
            BY <2>7, <2>10, <3>1 DEF Aged
        <3>3. j \notin {p, q, v} => inodes'[j] = inodes[j]
            BY <2>7, <2>10, <3>1 DEF Aged
        <3>4. ino[j].version >= inodes[j].version
            BY <2>7, <2>11, <3>1
        <3>5. j \in {p, q, v} => inodes'[j].version > ino[j].version
            BY <2>10, <3>1 DEF Aged
        <3>6. j \in {p, q, v} => inodes'[j].version > inodes[j].version
            BY <2>11, <3>1, <3>4, <3>5
        <3> QED BY <3>2, <3>3, <3>6
    <2>13. /\ \A j \in DOMAIN layouts \cap DOMAIN layouts' : layouts'[j].extents = layouts[j].extents
           /\ DOMAIN layouts' = DOMAIN layouts \/ FileGoes
        <3>1. CASE t \in DOMAIN layouts
            BY <2>6, <2>10, <3>1 DEF WithoutLayout, FileGoes
        <3>2. CASE t \notin DOMAIN layouts
            BY <2>6, <2>10, <3>2 DEF WithoutLayout
        <3> QED BY <3>1, <3>2
    <2>14. IdsInOrder
        BY <2>7, <2>10 DEF IdsInOrder, Aged, MoveEntry
    <2>15. NamespaceChange({p, q, v})
        BY <1>4, <2>12, <2>13, <2>14 DEF NamespaceChange
    <2> QED BY <2>15
<1> QED BY <1>5, <1>6

\* Every call that changes the namespace.
LEMMA NamespaceEffect ==
    ASSUME MetaInv, NamespaceStep
    PROVE  UNCHANGED state \/ \E X : NamespaceChange(X)
<1> SUFFICES ASSUME NEW p \in InodeIds, NEW n \in AnyName,
                    \/ \E mode \in Modes : Mkdir(p, n, mode) \/ CreateFile(p, n, mode)
                    \/ Unlink(p, n)
                    \/ Rmdir(p, n)
                    \/ \E q \in InodeIds, m \in AnyName : Rename(p, n, q, m)
             PROVE  UNCHANGED state \/ \E X : NamespaceChange(X)
    BY DEF NamespaceStep
<1>1. ASSUME NEW mode \in Modes, Mkdir(p, n, mode) \/ CreateFile(p, n, mode)
      PROVE  UNCHANGED state \/ NamespaceChange({p})
    BY <1>1, CreateChange DEF Mkdir, CreateFile, Reject
<1>2. CASE Unlink(p, n) \/ Rmdir(p, n)
    <2>1. UNCHANGED state \/ NamespaceChange({p})
        BY <1>2, ChecksEmpty, RemoveChange DEF Unlink, Rmdir, Reject
    <2> QED BY <2>1
<1>3. ASSUME NEW q \in InodeIds, NEW m \in AnyName, Rename(p, n, q, m)
      PROVE  UNCHANGED state \/ \E v : NamespaceChange({p, q, v})
    BY <1>3, RenameChange DEF Rename, Reject
<1>4. CASE \E mode \in Modes : Mkdir(p, n, mode) \/ CreateFile(p, n, mode)
    BY <1>1, <1>4
<1>5. CASE \E q \in InodeIds, m \in AnyName : Rename(p, n, q, m)
    BY <1>3, <1>5
<1> QED BY <1>2, <1>4, <1>5
-----------------------------------------------------------------------------
(* What a call on one file does, when the batches are well-formed. *)

FileChange(i, size, extents) ==
    /\ i \in DOMAIN inodes /\ i \in DOMAIN layouts /\ size \in Nat /\ extents \in SUBSET Extent
    /\ inodes' = SetSize(i, size)
    /\ layouts' = [layouts EXCEPT ![i] = [attrs |-> inodes'[i], extents |-> extents]]
    /\ dentries' = dentries /\ next_inode_id' = next_inode_id

\* A batch without a malformed member is merged to its end.
LEMMA WholeBatch ==
    ASSUME NEW es \in Seq(Extent), \A k \in 1 .. Len(es) : ValidExtent(es[k])
    PROVE  AcceptedPrefix(es) = Len(es)
<1>1. /\ AcceptedPrefix(es) \in 0 .. Len(es) /\ Len(es) \in Nat
      /\ AcceptedPrefix(es) < Len(es) => ~ValidExtent(es[AcceptedPrefix(es) + 1])
    BY AcceptedPrefixIs
<1> QED BY <1>1

\* The members of a shifted batch are as well-formed as they were.
LEMMA ShiftedValid ==
    ASSUME NEW es \in Seq(Extent), NEW start \in Nat, \A k \in 1 .. Len(es) : ValidExtent(es[k])
    PROVE  LET sh == ShiftBatch(es, start)
           IN  \A k \in 1 .. Len(sh) : ValidExtent(sh[k])
<1> DEFINE sh == ShiftBatch(es, start)
<1>1. /\ Len(sh) = Len(es)
      /\ \A k \in 1 .. Len(es) : sh[k].length = es[k].length /\ sh[k].key = es[k].key
    BY ShiftBatchIs
<1> HIDE DEF sh
<1>2. \A k \in 1 .. Len(sh) : ValidExtent(sh[k])
    BY <1>1 DEF ValidExtent
<1> QED BY <1>2 DEF sh

\* A batch that is merged whole.
LEMMA MergeEffect ==
    ASSUME MetaInv, NEW i, NEW es \in Seq(Extent), NEW size, MergeBatch(i, es, size), size \in Nat,
           \A k \in 1 .. Len(es) : ValidExtent(es[k])
    PROVE  FileChange(i, size, MergeFirst(layouts[i].extents, es, Len(es)))
<1>1. AcceptedPrefix(es) = Len(es) /\ Len(es) \in Nat /\ Len(es) \in 0 .. Len(es)
    BY WholeBatch
<1>2. FileError(i) = "Ok"
    BY DEF MergeBatch
<1>3. i \in DOMAIN inodes /\ i \in DOMAIN layouts /\ layouts[i].extents \in SUBSET Extent
    BY <1>2, FileOk
<1>4. MergeFirst(layouts[i].extents, es, Len(es)) \in SUBSET Extent
    BY <1>1, <1>3, MergeFirstSafe
<1>5. /\ inodes' = SetSize(i, size)
      /\ layouts' = [layouts EXCEPT ![i] = [attrs |-> inodes'[i],
                        extents |-> MergeFirst(layouts[i].extents, es, Len(es))]]
      /\ dentries' = dentries /\ next_inode_id' = next_inode_id
    BY <1>1 DEF MergeBatch
<1> QED BY <1>3, <1>4, <1>5 DEF FileChange

CommitChange(i, es) ==
    FileChange(i, LargerOf(inodes[i].size, BatchEnd(es)),
               MergeFirst(layouts[i].extents, es, Len(es)))

AppendChange(i, es) ==
    FileChange(i, inodes[i].size + BatchEnd(es),
               MergeFirst(layouts[i].extents, ShiftBatch(es, inodes[i].size), Len(es)))

TruncateChange(i, size) == FileChange(i, size, TruncateExtents(layouts[i].extents, size))

\* setattr changes the mode and the version of one inode.
AttrChange(i) ==
    /\ i \in DOMAIN inodes /\ Aged(inodes', inodes, {i})
    /\ dentries' = dentries /\ next_inode_id' = next_inode_id
    /\ DOMAIN layouts' = DOMAIN layouts
    /\ \A j \in DOMAIN layouts : layouts'[j].extents = layouts[j].extents

\* setattr.
LEMMA AttrEffect ==
    ASSUME MetaInv, NEW i, NEW m \in Modes, SetAttr(i, m)
    PROVE  UNCHANGED state \/ AttrChange(i)
<1>1. CASE i \notin DOMAIN inodes
    BY <1>1 DEF SetAttr, Reject
<1>2. CASE i \in DOMAIN inodes
    <2> DEFINE w == [inodes EXCEPT ![i].mode = m]
    <2>1. /\ inodes' = TouchInode(w, i) /\ dentries' = dentries /\ next_inode_id' = next_inode_id
          /\ layouts' = SyncAttrs(layouts, inodes', i)
        BY <1>2 DEF SetAttr
    <2>2. inodes \in [DOMAIN inodes -> AttrsI] /\ layouts \in [DOMAIN layouts -> LayoutI]
        BY DEF MetaInv, TypeI
    <2>3. [inodes[i] EXCEPT !.mode = m] \in AttrsI
        BY <1>2, <2>2 DEF AttrsI
    <2>4. /\ w \in [DOMAIN w -> AttrsI] /\ DOMAIN w = DOMAIN inodes
          /\ \A j \in DOMAIN inodes : j # i => w[j] = inodes[j]
          /\ w[i].type = inodes[i].type /\ w[i].size = inodes[i].size
          /\ w[i].version = inodes[i].version
        BY <1>2, <2>2, <2>3 DEF AttrsI
    <2> HIDE DEF w
    <2>5. Aged(TouchInode(w, i), w, {} \cup {i})
        BY <1>2, <2>4, NotAged, TouchAges
    <2>6. Aged(inodes', inodes, {i})
        BY <2>1, <2>4, <2>5 DEF Aged
    <2>7. /\ DOMAIN layouts' = DOMAIN layouts
          /\ \A j \in DOMAIN layouts : layouts'[j].extents = layouts[j].extents
        BY <2>1, <2>2 DEF SyncAttrs, LayoutI
    <2> QED BY <1>2, <2>1, <2>6, <2>7 DEF AttrChange
<1> QED BY <1>1, <1>2

\* The two writes of a well-formed batch, wherever the batch comes from.
LEMMA WriteEffect ==
    ASSUME MetaInv, NEW i, NEW es \in Seq(Extent), \A k \in 1 .. Len(es) : ValidExtent(es[k])
    PROVE  /\ CommitWrite(i, es) => UNCHANGED state \/ CommitChange(i, es)
           /\ AppendWrite(i, es) => UNCHANGED state \/ AppendChange(i, es)
<1>1. CASE FileError(i) # "Ok"
    BY <1>1 DEF CommitWrite, AppendWrite, MergeBatch, Reject
<1>2. CASE FileError(i) = "Ok"
    <2>1. inodes[i].size \in Nat
        BY <1>2, FileOk
    <2>2. BatchEnd(es) \in Nat
        BY BatchEndIs
    <2>3. /\ LargerOf(inodes[i].size, BatchEnd(es)) \in Nat
          /\ inodes[i].size + BatchEnd(es) \in Nat
        BY <2>1, <2>2 DEF LargerOf
    <2> DEFINE sh == ShiftBatch(es, inodes[i].size)
    <2>4. sh \in Seq(Extent) /\ Len(sh) = Len(es) /\ \A k \in 1 .. Len(sh) : ValidExtent(sh[k])
        BY <2>1, ShiftBatchIs, ShiftedValid
    <2>5. ASSUME CommitWrite(i, es) PROVE CommitChange(i, es)
        <3>1. MergeBatch(i, es, LargerOf(inodes[i].size, BatchEnd(es)))
            BY <1>2, <2>5 DEF CommitWrite
        <3> QED BY <2>3, <3>1, MergeEffect DEF CommitChange
    <2>6. ASSUME AppendWrite(i, es) PROVE AppendChange(i, es)
        <3>1. MergeBatch(i, sh, inodes[i].size + BatchEnd(es))
            BY <1>2, <2>6 DEF AppendWrite
        <3> HIDE DEF sh
        <3>2. FileChange(i, inodes[i].size + BatchEnd(es),
                         MergeFirst(layouts[i].extents, sh, Len(sh)))
            BY <2>3, <2>4, <3>1, MergeEffect
        <3> QED BY <2>4, <3>2 DEF AppendChange, sh
    <2> QED BY <2>5, <2>6
<1> QED BY <1>1, <1>2

\* truncate.
LEMMA TruncateEffect ==
    ASSUME MetaInv, NEW i, NEW size \in Nat, Truncate(i, size)
    PROVE  UNCHANGED state \/ TruncateChange(i, size)
<1>1. CASE FileError(i) # "Ok"
    BY <1>1 DEF Truncate, Reject
<1>2. CASE FileError(i) = "Ok"
    <2>1. i \in DOMAIN inodes /\ i \in DOMAIN layouts /\ layouts[i].extents \in SUBSET Extent
        BY <1>2, FileOk
    <2>2. TruncateExtents(layouts[i].extents, size) \in SUBSET Extent
        BY <2>1, TruncateIs
    <2> QED BY <1>2, <2>1, <2>2 DEF Truncate, TruncateChange, FileChange
<1> QED BY <1>1, <1>2

\* Every call on one inode.
LEMMA FileEffect ==
    ASSUME MetaInv, BatchesValid, FileStep
    PROVE  \/ UNCHANGED state
           \/ \E i : AttrChange(i)
           \/ \E i : \E es \in Batches : CommitChange(i, es) \/ AppendChange(i, es)
           \/ \E i : \E size \in Sizes : TruncateChange(i, size)
<1>1. PICK i : \/ \E m \in Modes : SetAttr(i, m)
               \/ \E es \in Batches : CommitWrite(i, es) \/ AppendWrite(i, es)
               \/ \E size \in Sizes : Truncate(i, size)
    BY DEF FileStep
<1>2. CASE \E m \in Modes : SetAttr(i, m)
    BY <1>2, AttrEffect
<1>3. CASE \E es \in Batches : CommitWrite(i, es) \/ AppendWrite(i, es)
    <2>1. PICK es \in Batches : CommitWrite(i, es) \/ AppendWrite(i, es)
        BY <1>3
    <2>2. es \in Seq(Extent) /\ \A k \in 1 .. Len(es) : ValidExtent(es[k])
        BY MetaStateAssumption DEF BatchesValid
    <2> QED BY <2>1, <2>2, WriteEffect
<1>4. CASE \E size \in Sizes : Truncate(i, size)
    BY <1>4, TruncateEffect, MetaStateAssumption
<1> QED BY <1>1, <1>2, <1>3, <1>4

\* What a call on file i leaves.
LEMMA FileChangeIs ==
    ASSUME MetaInv, NEW i, NEW size, NEW extents, FileChange(i, size, extents)
    PROVE  /\ DOMAIN inodes' = DOMAIN inodes /\ DOMAIN layouts' = DOMAIN layouts
           /\ i \in DOMAIN inodes /\ i \in DOMAIN layouts
           /\ inodes'[i].size = size /\ inodes'[i].version > inodes[i].version
           /\ layouts'[i].extents = extents
           /\ \A j \in DOMAIN inodes : j # i => inodes'[j] = inodes[j]
           /\ \A j \in DOMAIN layouts : j # i => layouts'[j] = layouts[j]
<1>1. i \in DOMAIN inodes /\ i \in DOMAIN layouts /\ size \in Nat /\ inodes' = SetSize(i, size)
    BY DEF FileChange
<1>2. inodes \in [DOMAIN inodes -> AttrsI]
    BY DEF MetaInv, TypeI
<1>3. inodes[i] \in AttrsI
    BY <1>1, <1>2
<1> DEFINE a == [inodes[i] EXCEPT !.size = size]
           b == [a EXCEPT !.version = a.version + 1]
<1>4. b.size = size /\ b.version > inodes[i].version
    BY <1>3 DEF AttrsI
<1>5. inodes' = [inodes EXCEPT ![i] = b]
    BY <1>1, <1>2 DEF SetSize, TouchInode
<1> HIDE DEF b
<1>6. /\ DOMAIN inodes' = DOMAIN inodes /\ inodes'[i] = b
      /\ \A j \in DOMAIN inodes : j # i => inodes'[j] = inodes[j]
    BY <1>1, <1>2, <1>5
<1>7. layouts' = [layouts EXCEPT ![i] = [attrs |-> inodes'[i], extents |-> extents]]
    BY DEF FileChange
<1>8. layouts \in [DOMAIN layouts -> LayoutI]
    BY DEF MetaInv, TypeI
<1>9. /\ DOMAIN layouts' = DOMAIN layouts /\ layouts'[i].extents = extents
      /\ \A j \in DOMAIN layouts : j # i => layouts'[j] = layouts[j]
    BY <1>1, <1>7, <1>8
<1> QED BY <1>1, <1>4, <1>6, <1>9
-----------------------------------------------------------------------------
(* No extent reaches past the end of its file. *)

\* Merging makes nothing reach further than its parts did.
LEMMA MergeWithin ==
    ASSUME NEW stored \in SUBSET Extent, NEW e \in Extent, NEW s \in Nat,
           \A x \in stored : ExtentEnd(x) <= s, ExtentEnd(e) <= s
    PROVE  \A r \in MergeExtent(stored, e) : ExtentEnd(r) <= s
<1> SUFFICES ASSUME NEW r \in MergeExtent(stored, e) PROVE ExtentEnd(r) <= s
    OBVIOUS
<1>1. CASE r = e \/ r \in stored
    BY <1>1
<1>2. ASSUME NEW x \in stored, Overlaps(x, e), r \in Remnants(x, e) PROVE ExtentEnd(r) <= s
    <2>1. r \in Extent /\ x \in Extent /\ ExtentEnd(r) <= ExtentEnd(x) /\ ExtentEnd(x) <= s
        BY <1>2, RemnantIs
    <2>2. ExtentEnd(r) \in Nat /\ ExtentEnd(x) \in Nat
        BY <2>1 DEF ExtentEnd, Extent
    <2> QED BY <2>1, <2>2
<1> QED BY <1>1, <1>2, MergedIs

\* Nor does merging a batch.
LEMMA MergeFirstWithin ==
    ASSUME NEW stored \in SUBSET Extent, NEW es \in Seq(Extent), NEW s \in Nat,
           \A x \in stored : ExtentEnd(x) <= s,
           \A k \in 1 .. Len(es) : ExtentEnd(es[k]) <= s
    PROVE  \A r \in MergeFirst(stored, es, Len(es)) : ExtentEnd(r) <= s
<1> DEFINE P(k) == \A r \in MergeFirst(stored, es, k) : ExtentEnd(r) <= s
           S == {k \in Nat : k <= Len(es) => P(k)}
<1>0. Len(es) \in Nat
    OBVIOUS
<1>1. 0 \in S
    BY MergeFirstStep
<1>2. ASSUME NEW k \in S PROVE k + 1 \in S
    <2> SUFFICES ASSUME k + 1 <= Len(es) PROVE P(k + 1)
        OBVIOUS
    <2>1. P(k) /\ k \in 0 .. Len(es) /\ k + 1 \in 1 .. Len(es)
        BY <1>0
    <2>2. MergeFirst(stored, es, k) \in SUBSET Extent
        BY <2>1, MergeFirstSafe
    <2>3. es[k + 1] \in Extent /\ ExtentEnd(es[k + 1]) <= s
        BY <2>1
    <2>4. MergeFirst(stored, es, k + 1) = MergeExtent(MergeFirst(stored, es, k), es[k + 1])
        BY MergeFirstStep
    <2> DEFINE m == MergeFirst(stored, es, k)
    <2> HIDE DEF m
    <2>5. m \in SUBSET Extent /\ \A x \in m : ExtentEnd(x) <= s
        BY <2>1, <2>2 DEF m
    <2>6. \A r \in MergeExtent(m, es[k + 1]) : ExtentEnd(r) <= s
        BY <2>3, <2>5, MergeWithin
    <2> QED BY <2>4, <2>6 DEF m
<1>3. S = Nat
    <2>1. S \in SUBSET Nat
        OBVIOUS
    <2> HIDE DEF S
    <2> QED BY <1>1, <1>2, <2>1, SetInduction
<1> QED BY <1>0, <1>3

\* The three calls that change extents.
LEMMA FileWithin ==
    ASSUME MetaInv, ExtentsWithinSize, NEW i, NEW size, NEW extents,
           FileChange(i, size, extents), \A e \in extents : ExtentEnd(e) <= size
    PROVE  ExtentsWithinSize'
<1>1. /\ DOMAIN inodes' = DOMAIN inodes /\ DOMAIN layouts' = DOMAIN layouts
      /\ inodes'[i].size = size /\ layouts'[i].extents = extents
      /\ \A j \in DOMAIN inodes : j # i => inodes'[j] = inodes[j]
      /\ \A j \in DOMAIN layouts : j # i => layouts'[j] = layouts[j]
    BY FileChangeIs
<1>2. \A j \in DOMAIN layouts : j \in DOMAIN inodes
    BY DEF MetaInv, LayoutsInSync
<1> QED BY <1>1, <1>2 DEF ExtentsWithinSize

\* Every step keeps the extents of every file within its size.
LEMMA WithinStep ==
    ASSUME MetaInv, MetaInv', BatchesValid, ExtentsWithinSize, [Next]_vars
    PROVE  ExtentsWithinSize'
<1>0. /\ \A j \in DOMAIN layouts : j \in DOMAIN inodes
      /\ \A j \in DOMAIN layouts' : j \in DOMAIN inodes'
    BY DEF MetaInv, LayoutsInSync
<1>1. CASE UNCHANGED state
    BY <1>1 DEF state, ExtentsWithinSize
<1>2. ASSUME NEW X, NamespaceChange(X) PROVE ExtentsWithinSize'
    BY <1>0, <1>2 DEF NamespaceChange, FileComes, FileGoes, ExtentsWithinSize
<1>3. ASSUME NEW i, AttrChange(i) PROVE ExtentsWithinSize'
    BY <1>0, <1>3 DEF AttrChange, Aged, ExtentsWithinSize
<1>4. ASSUME NEW i, NEW es \in Batches, CommitChange(i, es) PROVE ExtentsWithinSize'
    <2>1. es \in Seq(Extent)
        BY MetaStateAssumption
    <2> DEFINE stored == layouts[i].extents
               s == LargerOf(inodes[i].size, BatchEnd(es))
    <2>2. i \in DOMAIN inodes /\ i \in DOMAIN layouts /\ s \in Nat
        BY <1>4 DEF CommitChange, FileChange
    <2>3. stored \in SUBSET Extent /\ inodes[i].size \in Nat
        BY <2>2 DEF MetaInv, TypeI, LayoutI, AttrsI
    <2>4. BatchEnd(es) \in Nat /\ \A k \in 1 .. Len(es) : ExtentEnd(es[k]) <= BatchEnd(es)
        BY <2>1, BatchEndIs
    <2>5. inodes[i].size <= s /\ BatchEnd(es) <= s
        BY <2>3, <2>4 DEF LargerOf
    <2>6. ASSUME NEW x \in Extent PROVE ExtentEnd(x) \in Nat
        BY DEF Extent, ExtentEnd
    <2>7. \A x \in stored : ExtentEnd(x) <= s
        BY <2>2, <2>3, <2>5, <2>6 DEF ExtentsWithinSize
    <2>8. \A k \in 1 .. Len(es) : ExtentEnd(es[k]) <= s
        <3>1. \A k \in 1 .. Len(es) : es[k] \in Extent
            BY <2>1
        <3> QED BY <2>2, <2>4, <2>5, <2>6, <3>1
    <2> HIDE DEF stored, s
    <2>9. \A r \in MergeFirst(stored, es, Len(es)) : ExtentEnd(r) <= s
        BY <2>1, <2>2, <2>3, <2>7, <2>8, MergeFirstWithin
    <2>10. FileChange(i, s, MergeFirst(stored, es, Len(es)))
        BY <1>4 DEF CommitChange, stored, s
    <2> QED BY <2>9, <2>10, FileWithin
<1>5. ASSUME NEW i, NEW es \in Batches, AppendChange(i, es) PROVE ExtentsWithinSize'
    <2>1. es \in Seq(Extent)
        BY MetaStateAssumption
    <2> DEFINE stored == layouts[i].extents
               start == inodes[i].size
               sh == ShiftBatch(es, start)
               s == start + BatchEnd(es)
    <2>2. i \in DOMAIN inodes /\ i \in DOMAIN layouts /\ s \in Nat
        BY <1>5 DEF AppendChange, FileChange
    <2>3. stored \in SUBSET Extent /\ start \in Nat
        BY <2>2 DEF MetaInv, TypeI, LayoutI, AttrsI
    <2>4. BatchEnd(es) \in Nat /\ \A k \in 1 .. Len(es) : ExtentEnd(es[k]) <= BatchEnd(es)
        BY <2>1, BatchEndIs
    <2>5. ASSUME NEW x \in Extent PROVE ExtentEnd(x) \in Nat
        BY DEF Extent, ExtentEnd
    <2>6. \A x \in stored : ExtentEnd(x) <= s
        <3>1. \A x \in stored : ExtentEnd(x) <= start
            BY <2>2 DEF ExtentsWithinSize
        <3> HIDE DEF stored, start
        <3> QED BY <2>3, <2>4, <2>5, <3>1
    <2> HIDE DEF stored, start
    <2>7. /\ sh \in Seq(Extent) /\ Len(sh) = Len(es)
          /\ \A k \in 1 .. Len(es) : sh[k].offset = start + es[k].offset /\ sh[k].length = es[k].length
        BY <2>1, <2>3, ShiftBatchIs
    <2>8. \A k \in 1 .. Len(sh) : ExtentEnd(sh[k]) <= s
        <3> SUFFICES ASSUME NEW k \in 1 .. Len(es) PROVE ExtentEnd(sh[k]) <= s
            BY <2>7
        <3>1. es[k] \in Extent
            BY <2>1
        <3>2. es[k].offset \in Nat /\ es[k].length \in Nat
            BY <3>1 DEF Extent
        <3>3. ExtentEnd(sh[k]) = start + ExtentEnd(es[k])
            BY <2>3, <2>7, <3>2 DEF ExtentEnd
        <3> QED BY <2>3, <2>4, <2>5, <3>1, <3>3
    <2>9. FileChange(i, s, MergeFirst(stored, sh, Len(sh)))
        BY <1>5, <2>7 DEF AppendChange, stored, start
    <2> HIDE DEF sh, s
    <2>10. \A r \in MergeFirst(stored, sh, Len(sh)) : ExtentEnd(r) <= s
        BY <2>2, <2>3, <2>6, <2>7, <2>8, MergeFirstWithin
    <2> QED BY <2>9, <2>10, FileWithin
<1>6. ASSUME NEW i, NEW size \in Sizes, TruncateChange(i, size) PROVE ExtentsWithinSize'
    <2>1. size \in Nat /\ i \in DOMAIN layouts
        BY <1>6, MetaStateAssumption DEF TruncateChange, FileChange
    <2>2. layouts[i].extents \in SUBSET Extent
        BY <2>1 DEF MetaInv, TypeI, LayoutI
    <2>3. \A r \in TruncateExtents(layouts[i].extents, size) : ExtentEnd(r) <= size
        BY <2>1, <2>2, TruncateIs
    <2> QED BY <1>6, <2>3, FileWithin DEF TruncateChange
<1>7. CASE NamespaceStep
    BY <1>1, <1>2, <1>7, NamespaceEffect
<1>8. CASE FileStep
    BY <1>1, <1>3, <1>4, <1>5, <1>6, <1>8, FileEffect
<1>9. CASE UNCHANGED vars
    BY <1>1, <1>9 DEF vars, state
<1> QED BY <1>7, <1>8, <1>9 DEF Next

\* Truncated bytes stay away: while every batch is well-formed, no extent
\* reaches past the end of its file.  A malformed batch breaks it: the extents
\* before the bad one are merged and the size is not raised.
THEOREM ExtentsStayWithinSize == BatchesValid /\ Spec => []ExtentsWithinSize
<1> DEFINE I == MetaInv /\ BatchesValid /\ ExtentsWithinSize
<1>1. BatchesValid /\ Init => I
    BY MetaInvInit DEF Init, ExtentsWithinSize
<1>2. I /\ [Next]_vars => I'
    <2>1. BatchesValid => BatchesValid'
        BY DEF BatchesValid
    <2> QED BY <2>1, MetaInvStep, WithinStep
<1>3. I => ExtentsWithinSize
    OBVIOUS
<1> QED BY <1>1, <1>2, <1>3, PTL DEF Spec

-----------------------------------------------------------------------------
(* Versions. *)

\* Contents, given the entries.
LEMMA ContentsIs ==
    ASSUME NEW i
    PROVE  /\ Contents(i) = <<EntriesIn(dentries, i), IF i \in DOMAIN layouts THEN layouts[i].extents ELSE {}>>
           /\ Contents(i)' = <<EntriesIn(dentries', i), IF i \in DOMAIN layouts' THEN layouts'[i].extents ELSE {}>>
BY DEF Contents, EntriesIn

VersionTells(i) ==
    inodes'[i] # inodes[i] \/ Contents(i)' # Contents(i) => inodes'[i].version > inodes[i].version

\* A step that changes the attributes, the entries or the extents of an inode
\* raises its version.
LEMMA ChangeTells ==
    ASSUME MetaInv, MetaInv',
           \/ UNCHANGED state
           \/ \E X : NamespaceChange(X)
           \/ \E i : AttrChange(i)
           \/ \E i, size, extents : FileChange(i, size, extents),
           NEW j \in DOMAIN inodes \cap DOMAIN inodes'
    PROVE  VersionTells(j)
<1>0. /\ j \in DOMAIN layouts <=> inodes[j].type = "File"
      /\ j \in DOMAIN layouts' <=> inodes'[j].type = "File"
    BY DEF MetaInv, LayoutsInSync, IsFile
<1>1. CASE UNCHANGED state
    BY <1>1, ContentsIs DEF state, VersionTells
<1>2. ASSUME NEW X, NamespaceChange(X) PROVE VersionTells(j)
    <2>1. CASE j \in X
        BY <1>2, <2>1 DEF NamespaceChange, VersionTells
    <2>2. CASE j \notin X
        <3>1. inodes'[j] = inodes[j] /\ EntriesIn(dentries', j) = EntriesIn(dentries, j)
            BY <1>2, <2>2 DEF NamespaceChange
        <3>2. j \in DOMAIN layouts <=> j \in DOMAIN layouts'
            BY <1>0, <3>1
        <3>3. j \in DOMAIN layouts => layouts'[j].extents = layouts[j].extents
            BY <1>2, <3>2 DEF NamespaceChange
        <3>4. Contents(j)' = Contents(j)
            BY <3>1, <3>2, <3>3, ContentsIs
        <3> QED BY <3>1, <3>4 DEF VersionTells
    <2> QED BY <2>1, <2>2
<1>3. ASSUME NEW i, AttrChange(i) PROVE VersionTells(j)
    <2>1. CASE j = i
        BY <1>3, <2>1 DEF AttrChange, Aged, VersionTells
    <2>2. CASE j # i
        <3>1. inodes'[j] = inodes[j] /\ dentries' = dentries /\ DOMAIN layouts' = DOMAIN layouts
              /\ (j \in DOMAIN layouts => layouts'[j].extents = layouts[j].extents)
            BY <1>3, <2>2 DEF AttrChange, Aged
        <3>2. Contents(j)' = Contents(j)
            BY <3>1, ContentsIs
        <3> QED BY <3>1, <3>2 DEF VersionTells
    <2> QED BY <2>1, <2>2
<1>4. ASSUME NEW i, NEW size, NEW extents, FileChange(i, size, extents) PROVE VersionTells(j)
    <2>1. CASE j = i
        BY <1>4, <2>1, FileChangeIs DEF VersionTells
    <2>2. CASE j # i
        <3>1. inodes'[j] = inodes[j] /\ dentries' = dentries /\ DOMAIN layouts' = DOMAIN layouts
              /\ (j \in DOMAIN layouts => layouts'[j] = layouts[j])
            BY <1>4, <2>2, FileChangeIs DEF FileChange
        <3>2. Contents(j)' = Contents(j)
            BY <3>1, ContentsIs
        <3> QED BY <3>1, <3>2 DEF VersionTells
    <2> QED BY <2>1, <2>2
<1> QED BY <1>1, <1>2, <1>3, <1>4

\* So does every step of the state machine.
LEMMA VersionStep ==
    ASSUME MetaInv, MetaInv', BatchesValid, [Next]_vars, NEW j \in DOMAIN inodes \cap DOMAIN inodes'
    PROVE  VersionTells(j)
<1>1. CASE NamespaceStep
    BY <1>1, NamespaceEffect, ChangeTells
<1>2. CASE FileStep
    <2>1. \/ UNCHANGED state
          \/ \E i : AttrChange(i)
          \/ \E i, size, extents : FileChange(i, size, extents)
        BY <1>2, FileEffect DEF CommitChange, AppendChange, TruncateChange
    <2> QED BY <2>1, ChangeTells
<1>3. CASE UNCHANGED vars
    BY <1>3, ChangeTells DEF vars, state
<1> QED BY <1>1, <1>2, <1>3 DEF Next

\* A client that finds the version it knew finds the inode it knew: while
\* every batch is well-formed, no step changes the attributes, the entries or
\* the extents of an inode without raising its version.
THEOREM VersionsTellChanges == BatchesValid /\ Spec => VersionTellsChange
<1>1. BatchesValid /\ MetaInv /\ MetaInv' /\ [Next]_vars
          => [\A i \in DOMAIN inodes \cap DOMAIN inodes' :
                 inodes'[i] # inodes[i] \/ Contents(i)' # Contents(i)
                    => inodes'[i].version > inodes[i].version]_vars
    BY VersionStep DEF VersionTells
<1>2. BatchesValid => BatchesValid'
    BY DEF BatchesValid
<1>3. Spec => []MetaInv
    BY MetaInvariant
<1> QED BY <1>1, <1>2, <1>3, PTL DEF Spec, VersionTellsChange

-----------------------------------------------------------------------------
(* What the bytes of a file become. *)

\* After a batch, a byte is what the last extent that covers it says.
LEMMA MergeFirstCells ==
    ASSUME NEW stored \in SUBSET Extent, NEW es \in Seq(Extent), NEW b \in Nat
    PROVE  /\ (\A k \in 1 .. Len(es) : ~Covers(es[k], b)) =>
                  CellsAt(MergeFirst(stored, es, Len(es)), b) = CellsAt(stored, b)
           /\ \A k \in 1 .. Len(es) :
                  Covers(es[k], b) /\ (\A l \in k + 1 .. Len(es) : ~Covers(es[l], b)) =>
                      CellsAt(MergeFirst(stored, es, Len(es)), b) = {Cell(es[k], b)}
<1> DEFINE M(n) == CellsAt(MergeFirst(stored, es, n), b)
           P(n) == /\ (\A k \in 1 .. n : ~Covers(es[k], b)) => M(n) = CellsAt(stored, b)
                   /\ \A k \in 1 .. n :
                          Covers(es[k], b) /\ (\A l \in k + 1 .. n : ~Covers(es[l], b)) =>
                              M(n) = {Cell(es[k], b)}
           S == {n \in Nat : n <= Len(es) => P(n)}
<1>0. Len(es) \in Nat
    OBVIOUS
<1>1. 0 \in S
    BY MergeFirstStep
<1>2. ASSUME NEW n \in S PROVE n + 1 \in S
    <2> SUFFICES ASSUME n + 1 <= Len(es) PROVE P(n + 1)
        OBVIOUS
    <2>1. P(n) /\ n \in Nat /\ n \in 0 .. Len(es) /\ n + 1 \in 1 .. Len(es)
        BY <1>0
    <2>2. MergeFirst(stored, es, n) \in SUBSET Extent /\ es[n + 1] \in Extent
        <3> HIDE DEF P, S
        <3>1. MergeFirst(stored, es, n) \in SUBSET Extent
            BY <2>1, MergeFirstSafe
        <3> QED BY <2>1, <3>1
    <2>3. MergeFirst(stored, es, n + 1) = MergeExtent(MergeFirst(stored, es, n), es[n + 1])
        BY <2>1, MergeFirstStep
    <2>4. M(n + 1) = IF Covers(es[n + 1], b) THEN {Cell(es[n + 1], b)} ELSE M(n)
        BY <2>2, <2>3, MergeExtentCells
    <2> HIDE DEF M
    <2>5. ASSUME \A k \in 1 .. n + 1 : ~Covers(es[k], b) PROVE M(n + 1) = CellsAt(stored, b)
        <3>1. ~Covers(es[n + 1], b) /\ \A k \in 1 .. n : ~Covers(es[k], b)
            BY <2>1, <2>5
        <3> QED BY <2>1, <2>4, <3>1
    <2>6. ASSUME NEW k \in 1 .. n + 1, Covers(es[k], b),
                 \A l \in k + 1 .. n + 1 : ~Covers(es[l], b)
          PROVE  M(n + 1) = {Cell(es[k], b)}
        <3>1. CASE k = n + 1
            BY <2>4, <2>6, <3>1
        <3>2. CASE k # n + 1
            <4>1. k \in 1 .. n /\ n + 1 \in k + 1 .. n + 1
                BY <2>1, <3>2
            <4>2. ~Covers(es[n + 1], b) /\ \A l \in k + 1 .. n : ~Covers(es[l], b)
                BY <2>1, <2>6, <4>1
            <4> QED BY <2>1, <2>4, <2>6, <4>1, <4>2
        <3> QED BY <3>1, <3>2
    <2> QED BY <2>5, <2>6
<1>3. S = Nat
    <2>1. S \in SUBSET Nat
        OBVIOUS
    <2> HIDE DEF S
    <2> QED BY <1>1, <1>2, <2>1, SetInduction
<1> QED BY <1>0, <1>3

\* ByteFiles and MetaState mean the same by an extent and its bytes.
LEMMA SameMeaning ==
    ASSUME NEW e, NEW b
    PROVE  /\ Abstract!ExtentEnd(e) = ExtentEnd(e)
           /\ Abstract!Covers(e, b) <=> Covers(e, b)
           /\ Abstract!Cell(e, b) = Cell(e, b)
BY DEF Abstract!ExtentEnd, ExtentEnd, Abstract!Covers, Covers, Abstract!Cell, Cell

\* sh is the batch es written at base.
ShiftedBy(sh, es, base) ==
    /\ sh \in Seq(Extent) /\ Len(sh) = Len(es)
    /\ \A k \in 1 .. Len(es) : /\ sh[k].offset = base + es[k].offset
                               /\ sh[k].length = es[k].length
                               /\ sh[k].key = es[k].key
                               /\ sh[k].object_offset = es[k].object_offset

\* Merging a batch extent by extent is overwriting byte by byte.
LEMMA BatchOverwrites ==
    ASSUME NEW stored \in SUBSET Extent, NEW es \in Seq(Extent), NEW base \in Nat,
           NEW sh, ShiftedBy(sh, es, base), NEW b \in Nat
    PROVE  CellsAt(MergeFirst(stored, sh, Len(sh)), b) =
               Abstract!Overwritten(CellsAt(stored, b), es, base, b)
<1> DEFINE C == Abstract!Covering(es, b - base)
<1>0. /\ Len(es) \in Nat /\ sh \in Seq(Extent) /\ Len(sh) = Len(es)
    BY DEF ShiftedBy
<1>1. ASSUME NEW k \in 1 .. Len(es)
      PROVE  /\ Covers(sh[k], b) <=> ~(b < base) /\ Covers(es[k], b - base)
             /\ Cell(sh[k], b) = Cell(es[k], b - base)
    <2>1. es[k] \in Extent
        OBVIOUS
    <2>2. es[k].offset \in Nat /\ es[k].length \in Nat /\ es[k].object_offset \in Nat
        BY <2>1 DEF Extent
    <2>3. /\ sh[k].offset = base + es[k].offset /\ sh[k].length = es[k].length
          /\ sh[k].key = es[k].key /\ sh[k].object_offset = es[k].object_offset
        BY DEF ShiftedBy
    <2>4. Covers(sh[k], b) <=> ~(b < base) /\ Covers(es[k], b - base)
        BY <2>2, <2>3 DEF Covers, ExtentEnd
    <2>5. b - (base + es[k].offset) = (b - base) - es[k].offset
        BY <2>2
    <2>6. Cell(sh[k], b) = Cell(es[k], b - base)
        BY <2>3, <2>5 DEF Cell
    <2> QED BY <2>4, <2>6
<1>2. C = {k \in 1 .. Len(es) : Covers(es[k], b - base)}
    BY SameMeaning DEF Abstract!Covering
<1>3. CASE b < base \/ C = {}
    <2>1. \A k \in 1 .. Len(sh) : ~Covers(sh[k], b)
        BY <1>0, <1>1, <1>2, <1>3
    <2>2. CellsAt(MergeFirst(stored, sh, Len(sh)), b) = CellsAt(stored, b)
        BY <1>0, <2>1, MergeFirstCells
    <2> QED BY <1>3, <2>2 DEF Abstract!Overwritten
<1>4. CASE ~(b < base) /\ C # {}
    <2> DEFINE k == CHOOSE m \in C : \A l \in C : l <= m
    <2>1. C \in SUBSET (0 .. Len(es))
        BY <1>0, <1>2
    <2> HIDE DEF C
    <2>2. \E m \in C : \A l \in C : l <= m
        BY <1>0, <1>4, <2>1, GreatestMember
    <2>3. k \in C /\ \A l \in C : l <= k
        BY <2>2
    <2>4. Abstract!Overwritten(CellsAt(stored, b), es, base, b) = {Abstract!Cell(es[k], b - base)}
        BY <1>4 DEF Abstract!Overwritten, C
    <2> HIDE DEF k
    <2>5. k \in 1 .. Len(sh) /\ Covers(sh[k], b) /\ Cell(sh[k], b) = Cell(es[k], b - base)
        BY <1>0, <1>1, <1>2, <1>4, <2>3
    <2>6. \A l \in k + 1 .. Len(sh) : ~Covers(sh[l], b)
        <3> SUFFICES ASSUME NEW l \in k + 1 .. Len(sh), Covers(sh[l], b) PROVE FALSE
            OBVIOUS
        <3>1. k \in Nat /\ l \in 1 .. Len(es) /\ l > k
            BY <1>0, <2>5
        <3>2. l \in C
            BY <1>1, <1>2, <3>1
        <3> QED BY <2>3, <3>1, <3>2
    <2>7. CellsAt(MergeFirst(stored, sh, Len(sh)), b) = {Cell(sh[k], b)}
        BY <1>0, <2>5, <2>6, MergeFirstCells
    <2> QED BY <2>4, <2>5, <2>7, SameMeaning
<1> QED BY <1>3, <1>4

\* The size after a write at base: any upper bound among the candidates.
LEMMA GrownSizeIs ==
    ASSUME NEW size \in Nat, NEW base \in Nat, NEW es \in Seq(Extent), NEW v \in Nat,
           v \in {size} \cup {base + ExtentEnd(es[k]) : k \in 1 .. Len(es)},
           v >= size, \A k \in 1 .. Len(es) : v >= base + ExtentEnd(es[k])
    PROVE  Abstract!GrownSize(size, es, base) = v
<1> DEFINE S == {size} \cup {base + ExtentEnd(es[k]) : k \in 1 .. Len(es)}
           Top(n) == n >= size /\ \A k \in 1 .. Len(es) : n >= base + ExtentEnd(es[k])
           g == CHOOSE n \in S : Top(n)
<1>1. Abstract!GrownSize(size, es, base) = g
    BY SameMeaning DEF Abstract!GrownSize
<1>2. g \in S /\ Top(g)
    BY Zenon
<1>3. \A k \in 1 .. Len(es) : ExtentEnd(es[k]) \in Nat
    <2>1. \A k \in 1 .. Len(es) : es[k] \in Extent
        OBVIOUS
    <2>2. \A e \in Extent : ExtentEnd(e) \in Nat
        BY DEF Extent, ExtentEnd
    <2> QED BY <2>1, <2>2
<1> HIDE DEF g
<1>4. g \in Nat
    BY <1>2, <1>3
<1>5. g <= v /\ v <= g
    BY <1>2, <1>3, <1>4
<1> QED BY <1>1, <1>4, <1>5

-----------------------------------------------------------------------------
(* MetaState implements ByteFiles. *)

ViewOf(size, extents) == [size |-> size, bytes |-> [b \in Bytes |-> CellsAt(extents, b)]]

\* GetLayout puts the present attributes in place of the stored copy.
LEMMA LayoutWith ==
    ASSUME NEW lay, lay \in [DOMAIN lay -> LayoutI], NEW i \in DOMAIN lay, NEW at
    PROVE  /\ [lay[i] EXCEPT !.attrs = at].attrs = at
           /\ [lay[i] EXCEPT !.attrs = at].extents = lay[i].extents
BY DEF LayoutI

\* The views before and after a step.
LEMMA FileViewIs ==
    ASSUME MetaInv, MetaInv'
    PROVE  /\ FileView = [i \in DOMAIN layouts |-> ViewOf(inodes[i].size, layouts[i].extents)]
           /\ FileView' = [i \in DOMAIN layouts' |-> ViewOf(inodes'[i].size, layouts'[i].extents)]
<1>1. layouts \in [DOMAIN layouts -> LayoutI] /\ layouts' \in [DOMAIN layouts' -> LayoutI]
    BY DEF MetaInv, TypeI
<1>2. FileView = [i \in DOMAIN layouts |-> ViewOf(inodes[i].size, layouts[i].extents)]
    <2>1. \A i \in DOMAIN layouts : GetLayout(i).attrs = inodes[i] /\ GetLayout(i).extents = layouts[i].extents
        BY <1>1, LayoutWith DEF GetLayout
    <2> QED BY <2>1 DEF FileView, ViewOf
<1>3. FileView' = [i \in DOMAIN layouts' |-> ViewOf(inodes'[i].size, layouts'[i].extents)]
    <2>1. \A i \in DOMAIN layouts' : GetLayout(i)'.attrs = inodes'[i] /\ GetLayout(i)'.extents = layouts'[i].extents
        BY <1>1, LayoutWith DEF GetLayout
    <2> QED BY <2>1 DEF FileView, ViewOf
<1> QED BY <1>2, <1>3

\* A step that keeps the files, their sizes and their extents.
LEMMA SameView ==
    ASSUME MetaInv, MetaInv', DOMAIN layouts' = DOMAIN layouts,
           \A j \in DOMAIN layouts : /\ inodes'[j].size = inodes[j].size
                                     /\ layouts'[j].extents = layouts[j].extents
    PROVE  FileView' = FileView
BY FileViewIs

\* create, unlink, rename and the others as steps of ByteFiles.
LEMMA NamespaceView ==
    ASSUME MetaInv, MetaInv', NEW X, NamespaceChange(X)
    PROVE  FileView' = FileView \/ Abstract!Next
<1>0. /\ \A j \in DOMAIN layouts : j \in DOMAIN inodes
      /\ \A j \in DOMAIN layouts' : j \in DOMAIN inodes'
    BY DEF MetaInv, LayoutsInSync
<1>1. \A j \in DOMAIN layouts \cap DOMAIN layouts' :
          inodes'[j].size = inodes[j].size /\ layouts'[j].extents = layouts[j].extents
    BY <1>0 DEF NamespaceChange
<1>2. /\ FileView = [i \in DOMAIN layouts |-> ViewOf(inodes[i].size, layouts[i].extents)]
      /\ FileView' = [i \in DOMAIN layouts' |-> ViewOf(inodes'[i].size, layouts'[i].extents)]
    BY FileViewIs
<1>3. CASE DOMAIN layouts' = DOMAIN layouts
    BY <1>1, <1>3, SameView
<1>4. CASE FileComes
    <2>1. PICK new : /\ new \notin DOMAIN layouts /\ DOMAIN layouts' = DOMAIN layouts \cup {new}
                     /\ layouts'[new].extents = {} /\ inodes'[new].size = 0
        BY <1>4 DEF FileComes
    <2>2. ViewOf(0, {}) = Abstract!EmptyFile
        BY DEF ViewOf, CellsAt, Abstract!EmptyFile, Abstract!Hole
    <2>3. FileView' = [j \in DOMAIN FileView \cup {new} |->
                           IF j = new THEN Abstract!EmptyFile ELSE FileView[j]]
        BY <1>1, <1>2, <2>1, <2>2
    <2>4. new \in DOMAIN FileView' \ DOMAIN FileView
        BY <1>2, <2>1
    <2>5. Abstract!Create
        BY <2>3, <2>4 DEF Abstract!Create
    <2> QED BY <2>5 DEF Abstract!Next
<1>5. CASE FileGoes
    <2>1. PICK t \in DOMAIN layouts : DOMAIN layouts' = DOMAIN layouts \ {t}
        BY <1>5 DEF FileGoes
    <2>2. FileView' = [j \in DOMAIN FileView \ {t} |-> FileView[j]] /\ t \in DOMAIN FileView
        BY <1>1, <1>2, <2>1
    <2> QED BY <2>2 DEF Abstract!Next, Abstract!Remove
<1> QED BY <1>3, <1>4, <1>5 DEF NamespaceChange

\* A call on one file changes the view of that file.
LEMMA FileChangeView ==
    ASSUME MetaInv, MetaInv', NEW i, NEW size, NEW extents, FileChange(i, size, extents)
    PROVE  /\ i \in DOMAIN FileView
           /\ FileView[i].size = inodes[i].size /\ inodes[i].size \in Nat
           /\ \A b \in Bytes : FileView[i].bytes[b] = CellsAt(layouts[i].extents, b)
           /\ layouts[i].extents \in SUBSET Extent
           /\ FileView' = [FileView EXCEPT ![i] = ViewOf(size, extents)]
<1>1. /\ DOMAIN layouts' = DOMAIN layouts /\ i \in DOMAIN inodes /\ i \in DOMAIN layouts
      /\ inodes'[i].size = size /\ layouts'[i].extents = extents
      /\ \A j \in DOMAIN inodes : j # i => inodes'[j] = inodes[j]
      /\ \A j \in DOMAIN layouts : j # i => layouts'[j] = layouts[j]
    BY FileChangeIs
<1>2. \A j \in DOMAIN layouts : j \in DOMAIN inodes
    BY DEF MetaInv, LayoutsInSync
<1>3. /\ FileView = [j \in DOMAIN layouts |-> ViewOf(inodes[j].size, layouts[j].extents)]
      /\ FileView' = [j \in DOMAIN layouts' |-> ViewOf(inodes'[j].size, layouts'[j].extents)]
    BY FileViewIs
<1>4. FileView' = [FileView EXCEPT ![i] = ViewOf(size, extents)]
    BY <1>1, <1>2, <1>3
<1>5. inodes[i].size \in Nat /\ layouts[i].extents \in SUBSET Extent
    BY <1>1 DEF MetaInv, TypeI, AttrsI, LayoutI
<1>6. FileView[i] = ViewOf(inodes[i].size, layouts[i].extents) /\ i \in DOMAIN FileView
    BY <1>1, <1>3
<1>7. /\ FileView[i].size = inodes[i].size
      /\ \A b \in Bytes : FileView[i].bytes[b] = CellsAt(layouts[i].extents, b)
    BY <1>6 DEF ViewOf
<1> QED BY <1>4, <1>5, <1>6, <1>7

\* A merged batch is a write of ByteFiles.
LEMMA WriteView ==
    ASSUME MetaInv, MetaInv', NEW i, NEW es \in Seq(Extent), NEW base \in Nat,
           NEW sh, ShiftedBy(sh, es, base), NEW size,
           FileChange(i, size, MergeFirst(layouts[i].extents, sh, Len(sh))),
           size = Abstract!GrownSize(inodes[i].size, es, base)
    PROVE  Abstract!WriteAt(i, es, base)
<1> DEFINE stored == layouts[i].extents
           m == MergeFirst(stored, sh, Len(sh))
<1>1. /\ FileView[i].size = inodes[i].size
      /\ \A b \in Bytes : FileView[i].bytes[b] = CellsAt(stored, b)
      /\ stored \in SUBSET Extent
      /\ FileView' = [FileView EXCEPT ![i] = ViewOf(size, m)]
    BY FileChangeView
<1> HIDE DEF stored
<1>2. \A b \in Bytes : CellsAt(m, b) = Abstract!Overwritten(FileView[i].bytes[b], es, base, b)
    BY <1>1, BatchOverwrites, BytesAssumption
<1> HIDE DEF m
<1>3. ViewOf(size, m) =
          [size  |-> Abstract!GrownSize(FileView[i].size, es, base),
           bytes |-> [b \in Bytes |-> Abstract!Overwritten(FileView[i].bytes[b], es, base, b)]]
    BY <1>1, <1>2 DEF ViewOf
<1> QED BY <1>1, <1>3 DEF Abstract!WriteAt

\* A batch is the same batch written at 0.
LEMMA ShiftedByZero ==
    ASSUME NEW es \in Seq(Extent)
    PROVE  ShiftedBy(es, es, 0)
<1>1. \A k \in 1 .. Len(es) : es[k].offset \in Nat
    <2>1. \A k \in 1 .. Len(es) : es[k] \in Extent
        OBVIOUS
    <2> QED BY <2>1 DEF Extent
<1> QED BY <1>1 DEF ShiftedBy

\* commit_write.
LEMMA CommitView ==
    ASSUME MetaInv, MetaInv', NEW i, NEW es \in Batches, CommitChange(i, es)
    PROVE  Abstract!Next
<1> DEFINE s == LargerOf(inodes[i].size, BatchEnd(es))
<1>1. es \in Seq(Extent) /\ 0 \in Nat
    BY MetaStateAssumption
<1>2. FileChange(i, s, MergeFirst(layouts[i].extents, es, Len(es)))
    BY DEF CommitChange
<1>3. i \in DOMAIN FileView /\ inodes[i].size \in Nat
    BY <1>2, FileChangeView
<1>4. s = Abstract!GrownSize(inodes[i].size, es, 0)
    <2>1. /\ BatchEnd(es) \in Nat /\ \A k \in 1 .. Len(es) : ExtentEnd(es[k]) <= BatchEnd(es)
          /\ BatchEnd(es) \in {0} \cup {ExtentEnd(es[k]) : k \in 1 .. Len(es)}
        BY <1>1, BatchEndIs
    <2>2. \A k \in 1 .. Len(es) : ExtentEnd(es[k]) \in Nat
        <3>1. \A k \in 1 .. Len(es) : es[k] \in Extent
            BY <1>1
        <3> QED BY <3>1 DEF Extent, ExtentEnd
    <2>3. s \in Nat /\ s >= inodes[i].size /\ s >= BatchEnd(es)
        BY <1>3, <2>1 DEF LargerOf
    <2>4. \A k \in 1 .. Len(es) : s >= 0 + ExtentEnd(es[k])
        BY <2>1, <2>2, <2>3
    <2>5. s = inodes[i].size \/ \E k \in 1 .. Len(es) : s = 0 + ExtentEnd(es[k])
        BY <1>3, <2>1, <2>2 DEF LargerOf
    <2>6. s \in {inodes[i].size} \cup {0 + ExtentEnd(es[k]) : k \in 1 .. Len(es)}
        BY <2>5
    <2> HIDE DEF s
    <2> QED BY <1>1, <1>3, <2>3, <2>4, <2>6, GrownSizeIs
<1>5. ShiftedBy(es, es, 0)
    BY <1>1, ShiftedByZero
<1> HIDE DEF s
<1>6. Abstract!WriteAt(i, es, 0)
    BY <1>1, <1>2, <1>4, <1>5, WriteView
<1>7. Abstract!Write(i)
    BY <1>6 DEF Abstract!Write
<1> QED BY <1>3, <1>7 DEF Abstract!Next

\* append_write.
LEMMA AppendView ==
    ASSUME MetaInv, MetaInv', NEW i, NEW es \in Batches, AppendChange(i, es)
    PROVE  Abstract!Next
<1> DEFINE start == inodes[i].size
           s == start + BatchEnd(es)
           sh == ShiftBatch(es, start)
<1>1. es \in Seq(Extent)
    BY MetaStateAssumption
<1>2. FileChange(i, s, MergeFirst(layouts[i].extents, sh, Len(es)))
    BY DEF AppendChange
<1>3. i \in DOMAIN FileView /\ start \in Nat /\ FileView[i].size = start
    BY <1>2, FileChangeView
<1>4. s = Abstract!GrownSize(inodes[i].size, es, start)
    <2>1. /\ BatchEnd(es) \in Nat /\ \A k \in 1 .. Len(es) : ExtentEnd(es[k]) <= BatchEnd(es)
          /\ BatchEnd(es) \in {0} \cup {ExtentEnd(es[k]) : k \in 1 .. Len(es)}
        BY <1>1, BatchEndIs
    <2>2. \A k \in 1 .. Len(es) : ExtentEnd(es[k]) \in Nat
        <3>1. \A k \in 1 .. Len(es) : es[k] \in Extent
            BY <1>1
        <3> QED BY <3>1 DEF Extent, ExtentEnd
    <2>3. s \in Nat /\ s >= start
        BY <1>3, <2>1
    <2>4. \A k \in 1 .. Len(es) : s >= start + ExtentEnd(es[k])
        BY <1>3, <2>1, <2>2
    <2>5. s = start \/ \E k \in 1 .. Len(es) : s = start + ExtentEnd(es[k])
        BY <1>3, <2>1
    <2>6. s \in {start} \cup {start + ExtentEnd(es[k]) : k \in 1 .. Len(es)}
        BY <2>5
    <2> HIDE DEF s, start
    <2>7. Abstract!GrownSize(start, es, start) = s
        BY <1>1, <1>3, <2>3, <2>4, <2>6, GrownSizeIs
    <2> QED BY <2>7 DEF start
<1>5. ShiftedBy(sh, es, start) /\ Len(sh) = Len(es)
    BY <1>1, <1>3, ShiftBatchIs DEF ShiftedBy
<1> HIDE DEF s, start, sh
<1>6. Abstract!WriteAt(i, es, start)
    BY <1>1, <1>2, <1>3, <1>4, <1>5, WriteView
<1>7. Abstract!AppendTo(i)
    BY <1>3, <1>6 DEF Abstract!AppendTo
<1> QED BY <1>3, <1>7 DEF Abstract!Next

\* truncate.
LEMMA CutView ==
    ASSUME MetaInv, MetaInv', NEW i, NEW size \in Sizes, TruncateChange(i, size)
    PROVE  Abstract!Next
<1> DEFINE stored == layouts[i].extents
           cut == TruncateExtents(stored, size)
<1>1. FileChange(i, size, cut) /\ size \in Nat
    BY MetaStateAssumption DEF TruncateChange
<1>2. /\ i \in DOMAIN FileView
      /\ \A b \in Bytes : FileView[i].bytes[b] = CellsAt(stored, b)
      /\ stored \in SUBSET Extent
      /\ FileView' = [FileView EXCEPT ![i] = ViewOf(size, cut)]
    BY <1>1, FileChangeView
<1> HIDE DEF stored
<1>3. \A b \in Bytes : CellsAt(cut, b) = IF b < size THEN FileView[i].bytes[b] ELSE Abstract!Hole
    BY <1>1, <1>2, TruncateCells, BytesAssumption DEF Abstract!Hole
<1> HIDE DEF cut
<1>4. ViewOf(size, cut) =
          [size  |-> size,
           bytes |-> [b \in Bytes |-> IF b < size THEN FileView[i].bytes[b] ELSE Abstract!Hole]]
    BY <1>3 DEF ViewOf
<1>5. Abstract!Truncate(i)
    BY <1>2, <1>4 DEF Abstract!Truncate
<1> QED BY <1>2, <1>5 DEF Abstract!Next

\* Every step of MetaState is a step of ByteFiles or leaves the files alone.
LEMMA BytesStep ==
    ASSUME MetaInv, MetaInv', BatchesValid, [Next]_vars
    PROVE  [Abstract!Next]_FileView
<1>0. /\ \A j \in DOMAIN layouts : j \in DOMAIN inodes
    BY DEF MetaInv, LayoutsInSync
<1>1. CASE UNCHANGED state
    BY <1>1, SameView DEF state
<1>2. ASSUME NEW X, NamespaceChange(X) PROVE [Abstract!Next]_FileView
    BY <1>2, NamespaceView
<1>3. ASSUME NEW i, AttrChange(i) PROVE [Abstract!Next]_FileView
    BY <1>0, <1>3, SameView DEF AttrChange, Aged
<1>4. CASE NamespaceStep
    BY <1>1, <1>2, <1>4, NamespaceEffect
<1>5. CASE FileStep
    BY <1>1, <1>3, <1>5, FileEffect, CommitView, AppendView, CutView
<1>6. CASE UNCHANGED vars
    BY <1>1, <1>6 DEF vars, state
<1> QED BY <1>4, <1>5, <1>6 DEF Next

\* The file half of MetaState does what ByteFiles promises: merging, slicing
\* and cutting extents comes to writing and cutting bytes, for every file, every
\* list of well-formed batches and every byte position.
THEOREM MetaImplementsBytes == BatchesValid /\ Spec => ImplementsByteFiles
<1>1. Init => Abstract!Init
    <2> SUFFICES ASSUME Init PROVE FileView = [i \in {} |-> Abstract!EmptyFile]
        BY DEF Abstract!Init
    <2>1. DOMAIN layouts = {}
        BY DEF Init
    <2> QED BY <2>1 DEF FileView
<1>2. BatchesValid /\ MetaInv /\ MetaInv' /\ [Next]_vars => [Abstract!Next]_FileView
    BY BytesStep
<1>3. BatchesValid => BatchesValid'
    BY DEF BatchesValid
<1>4. Spec => []MetaInv
    BY MetaInvariant
<1> QED BY <1>1, <1>2, <1>3, <1>4, PTL DEF Spec, ImplementsByteFiles, Abstract!Spec
=============================================================================
