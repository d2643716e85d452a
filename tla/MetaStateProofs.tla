-------------------------- MODULE MetaStateProofs --------------------------
(***************************************************************************)
(* The namespace stays a tree, its link counts stay right and the layouts  *)
(* stay in step with it, for every set of names, every bound and every     *)
(* list of client requests.                                                *)
(***************************************************************************)
EXTENDS MetaState, ExtentProofs, FiniteSetTheorems

(***************************************************************************)
(* The tree invariants are proved with link counts known to be integers    *)
(* only: that they are never negative follows from what they count, at the *)
(* end of this module.                                                     *)
(***************************************************************************)
AttrsI == [type : {"Directory", "File"}, mode : Modes, size : Nat, nlink : Int, version : Nat]

LayoutI == [attrs : AttrsI, extents : SUBSET Extent]

TypeI ==
    /\ inodes \in [DOMAIN inodes -> AttrsI]
    /\ DOMAIN inodes \subseteq Nat /\ Root \in DOMAIN inodes
    /\ dentries \in [DOMAIN dentries -> Nat]
    /\ DOMAIN dentries \subseteq Nat \X Names
    /\ layouts \in [DOMAIN layouts -> LayoutI]
    /\ next_inode_id \in Nat
    /\ result \in Kinds
-----------------------------------------------------------------------------
(* The updates of the maps. *)

\* Erase removes the one entry it names.
LEMMA EraseIs ==
    ASSUME NEW f, NEW x
    PROVE  /\ DOMAIN Erase(f, x) = DOMAIN f \ {x}
           /\ \A y \in DOMAIN f \ {x} : Erase(f, x)[y] = f[y]
BY DEF Erase

\* Emplace adds or replaces the one entry it names.
LEMMA EmplaceIs ==
    ASSUME NEW f, NEW x, NEW v
    PROVE  /\ DOMAIN Emplace(f, x, v) = DOMAIN f \cup {x}
           /\ Emplace(f, x, v)[x] = v
           /\ \A y \in DOMAIN f : y # x => Emplace(f, x, v)[y] = f[y]
BY DEF Emplace

\* TouchInode changes the version of one inode and nothing else.
LEMMA TouchIs ==
    ASSUME NEW ino, ino \in [DOMAIN ino -> AttrsI], NEW i \in DOMAIN ino
    PROVE  /\ TouchInode(ino, i) \in [DOMAIN ino -> AttrsI]
           /\ DOMAIN TouchInode(ino, i) = DOMAIN ino
           /\ \A j \in DOMAIN ino : j # i => TouchInode(ino, i)[j] = ino[j]
           /\ \A j \in DOMAIN ino : /\ TouchInode(ino, i)[j].type = ino[j].type
                                    /\ TouchInode(ino, i)[j].nlink = ino[j].nlink
<1>1. ino[i] \in AttrsI
    OBVIOUS
<1>2. [ino[i] EXCEPT !.version = ino[i].version + 1] \in AttrsI
    BY <1>1 DEF AttrsI
<1> QED BY <1>1, <1>2 DEF TouchInode, AttrsI

\* AddLink changes the link count of one inode and nothing else.
LEMMA LinkIs ==
    ASSUME NEW ino, ino \in [DOMAIN ino -> AttrsI], NEW i \in DOMAIN ino, NEW d \in Int
    PROVE  /\ AddLink(ino, i, d) \in [DOMAIN ino -> AttrsI]
           /\ DOMAIN AddLink(ino, i, d) = DOMAIN ino
           /\ \A j \in DOMAIN ino : j # i => AddLink(ino, i, d)[j] = ino[j]
           /\ AddLink(ino, i, d)[i].nlink = ino[i].nlink + d
           /\ \A j \in DOMAIN ino : AddLink(ino, i, d)[j].type = ino[j].type
<1>1. ino[i] \in AttrsI
    OBVIOUS
<1>2. [ino[i] EXCEPT !.nlink = ino[i].nlink + d] \in AttrsI
    BY <1>1 DEF AttrsI
<1> QED BY <1>1, <1>2 DEF AddLink, AttrsI
-----------------------------------------------------------------------------
(***************************************************************************)
(* The tree, as a fact about a set D of inodes, its subset dirs of         *)
(* directories and a table d of entries.                                   *)
(***************************************************************************)
ParentIn(d, i) ==
    IF i # Root /\ \E k \in DOMAIN d : d[k] = i
    THEN (CHOOSE k \in DOMAIN d : d[k] = i)[1]
    ELSE i

Linked(D, dirs, d) ==
    /\ dirs \subseteq D /\ Root \in dirs
    /\ \A k \in DOMAIN d : k[1] \in dirs /\ d[k] \in D /\ d[k] # Root
    /\ \A k, l \in DOMAIN d : d[k] = d[l] => k = l
    /\ \A i \in D : i # Root => \E k \in DOMAIN d : d[k] = i

RootedIn(D, d) ==
    \A S \in SUBSET (D \ {Root}) : S # {} => \E i \in S : ParentIn(d, i) \notin S

Tree(D, dirs, d) == Linked(D, dirs, d) /\ RootedIn(D, d)

Dirs == {i \in DOMAIN inodes : IsDir(i)}

\* Tree is what the three properties of MetaState say together.
LEMMA TreeIs ==
    ASSUME Root \in Dirs
    PROVE  Tree(DOMAIN inodes, Dirs, dentries) <=> NoDanglingDentry /\ OneParent /\ Rooted
<1>1. Linked(DOMAIN inodes, Dirs, dentries) <=> NoDanglingDentry /\ OneParent
    BY DEF Linked, Dirs, NoDanglingDentry, OneParent
<1>2. RootedIn(DOMAIN inodes, dentries) <=> Rooted
    BY DEF RootedIn, Rooted, ParentIn, ParentOf
<1> QED BY <1>1, <1>2 DEF Tree

\* The parent of an inode is the directory of its only entry.
LEMMA ParentIs ==
    ASSUME NEW D, NEW dirs, NEW d, Linked(D, dirs, d)
    PROVE  /\ \A k \in DOMAIN d : ParentIn(d, d[k]) = k[1]
           /\ ParentIn(d, Root) = Root
           /\ \A i \in D : ParentIn(d, i) \in dirs
<1>1. ASSUME NEW k \in DOMAIN d PROVE ParentIn(d, d[k]) = k[1]
    <2>1. (CHOOSE l \in DOMAIN d : d[l] = d[k]) = k
        BY DEF Linked
    <2> QED BY <2>1 DEF Linked, ParentIn
<1>2. ParentIn(d, Root) = Root
    BY DEF ParentIn
<1>3. ASSUME NEW i \in D PROVE ParentIn(d, i) \in dirs
    BY <1>1, <1>2 DEF Linked
<1> QED BY <1>1, <1>2, <1>3

\* Creating an inode under a directory keeps the tree.
LEMMA CreateTree ==
    ASSUME NEW D, NEW dirs, NEW d, Tree(D, dirs, d), NEW new, new \notin D,
           NEW k, k[1] \in dirs, k \notin DOMAIN d, NEW dirs2, dirs2 \in {dirs, dirs \cup {new}}
    PROVE  Tree(D \cup {new}, dirs2, Emplace(d, k, new))
<1> DEFINE D2 == D \cup {new}
           d2 == Emplace(d, k, new)
<1>1. /\ DOMAIN d2 = DOMAIN d \cup {k} /\ d2[k] = new
      /\ \A l \in DOMAIN d : d2[l] = d[l]
    BY DEF Emplace
<1> HIDE DEF d2
<1>2. Linked(D2, dirs2, d2)
    BY <1>1 DEF Tree, Linked
<1>3. Linked(D, dirs, d)
    BY DEF Tree
<1>4. (\A j \in DOMAIN d : ParentIn(d, d[j]) = j[1]) /\ ParentIn(d, Root) = Root
    BY <1>3, ParentIs
<1>5. /\ \A j \in DOMAIN d : ParentIn(d, d[j]) = j[1] /\ j[1] \in D
      /\ ParentIn(d, Root) = Root /\ Root \in D
    BY <1>3, <1>4 DEF Linked
<1>6. (\A j \in DOMAIN d2 : ParentIn(d2, d2[j]) = j[1]) /\ ParentIn(d2, Root) = Root
    BY <1>2, ParentIs
<1>7. ASSUME NEW i \in D PROVE ParentIn(d2, i) = ParentIn(d, i) /\ ParentIn(d2, i) # new
    <2>1. CASE i = Root
        BY <2>1, <1>5, <1>6
    <2>2. CASE i # Root
        <3>1. PICK l \in DOMAIN d : d[l] = i
            BY <2>2 DEF Tree, Linked
        <3> QED BY <3>1, <1>1, <1>5, <1>6
    <2> QED BY <2>1, <2>2
<1>8. ASSUME NEW S \in SUBSET (D2 \ {Root}), S # {}
      PROVE  \E i \in S : ParentIn(d2, i) \notin S
    <2>1. CASE S \subseteq {new}
        <3>1. ParentIn(d2, new) = k[1]
            BY <1>1, <1>2, ParentIs
        <3> QED BY <2>1, <3>1, <1>8 DEF Tree, Linked
    <2>2. CASE ~(S \subseteq {new})
        <3>1. S \ {new} \in SUBSET (D \ {Root}) /\ S \ {new} # {}
            BY <2>2
        <3>2. PICK i \in S \ {new} : ParentIn(d, i) \notin S \ {new}
            BY <3>1 DEF Tree, RootedIn
        <3> QED BY <1>7, <3>1, <3>2
    <2> QED BY <2>1, <2>2
<1>9. RootedIn(D2, d2)
    BY <1>8 DEF RootedIn
<1> QED BY <1>2, <1>9 DEF Tree, d2

\* Removing an inode that is no one's parent keeps the tree.
LEMMA RemoveTree ==
    ASSUME NEW D, NEW dirs, NEW d, Tree(D, dirs, d), NEW k \in DOMAIN d,
           \A l \in DOMAIN d : l[1] # d[k]
    PROVE  /\ Tree(D \ {d[k]}, dirs \ {d[k]}, Erase(d, k))
           /\ \A i \in D \ {d[k]} : ParentIn(Erase(d, k), i) = ParentIn(d, i)
<1> DEFINE D2 == D \ {d[k]}
           dirs2 == dirs \ {d[k]}
           d2 == Erase(d, k)
<1>1. DOMAIN d2 = DOMAIN d \ {k} /\ \A l \in DOMAIN d \ {k} : d2[l] = d[l]
    BY EraseIs
<1> HIDE DEF d2
<1>2. Linked(D2, dirs2, d2)
    BY <1>1 DEF Tree, Linked
<1>3. ASSUME NEW i \in D2 PROVE ParentIn(d2, i) = ParentIn(d, i)
    <2>1. CASE i = Root
        BY <2>1, <1>2, ParentIs DEF Tree
    <2>2. CASE i # Root
        <3>1. PICK l \in DOMAIN d : d[l] = i
            BY <2>2 DEF Tree, Linked
        <3> QED BY <3>1, <1>1, <1>2, ParentIs DEF Tree
    <2> QED BY <2>1, <2>2
<1>4. RootedIn(D2, d2)
    BY <1>3 DEF Tree, RootedIn
<1> QED BY <1>2, <1>3, <1>4 DEF Tree, d2

\* Moving an inode under a directory from which it is not an ancestor keeps
\* the tree: U is the set that IsAncestor's walk from q stays in.
LEMMA MoveTree ==
    ASSUME NEW D, NEW dirs, NEW d, Tree(D, dirs, d), NEW k \in DOMAIN d,
           NEW l, l \notin DOMAIN d, l[1] \in dirs,
           NEW U \in SUBSET D, l[1] \in U, d[k] \notin U, \A j \in U : ParentIn(d, j) \in U
    PROVE  Tree(D, dirs, Emplace(Erase(d, k), l, d[k]))
<1> DEFINE v == d[k]
           d2 == Emplace(Erase(d, k), l, v)
<1>1. /\ DOMAIN d2 = (DOMAIN d \ {k}) \cup {l} /\ d2[l] = v
      /\ \A j \in DOMAIN d \ {k} : d2[j] = d[j]
    BY DEF Erase, Emplace
<1> HIDE DEF d2
<1>2. Linked(D, dirs, d2)
    BY <1>1 DEF Tree, Linked
<1>3. ASSUME NEW i \in D, i # v PROVE ParentIn(d2, i) = ParentIn(d, i)
    <2>1. CASE i = Root
        BY <2>1, <1>2, ParentIs DEF Tree
    <2>2. CASE i # Root
        <3>1. PICK j \in DOMAIN d : d[j] = i
            BY <2>2 DEF Tree, Linked
        <3> QED BY <3>1, <1>1, <1>2, <1>3, ParentIs DEF Tree
    <2> QED BY <2>1, <2>2
<1>4. ParentIn(d2, v) = l[1]
    BY <1>1, <1>2, ParentIs
<1>5. ASSUME NEW S \in SUBSET (D \ {Root}), S # {}
      PROVE  \E i \in S : ParentIn(d2, i) \notin S
    <2>1. CASE v \notin S
        <3>1. PICK i \in S : ParentIn(d, i) \notin S
            BY <1>5 DEF Tree, RootedIn
        <3> QED BY <2>1, <3>1, <1>3
    <2>2. CASE v \in S /\ l[1] \notin S
        BY <2>2, <1>4
    <2>3. CASE v \in S /\ l[1] \in S
        <3>1. S \cap U \in SUBSET (D \ {Root}) /\ S \cap U # {}
            BY <2>3
        <3>2. PICK i \in S \cap U : ParentIn(d, i) \notin S \cap U
            BY <3>1 DEF Tree, RootedIn
        <3>3. ParentIn(d2, i) = ParentIn(d, i)
            BY <3>2, <1>3
        <3> QED BY <3>2, <3>3
    <2> QED BY <2>1, <2>2, <2>3
<1> QED BY <1>2, <1>5 DEF Tree, RootedIn, d2
-----------------------------------------------------------------------------
(* The numbers that the two writes compute from a batch. *)

\* The loop stops at the first malformed extent or at the end.
LEMMA AcceptedPrefixIs ==
    ASSUME NEW es \in Seq(Extent)
    PROVE  /\ AcceptedPrefix(es) \in 0 .. Len(es)
           /\ \A k \in 1 .. AcceptedPrefix(es) : ValidExtent(es[k])
           /\ AcceptedPrefix(es) < Len(es) => ~ValidExtent(es[AcceptedPrefix(es) + 1])
<1> DEFINE S == {n \in 0 .. Len(es) : \A k \in 1 .. n : ValidExtent(es[k])}
<1>0. Len(es) \in Nat
    OBVIOUS
<1>1. 0 \in S /\ S \in SUBSET (0 .. Len(es))
    BY <1>0
<1>2. PICK n \in S : \A m \in S : m <= n
    <2> HIDE DEF S
    <2> QED BY <1>0, <1>1, GreatestMember
<1>3. n < Len(es) => ~ValidExtent(es[n + 1])
    <2> SUFFICES ASSUME n < Len(es), ValidExtent(es[n + 1]) PROVE FALSE
        OBVIOUS
    <2>1. n + 1 \in S
        BY <1>0, <1>2
    <2> QED BY <1>2, <2>1
<1>4. \E m \in 0 .. Len(es) : /\ \A k \in 1 .. m : ValidExtent(es[k])
                              /\ m < Len(es) => ~ValidExtent(es[m + 1])
    BY <1>2, <1>3
<1> QED BY <1>4, Zenon DEF AcceptedPrefix

\* A batch has an end, and it is a natural number.
LEMMA BatchEndIs ==
    ASSUME NEW es \in Seq(Extent)
    PROVE  /\ BatchEnd(es) \in Nat
           /\ \A k \in 1 .. Len(es) : ExtentEnd(es[k]) <= BatchEnd(es)
           /\ BatchEnd(es) \in {0} \cup {ExtentEnd(es[k]) : k \in 1 .. Len(es)}
<1> DEFINE Ends(n) == {0} \cup {ExtentEnd(es[k]) : k \in 1 .. n}
           S == {n \in Nat : n <= Len(es) =>
                   \E m \in Ends(n) : \A k \in 1 .. n : ExtentEnd(es[k]) <= m}
<1>0. \A k \in 1 .. Len(es) : ExtentEnd(es[k]) \in Nat
    <2>1. ASSUME NEW e \in Extent PROVE ExtentEnd(e) \in Nat
        BY DEF Extent, ExtentEnd
    <2>2. \A k \in 1 .. Len(es) : es[k] \in Extent
        OBVIOUS
    <2> QED BY <2>1, <2>2
<1>1. 0 \in S
    OBVIOUS
<1>2. ASSUME NEW n \in S PROVE n + 1 \in S
    <2> SUFFICES ASSUME n + 1 <= Len(es)
                 PROVE  \E m \in Ends(n + 1) : \A k \in 1 .. n + 1 : ExtentEnd(es[k]) <= m
        OBVIOUS
    <2>1. PICK m \in Ends(n) : \A k \in 1 .. n : ExtentEnd(es[k]) <= m
        OBVIOUS
    <2>2. m \in Nat /\ m \in Ends(n + 1) /\ ExtentEnd(es[n + 1]) \in Ends(n + 1)
        BY <1>0, <2>1
    <2>3. CASE ExtentEnd(es[n + 1]) <= m
        BY <2>1, <2>2, <2>3
    <2>4. CASE ~(ExtentEnd(es[n + 1]) <= m)
        <3>1. \A k \in 1 .. n + 1 : ExtentEnd(es[k]) <= ExtentEnd(es[n + 1])
            BY <1>0, <2>1, <2>2, <2>4
        <3> QED BY <2>2, <3>1
    <2> QED BY <2>3, <2>4
<1>3. S = Nat
    <2> HIDE DEF S
    <2>1. S \in SUBSET Nat
        BY DEF S
    <2> QED BY <1>1, <1>2, <2>1, SetInduction
<1>4. \E m \in Ends(Len(es)) : \A k \in 1 .. Len(es) : ExtentEnd(es[k]) <= m
    <2>1. Len(es) \in S /\ Len(es) \in Nat
        <3> HIDE DEF S
        <3> QED BY <1>3
    <2> HIDE DEF Ends
    <2> QED BY <2>1
<1>5. BatchEnd(es) \in Ends(Len(es)) /\ \A k \in 1 .. Len(es) : ExtentEnd(es[k]) <= BatchEnd(es)
    BY <1>4, Zenon DEF BatchEnd
<1> QED BY <1>0, <1>5

\* The batch that AppendWrite merges.
LEMMA ShiftBatchIs ==
    ASSUME NEW es \in Seq(Extent), NEW start \in Nat
    PROVE  /\ ShiftBatch(es, start) \in Seq(Extent)
           /\ Len(ShiftBatch(es, start)) = Len(es)
           /\ \A k \in 1 .. Len(es) :
                  /\ ShiftBatch(es, start)[k].offset = start + es[k].offset
                  /\ ShiftBatch(es, start)[k].length = es[k].length
                  /\ ShiftBatch(es, start)[k].key = es[k].key
                  /\ ShiftBatch(es, start)[k].object_offset = es[k].object_offset
<1>1. \A k \in 1 .. Len(es) : es[k] \in Extent
    OBVIOUS
<1>2. ShiftBatch(es, start) \in [1 .. Len(es) -> Extent]
    BY <1>1 DEF ShiftBatch, Extent
<1>3. ShiftBatch(es, start) \in Seq(Extent) /\ Len(ShiftBatch(es, start)) = Len(es)
    BY <1>2
<1>4. \A k \in 1 .. Len(es) :
          /\ ShiftBatch(es, start)[k].offset = start + es[k].offset
          /\ ShiftBatch(es, start)[k].length = es[k].length
          /\ ShiftBatch(es, start)[k].key = es[k].key
          /\ ShiftBatch(es, start)[k].object_offset = es[k].object_offset
    BY DEF ShiftBatch
<1> QED BY <1>3, <1>4
-----------------------------------------------------------------------------
(* The inductive invariant. *)

MetaInv ==
    /\ TypeI
    /\ IdsBelowNext
    /\ Tree(DOMAIN inodes, Dirs, dentries)
    /\ LayoutsInSync
    /\ ExtentsDisjoint

\* The constructor makes a root directory without entries.
LEMMA MetaInvInit == Init => MetaInv
<1> SUFFICES ASSUME Init PROVE MetaInv
    OBVIOUS
<1>1. DOMAIN inodes = {Root} /\ DOMAIN dentries = {} /\ DOMAIN layouts = {}
    BY DEF Init
<1>2. TypeI
    <2>1. inodes \in [{Root} -> AttrsI]
        BY MetaStateAssumption DEF Init, AttrsI
    <2>2. dentries \in [{} -> Nat] /\ layouts \in [{} -> LayoutI]
        BY DEF Init
    <2> QED BY <1>1, <2>1, <2>2 DEF TypeI, Init, Root, Kinds
<1>3. IdsBelowNext
    BY <1>1 DEF Init, IdsBelowNext, Root
<1>4. Dirs = {Root}
    BY <1>1 DEF Init, Dirs, IsDir
<1>5. Tree(DOMAIN inodes, Dirs, dentries)
    BY <1>1, <1>4 DEF Tree, Linked, RootedIn
<1>6. LayoutsInSync /\ ExtentsDisjoint
    BY <1>1 DEF Init, LayoutsInSync, ExtentsDisjoint, IsFile
<1> QED BY <1>2, <1>3, <1>5, <1>6 DEF MetaInv

\* A new inode table over the same inodes, with the same types and entries.
LEMMA SameTree ==
    ASSUME MetaInv, DOMAIN inodes' = DOMAIN inodes, dentries' = dentries,
           \A j \in DOMAIN inodes : inodes'[j].type = inodes[j].type
    PROVE  Tree(DOMAIN inodes, Dirs, dentries)' /\ Dirs' = Dirs
<1>1. Dirs' = Dirs
    BY DEF Dirs, IsDir
<1> QED BY <1>1 DEF MetaInv

\* A successful call that checks its parent got a directory and a good name.
LEMMA ParentOk ==
    ASSUME NEW p, NEW n, ParentError(p, n) = "Ok"
    PROVE  n \in Names /\ p \in Dirs /\ p \in DOMAIN inodes
BY DEF ParentError, Dirs

\* mkdir and create.
LEMMA CreateStep ==
    ASSUME MetaInv, NEW p \in InodeIds, NEW n \in AnyName, NEW mode \in Modes,
           NEW type \in {"Directory", "File"}, CreateNode(p, n, type, mode)
    PROVE  MetaInv'
<1> DEFINE new == next_inode_id
           parents == IF type = "Directory" THEN AddLink(TouchInode(inodes, p), p, 1)
                                            ELSE TouchInode(inodes, p)
<1>1. n \in Names /\ p \in Dirs /\ p \in DOMAIN inodes /\ <<p, n>> \notin DOMAIN dentries
    BY ParentOk DEF CreateNode, CreateError
<1>2. new \in Nat /\ new \notin DOMAIN inodes
    BY DEF MetaInv, TypeI, IdsBelowNext
<1>3. /\ parents \in [DOMAIN inodes -> AttrsI]
      /\ DOMAIN parents = DOMAIN inodes
      /\ \A j \in DOMAIN inodes : j # p => parents[j] = inodes[j]
      /\ \A j \in DOMAIN inodes : parents[j].type = inodes[j].type
    <2> DEFINE T == TouchInode(inodes, p)
    <2>1. /\ T \in [DOMAIN inodes -> AttrsI] /\ DOMAIN T = DOMAIN inodes
          /\ \A j \in DOMAIN inodes : j # p => T[j] = inodes[j]
          /\ \A j \in DOMAIN inodes : T[j].type = inodes[j].type
        BY <1>1, TouchIs DEF MetaInv, TypeI
    <2> HIDE DEF T
    <2>2. /\ AddLink(T, p, 1) \in [DOMAIN T -> AttrsI] /\ DOMAIN AddLink(T, p, 1) = DOMAIN T
          /\ \A j \in DOMAIN T : j # p => AddLink(T, p, 1)[j] = T[j]
          /\ \A j \in DOMAIN T : AddLink(T, p, 1)[j].type = T[j].type
        BY <1>1, <2>1, LinkIs
    <2>3. parents = IF type = "Directory" THEN AddLink(T, p, 1) ELSE T
        BY DEF T
    <2> QED BY <2>1, <2>2, <2>3
<1>4. NewAttrs(type, mode) \in AttrsI /\ NewAttrs(type, mode).type = type
    BY DEF NewAttrs, AttrsI
<1>5. inodes' = Emplace(parents, new, NewAttrs(type, mode))
    BY DEF CreateNode
<1> HIDE DEF parents
<1>6. /\ inodes' \in [DOMAIN inodes' -> AttrsI]
      /\ DOMAIN inodes' = DOMAIN inodes \cup {new}
      /\ inodes'[new] = NewAttrs(type, mode)
      /\ \A j \in DOMAIN inodes : inodes'[j] = parents[j]
    BY <1>2, <1>3, <1>4, <1>5 DEF Emplace
<1>7. Dirs' = IF type = "Directory" THEN Dirs \cup {new} ELSE Dirs
    BY <1>2, <1>3, <1>4, <1>6 DEF Dirs, IsDir
<1>8. dentries' = Emplace(dentries, <<p, n>>, new)
    BY DEF CreateNode
<1>9. Tree(DOMAIN inodes, Dirs, dentries)'
    <2>1. Tree(DOMAIN inodes \cup {new}, Dirs', Emplace(dentries, <<p, n>>, new))
        BY <1>1, <1>2, <1>7, CreateTree DEF MetaInv
    <2> QED BY <1>6, <1>8, <2>1
<1>10. /\ dentries' \in [DOMAIN dentries' -> Nat]
       /\ DOMAIN dentries' \subseteq Nat \X Names
    BY <1>1, <1>2, <1>8 DEF MetaInv, TypeI, Emplace
<1>11. ~(p \in DOMAIN layouts) /\ new \notin DOMAIN layouts
    BY <1>1, <1>2 DEF MetaInv, LayoutsInSync, Dirs, IsDir, IsFile
<1>12. /\ layouts' \in [DOMAIN layouts' -> LayoutI]
       /\ LayoutsInSync' /\ ExtentsDisjoint'
    <2>1. CASE type = "Directory"
        <3>1. layouts' = layouts
            BY <2>1 DEF CreateNode
        <3>2. \A j \in DOMAIN layouts : inodes'[j] = inodes[j]
            BY <1>3, <1>6, <1>11 DEF MetaInv, LayoutsInSync
        <3>3. {i \in DOMAIN inodes' : inodes'[i].type = "File"} = {i \in DOMAIN inodes : IsFile(i)}
            BY <1>3, <1>4, <1>6, <2>1 DEF IsFile
        <3> QED BY <3>1, <3>2, <3>3 DEF MetaInv, TypeI, LayoutsInSync, ExtentsDisjoint, IsFile
    <2>2. CASE type = "File"
        <3>0. layouts' = Emplace(layouts, new, [attrs |-> NewAttrs(type, mode), extents |-> {}])
            BY <2>2 DEF CreateNode
        <3>1. /\ DOMAIN layouts' = DOMAIN layouts \cup {new}
              /\ layouts'[new] = [attrs |-> NewAttrs(type, mode), extents |-> {}]
              /\ \A j \in DOMAIN layouts : layouts'[j] = layouts[j]
            BY <1>11, <3>0 DEF Emplace
        <3>2. \A j \in DOMAIN layouts : inodes'[j] = inodes[j]
            BY <1>3, <1>6, <1>11 DEF MetaInv, LayoutsInSync
        <3>3. {i \in DOMAIN inodes' : inodes'[i].type = "File"} =
                  {i \in DOMAIN inodes : IsFile(i)} \cup {new}
            BY <1>3, <1>4, <1>6, <2>2 DEF IsFile
        <3>4. layouts' \in [DOMAIN layouts' -> LayoutI]
            BY <1>4, <3>0, <3>1 DEF MetaInv, TypeI, LayoutI, Emplace
        <3>5. LayoutsInSync'
            BY <1>6, <3>1, <3>2, <3>3 DEF MetaInv, LayoutsInSync, IsFile
        <3>6. ExtentsDisjoint'
            BY <3>1 DEF MetaInv, ExtentsDisjoint, Disjoint
        <3> QED BY <3>4, <3>5, <3>6
    <2> QED BY <2>1, <2>2
<1>13. TypeI'
    <2>1. result' = "Ok" /\ next_inode_id' = new + 1
        BY DEF CreateNode
    <2>2. Root \in DOMAIN inodes /\ DOMAIN inodes \subseteq Nat
        BY DEF MetaInv, TypeI
    <2> QED BY <1>2, <1>6, <1>10, <1>12, <2>1, <2>2 DEF TypeI, Kinds
<1>14. IdsBelowNext'
    <2>1. next_inode_id' = new + 1 /\ \A j \in DOMAIN inodes : j < new /\ j \in Nat
        BY DEF CreateNode, MetaInv, TypeI, IdsBelowNext
    <2> QED BY <1>2, <1>6, <2>1 DEF IdsBelowNext
<1> QED BY <1>9, <1>12, <1>13, <1>14 DEF MetaInv
-----------------------------------------------------------------------------
(* unlink, rmdir and rename. *)

\* The table w is ino without i, with only the attributes of p changed.
WithoutInode(w, ino, p, i) ==
    /\ w \in [DOMAIN ino \ {i} -> AttrsI]
    /\ DOMAIN w = DOMAIN ino \ {i}
    /\ \A j \in DOMAIN ino \ {i} : j # p => w[j] = ino[j]
    /\ \A j \in DOMAIN ino \ {i} : w[j].type = ino[j].type
    /\ w[p].nlink = IF ino[i].type = "Directory" THEN ino[p].nlink - 1 ELSE ino[p].nlink

\* RemoveNode's effect on the inode table.
LEMMA InodesWithoutIs ==
    ASSUME NEW ino, ino \in [DOMAIN ino -> AttrsI], NEW i \in DOMAIN ino,
           NEW p \in DOMAIN ino, p # i
    PROVE  WithoutInode(InodesWithout(ino, p, i), ino, p, i)
<1> DEFINE E == Erase(ino, i)
           T == TouchInode(E, p)
           L == AddLink(T, p, -1)
<1>1. /\ E \in [DOMAIN E -> AttrsI] /\ DOMAIN E = DOMAIN ino \ {i}
      /\ \A j \in DOMAIN ino \ {i} : E[j] = ino[j]
    BY DEF Erase
<1> HIDE DEF E
<1>2. /\ T \in [DOMAIN E -> AttrsI] /\ DOMAIN T = DOMAIN E
      /\ \A j \in DOMAIN E : j # p => T[j] = E[j]
      /\ \A j \in DOMAIN E : T[j].type = E[j].type /\ T[j].nlink = E[j].nlink
    BY <1>1, TouchIs
<1> HIDE DEF T
<1>3. /\ L \in [DOMAIN T -> AttrsI] /\ DOMAIN L = DOMAIN T
      /\ \A j \in DOMAIN T : j # p => L[j] = T[j]
      /\ \A j \in DOMAIN T : L[j].type = T[j].type
      /\ L[p].nlink = T[p].nlink + (-1)
    BY <1>1, <1>2, LinkIs
<1> HIDE DEF L
<1>4. InodesWithout(ino, p, i) = IF ino[i].type = "Directory" THEN L ELSE T
    BY DEF InodesWithout, L, T, E
<1>5. E[p].nlink \in Int
    BY <1>1 DEF AttrsI
<1>6. WithoutInode(IF ino[i].type = "Directory" THEN L ELSE T, ino, p, i)
    BY <1>1, <1>2, <1>3, <1>5 DEF WithoutInode
<1> QED BY <1>4, <1>6

\* The table w is lay without i.
WithoutLayout(w, lay, i) ==
    /\ DOMAIN w = DOMAIN lay \ {i}
    /\ \A j \in DOMAIN lay \ {i} : w[j] = lay[j]
    /\ w \in [DOMAIN lay \ {i} -> LayoutI]

\* RemoveNode's effect on the layouts; the parent has none.
LEMMA LayoutsWithoutIs ==
    ASSUME NEW lay, lay \in [DOMAIN lay -> LayoutI], NEW ino, NEW p, NEW i, ~(p \in DOMAIN lay)
    PROVE  WithoutLayout(LayoutsWithout(lay, ino, p, i), lay, i)
BY DEF LayoutsWithout, SyncAttrs, Erase, WithoutLayout

\* The layouts lay belong to the inode table ino over the inodes D.
InStep(D, ino, lay) ==
    /\ ino \in [D -> AttrsI] /\ DOMAIN ino = D
    /\ lay \in [DOMAIN lay -> LayoutI]
    /\ DOMAIN lay = {j \in D : ino[j].type = "File"}
    /\ \A j \in DOMAIN lay : lay[j].attrs = ino[j] /\ Disjoint(lay[j].extents)

\* The state, with inode tables ino and lay, once the entry <<p, n>> of the
\* childless inode i is taken out.
Removed(p, n, i, ino, lay) ==
    /\ i \in DOMAIN inodes /\ i # Root /\ p # i /\ p \in Dirs /\ p \in DOMAIN inodes
    /\ WithoutInode(ino, inodes, p, i)
    /\ Tree(DOMAIN inodes \ {i}, Dirs \ {i}, Erase(dentries, <<p, n>>))
    /\ \A j \in DOMAIN inodes \ {i} :
           ParentIn(Erase(dentries, <<p, n>>), j) = ParentIn(dentries, j)
    /\ InStep(DOMAIN inodes \ {i}, ino, lay)

\* What RemoveNode does for Unlink, Rmdir and the replacing half of Rename.
LEMMA RemovedIs ==
    ASSUME MetaInv, NEW p, NEW n, <<p, n>> \in DOMAIN dentries,
           NEW i, i = dentries[<<p, n>>], IsDirectoryEmpty(i)
    PROVE  Removed(p, n, i, InodesWithout(inodes, p, i), LayoutsWithout(layouts, inodes, p, i))
<1> DEFINE ino == InodesWithout(inodes, p, i)
           lay == LayoutsWithout(layouts, inodes, p, i)
<1>1. /\ i \in DOMAIN inodes /\ i # Root /\ p \in Dirs
      /\ \A k \in DOMAIN dentries : k[1] # i
    BY DEF MetaInv, Tree, Linked, IsDirectoryEmpty
<1>2. p # i /\ p \in DOMAIN inodes
    <2>1. <<p, n>>[1] # i
        BY <1>1
    <2> QED BY <1>1, <2>1 DEF Dirs
<1>3. inodes \in [DOMAIN inodes -> AttrsI] /\ layouts \in [DOMAIN layouts -> LayoutI]
    BY DEF MetaInv, TypeI
<1>4. WithoutInode(ino, inodes, p, i)
    BY <1>1, <1>2, <1>3, InodesWithoutIs
<1>5. /\ Tree(DOMAIN inodes \ {i}, Dirs \ {i}, Erase(dentries, <<p, n>>))
      /\ \A j \in DOMAIN inodes \ {i} :
             ParentIn(Erase(dentries, <<p, n>>), j) = ParentIn(dentries, j)
    BY <1>1, RemoveTree DEF MetaInv
<1>6. p \notin DOMAIN layouts
    BY <1>1 DEF MetaInv, LayoutsInSync, Dirs, IsDir, IsFile
<1>7. WithoutLayout(lay, layouts, i)
    BY <1>3, <1>6, LayoutsWithoutIs
<1> HIDE DEF ino, lay
<1>8. lay \in [DOMAIN lay -> LayoutI]
    BY <1>7 DEF WithoutLayout
<1>9. DOMAIN lay = {j \in DOMAIN ino : ino[j].type = "File"}
    BY <1>4, <1>7 DEF MetaInv, LayoutsInSync, IsFile, WithoutInode, WithoutLayout
<1>10. \A j \in DOMAIN lay : lay[j].attrs = ino[j] /\ Disjoint(lay[j].extents)
    BY <1>4, <1>6, <1>7, <1>9
       DEF MetaInv, LayoutsInSync, ExtentsDisjoint, WithoutInode, WithoutLayout
<1>11. InStep(DOMAIN inodes \ {i}, ino, lay)
    BY <1>4, <1>8, <1>9, <1>10 DEF InStep, WithoutInode
<1>12. Removed(p, n, i, ino, lay)
    BY <1>1, <1>2, <1>4, <1>5, <1>11 DEF Removed
<1> QED BY <1>12 DEF ino, lay

\* What is left to check of a step, once its effects are known.
LEMMA StepOk ==
    ASSUME MetaInv, result' \in Kinds, next_inode_id' = next_inode_id,
           NEW D, D \subseteq DOMAIN inodes, Root \in D,
           InStep(D, inodes', layouts'),
           \A j \in D : inodes'[j].type = inodes[j].type,
           Tree(D, Dirs \cap D, dentries'),
           dentries' \in [DOMAIN dentries' -> Nat], DOMAIN dentries' \subseteq Nat \X Names
    PROVE  MetaInv'
<1>1. TypeI'
    <2>1. DOMAIN inodes \subseteq Nat /\ next_inode_id \in Nat
        BY DEF MetaInv, TypeI
    <2> QED BY <2>1 DEF TypeI, InStep
<1>2. IdsBelowNext'
    BY DEF MetaInv, IdsBelowNext, InStep
<1>0. DOMAIN inodes' = D
    BY DEF InStep
<1>3. Dirs' = Dirs \cap D
    BY <1>0 DEF Dirs, IsDir
<1>4. Tree(DOMAIN inodes, Dirs, dentries)'
    BY <1>0, <1>3
<1>5. LayoutsInSync' /\ ExtentsDisjoint'
    BY DEF LayoutsInSync, ExtentsDisjoint, IsFile, InStep
<1> QED BY <1>1, <1>2, <1>4, <1>5 DEF MetaInv

\* unlink and rmdir.
LEMMA RemoveStep ==
    ASSUME MetaInv, NEW p, NEW n, <<p, n>> \in DOMAIN dentries,
           IsDirectoryEmpty(dentries[<<p, n>>]), RemoveNode(p, n)
    PROVE  MetaInv'
<1>1. PICK i : i = dentries[<<p, n>>]
    OBVIOUS
<1>2. /\ inodes' = InodesWithout(inodes, p, i)
      /\ layouts' = LayoutsWithout(layouts, inodes, p, i)
      /\ dentries' = Erase(dentries, <<p, n>>)
      /\ result' = "Ok" /\ next_inode_id' = next_inode_id
    BY <1>1 DEF RemoveNode
<1>3. Removed(p, n, i, inodes', layouts')
    BY <1>1, <1>2, RemovedIs
<1>4. dentries' \in [DOMAIN dentries' -> Nat] /\ DOMAIN dentries' \subseteq Nat \X Names
    BY <1>2 DEF MetaInv, TypeI, Erase
<1>5. Dirs \ {i} = Dirs \cap (DOMAIN inodes \ {i})
    BY DEF Dirs
<1>6. Root \in DOMAIN inodes \ {i}
    BY <1>3 DEF MetaInv, TypeI, Removed
<1>7. /\ InStep(DOMAIN inodes \ {i}, inodes', layouts')
      /\ \A j \in DOMAIN inodes \ {i} : inodes'[j].type = inodes[j].type
      /\ Tree(DOMAIN inodes \ {i}, Dirs \cap (DOMAIN inodes \ {i}), dentries')
    BY <1>2, <1>3, <1>5 DEF Removed, WithoutInode
<1> QED BY <1>2, <1>4, <1>6, <1>7, StepOk DEF Kinds

\* The table w is ino with other attributes, but not types, for members of X.
Retouched(w, ino, X) ==
    /\ w \in [DOMAIN ino -> AttrsI] /\ DOMAIN w = DOMAIN ino
    /\ \A j \in DOMAIN ino : w[j].type = ino[j].type
    /\ \A j \in DOMAIN ino : j \notin X => w[j] = ino[j]

\* TouchInode is such a change, and so is AddLink, and changes add up.
LEMMA TouchRetouches ==
    ASSUME NEW ino, NEW w, NEW X, Retouched(w, ino, X),
           NEW i \in X, i \in DOMAIN ino, NEW d \in Int
    PROVE  Retouched(TouchInode(w, i), ino, X) /\ Retouched(AddLink(w, i, d), ino, X)
<1>0. w \in [DOMAIN w -> AttrsI] /\ i \in DOMAIN w
    BY DEF Retouched
<1> DEFINE T == TouchInode(w, i)
           A == AddLink(w, i, d)
<1>1. /\ T \in [DOMAIN w -> AttrsI] /\ DOMAIN T = DOMAIN w
      /\ \A j \in DOMAIN w : j # i => T[j] = w[j]
      /\ \A j \in DOMAIN w : T[j].type = w[j].type
    BY <1>0, TouchIs
<1>2. /\ A \in [DOMAIN w -> AttrsI] /\ DOMAIN A = DOMAIN w
      /\ \A j \in DOMAIN w : j # i => A[j] = w[j]
      /\ \A j \in DOMAIN w : A[j].type = w[j].type
    BY <1>0, LinkIs
<1> HIDE DEF T, A
<1>3. Retouched(T, ino, X)
    BY <1>1 DEF Retouched
<1>4. Retouched(A, ino, X)
    BY <1>2 DEF Retouched
<1> QED BY <1>3, <1>4 DEF T, A

\* Rename changes the attributes of the moved inode and of the two parents.
LEMMA InodesMovedIs ==
    ASSUME NEW ino, ino \in [DOMAIN ino -> AttrsI],
           NEW p \in DOMAIN ino, NEW q \in DOMAIN ino, NEW v \in DOMAIN ino
    PROVE  Retouched(InodesMoved(ino, p, q, v), ino, {p, q, v})
<1> DEFINE X == {p, q, v}
           R(w) == Retouched(w, ino, X)
           a == TouchInode(ino, p)
           b == TouchInode(a, q)
           t == IF p = q THEN a ELSE b
           c == AddLink(t, p, -1)
           e == AddLink(c, q, 1)
           l == IF p # q /\ ino[v].type = "Directory" THEN e ELSE t
<1>0. p \in X /\ q \in X /\ v \in X
    OBVIOUS
<1>1. R(ino)
    BY DEF Retouched
<1>2. InodesMoved(ino, p, q, v) = TouchInode(l, v)
    BY DEF InodesMoved
<1> HIDE DEF X
<1>3. 0 \in Int /\ -1 \in Int /\ 1 \in Int
    OBVIOUS
<1>4. R(a)
    BY <1>0, <1>1, <1>3, TouchRetouches
<1>5. R(b)
    BY <1>0, <1>3, <1>4, TouchRetouches
<1> HIDE DEF a, b
<1>6. R(t)
    BY <1>4, <1>5
<1> HIDE DEF t
<1>7. R(c)
    BY <1>0, <1>3, <1>6, TouchRetouches
<1> HIDE DEF c
<1>8. R(e)
    BY <1>0, <1>3, <1>7, TouchRetouches
<1> HIDE DEF e
<1>9. R(l)
    BY <1>6, <1>8
<1> HIDE DEF l
<1>10. R(TouchInode(l, v))
    BY <1>0, <1>3, <1>9, TouchRetouches
<1> QED BY <1>2, <1>10 DEF X

\* SyncAttrs for an inode repairs what a change of its attributes broke.
LEMMA SyncIs ==
    ASSUME NEW D, NEW ino, NEW lay, InStep(D, ino, lay),
           NEW w, NEW X, Retouched(w, ino, X), NEW v \in D,
           \A j \in X : j = v \/ j \notin DOMAIN lay
    PROVE  InStep(D, w, SyncAttrs(lay, w, v))
<1>1. w \in [D -> AttrsI] /\ DOMAIN w = D /\ \A j \in D : w[j].type = ino[j].type
    BY DEF InStep, Retouched
<1>2. \A j \in DOMAIN lay : j # v => lay[j].attrs = w[j]
    BY DEF InStep, Retouched
<1>3. CASE v \notin DOMAIN lay
    <2>1. SyncAttrs(lay, w, v) = lay
        BY <1>3 DEF SyncAttrs
    <2>2. InStep(D, w, lay)
        BY <1>1, <1>2, <1>3 DEF InStep
    <2> QED BY <2>1, <2>2
<1>4. CASE v \in DOMAIN lay
    <2> DEFINE s == SyncAttrs(lay, w, v)
    <2>0. lay[v] \in LayoutI /\ w[v] \in AttrsI
        BY <1>1, <1>4 DEF InStep
    <2>1. s = [lay EXCEPT ![v] = [lay[v] EXCEPT !.attrs = w[v]]]
        BY <1>4 DEF SyncAttrs
    <2>2. /\ [lay[v] EXCEPT !.attrs = w[v]] \in LayoutI
          /\ [lay[v] EXCEPT !.attrs = w[v]].attrs = w[v]
          /\ [lay[v] EXCEPT !.attrs = w[v]].extents = lay[v].extents
        BY <2>0 DEF LayoutI
    <2> HIDE DEF s
    <2>3. /\ DOMAIN s = DOMAIN lay /\ s \in [DOMAIN lay -> LayoutI]
          /\ \A j \in DOMAIN lay : j # v => s[j] = lay[j]
          /\ s[v].attrs = w[v] /\ s[v].extents = lay[v].extents
        BY <1>4, <2>1, <2>2 DEF InStep
    <2>4. InStep(D, w, s)
        BY <1>1, <1>2, <2>3 DEF InStep
    <2> QED BY <2>4 DEF s
<1> QED BY <1>3, <1>4

\* rename, once it is known which inodes D, inode table ino and layouts lay
\* are left when a replaced entry has been taken out.
LEMMA MovedOk ==
    ASSUME MetaInv, result' = "Ok", next_inode_id' = next_inode_id,
           NEW D, D \subseteq DOMAIN inodes, Root \in D,
           NEW ino, NEW lay, InStep(D, ino, lay),
           \A j \in D : ino[j].type = inodes[j].type,
           Tree(D, Dirs \cap D, dentries'),
           dentries' \in [DOMAIN dentries' -> Nat], DOMAIN dentries' \subseteq Nat \X Names,
           NEW p \in D, NEW q \in D, NEW v \in D, p \in Dirs, q \in Dirs,
           inodes' = InodesMoved(ino, p, q, v),
           layouts' = SyncAttrs(SyncAttrs(SyncAttrs(lay, inodes', p), inodes', q), inodes', v)
    PROVE  MetaInv'
<1>1. ino \in [D -> AttrsI] /\ DOMAIN ino = D
    BY DEF InStep
<1>2. Retouched(inodes', ino, {p, q, v})
    BY <1>1, InodesMovedIs
<1>3. p \notin DOMAIN lay /\ q \notin DOMAIN lay
    BY DEF InStep, Dirs, IsDir
<1>4. layouts' = SyncAttrs(lay, inodes', v)
    BY <1>3 DEF SyncAttrs
<1>5. InStep(D, inodes', layouts')
    <2>1. \A j \in {p, q, v} : j = v \/ j \notin DOMAIN lay
        BY <1>3
    <2>2. InStep(D, inodes', SyncAttrs(lay, inodes', v))
        BY <1>2, <2>1, SyncIs
    <2> QED BY <1>4, <2>2
<1>6. \A j \in D : inodes'[j].type = inodes[j].type
    BY <1>1, <1>2 DEF Retouched
<1> QED BY <1>5, <1>6, StepOk DEF Kinds

\* A set that the walk of IsAncestor from q stays in and that misses v: what
\* the check of Rename establishes.
Avoids(U, q, v) ==
    /\ U \in SUBSET DOMAIN inodes /\ q \in U /\ v \notin U
    /\ \A j \in U : ParentIn(dentries, j) \in U

\* A rename that is not refused has such a set.
LEMMA AvoidsExists ==
    ASSUME MetaInv, NEW q \in Dirs, NEW v \in DOMAIN inodes, ~(IsDir(v) /\ IsAncestor(v, q))
    PROVE  \E U : Avoids(U, q, v)
<1>1. \A j : ParentOf(j) = ParentIn(dentries, j)
    BY DEF ParentOf, ParentIn
<1>2. CASE IsDir(v)
    <2>1. PICK S \in SUBSET DOMAIN inodes :
              (q \in S /\ \A j \in S : ParentOf(j) \in S) /\ v \notin S
        BY <1>2 DEF IsAncestor
    <2> QED BY <1>1, <2>1 DEF Avoids
<1>3. CASE ~IsDir(v)
    <2>1. v \notin Dirs /\ Dirs \subseteq DOMAIN inodes
        BY <1>3 DEF Dirs
    <2>2. Linked(DOMAIN inodes, Dirs, dentries)
        BY DEF MetaInv, Tree
    <2>3. \A j \in DOMAIN inodes : ParentIn(dentries, j) \in Dirs
        BY <2>2, ParentIs
    <2>4. Avoids(DOMAIN inodes \ {v}, q, v)
        BY <2>1, <2>3 DEF Avoids
    <2> QED BY <2>4
<1> QED BY <1>2, <1>3

\* rename.
LEMMA MoveStep ==
    ASSUME MetaInv, NEW p, NEW n, NEW q, NEW m, RenameError(p, n, q, m) = "Ok",
           ~(<<q, m>> \in DOMAIN dentries /\ dentries[<<q, m>>] = dentries[<<p, n>>]),
           MoveEntry(p, n, q, m)
    PROVE  MetaInv'
<1>1. PICK v : v = dentries[<<p, n>>]
    OBVIOUS
<1>2. /\ ParentError(p, n) = "Ok" /\ ParentError(q, m) = "Ok" /\ <<p, n>> \in DOMAIN dentries
      /\ ~(IsDir(v) /\ IsAncestor(v, q))
      /\ <<q, m>> \in DOMAIN dentries => TargetError(v, dentries[<<q, m>>]) = "Ok"
    BY <1>1 DEF RenameError
<1>3. /\ p \in Dirs /\ q \in Dirs /\ m \in Names /\ q \in Nat
      /\ p \in DOMAIN inodes /\ q \in DOMAIN inodes
    BY <1>2, ParentOk DEF MetaInv, TypeI
<1>4. v \in DOMAIN inodes /\ v # Root /\ v \in Nat
    BY <1>1, <1>2 DEF MetaInv, Tree, Linked, TypeI
<1>5. /\ result' = "Ok" /\ next_inode_id' = next_inode_id
      /\ dentries' = Emplace(Erase(dentries, <<p, n>>), <<q, m>>, v)
    BY <1>1 DEF MoveEntry
<1>6. dentries' \in [DOMAIN dentries' -> Nat] /\ DOMAIN dentries' \subseteq Nat \X Names
    BY <1>3, <1>4, <1>5 DEF MetaInv, TypeI, Emplace, Erase
<1>7. PICK U : Avoids(U, q, v)
    BY <1>2, <1>3, <1>4, AvoidsExists
<1>8. Root \in DOMAIN inodes /\ Tree(DOMAIN inodes, Dirs, dentries)
    BY DEF MetaInv, TypeI
<1>9. CASE <<q, m>> \notin DOMAIN dentries
    <2>1. /\ inodes' = InodesMoved(inodes, p, q, v)
          /\ layouts' = SyncAttrs(SyncAttrs(SyncAttrs(layouts, inodes', p), inodes', q), inodes', v)
        BY <1>1, <1>9 DEF MoveEntry
    <2>2. Tree(DOMAIN inodes, Dirs, dentries')
        <3> DEFINE l == <<q, m>>
                   k == <<p, n>>
        <3>1. l[1] \in Dirs /\ l[1] \in U /\ dentries[k] \notin U /\ U \in SUBSET DOMAIN inodes
              /\ \A j \in U : ParentIn(dentries, j) \in U
            BY <1>1, <1>3, <1>7 DEF Avoids
        <3>2. k \in DOMAIN dentries /\ l \notin DOMAIN dentries
            BY <1>2, <1>9
        <3>3. dentries' = Emplace(Erase(dentries, k), l, dentries[k])
            BY <1>1, <1>5
        <3> HIDE DEF l, k
        <3> QED BY <1>8, <3>1, <3>2, <3>3, MoveTree
    <2>3. InStep(DOMAIN inodes, inodes, layouts)
        BY DEF MetaInv, TypeI, InStep, LayoutsInSync, ExtentsDisjoint, IsFile
    <2>4. Dirs \cap DOMAIN inodes = Dirs
        BY DEF Dirs
    <2> QED BY <1>3, <1>4, <1>5, <1>6, <1>8, <2>1, <2>2, <2>3, <2>4, MovedOk
<1>10. CASE <<q, m>> \in DOMAIN dentries
    <2>1. PICK t : t = dentries[<<q, m>>]
        OBVIOUS
    <2>2. t # v /\ TargetError(v, t) = "Ok"
        BY <1>1, <1>2, <1>10, <2>1
    <2>3. IsDirectoryEmpty(t)
        <3>1. CASE t \in Dirs
            BY <2>2, <3>1 DEF TargetError, Dirs
        <3>2. CASE t \notin Dirs
            BY <1>8, <3>2 DEF Tree, Linked, IsDirectoryEmpty
        <3> QED BY <3>1, <3>2
    <2> DEFINE ino == InodesWithout(inodes, q, t)
               lay == LayoutsWithout(layouts, inodes, q, t)
               d == Erase(dentries, <<q, m>>)
               D == DOMAIN inodes \ {t}
    <2>4. Removed(q, m, t, ino, lay)
        BY <1>10, <2>1, <2>3, RemovedIs
    <2>5. /\ inodes' = InodesMoved(ino, p, q, v)
          /\ layouts' = SyncAttrs(SyncAttrs(SyncAttrs(lay, inodes', p), inodes', q), inodes', v)
        BY <1>1, <1>10, <2>1 DEF MoveEntry
    <2> HIDE DEF ino, lay
    <2>6. /\ t \in DOMAIN inodes /\ t # Root /\ q # t
          /\ Tree(D, Dirs \ {t}, d)
          /\ \A j \in D : ParentIn(d, j) = ParentIn(dentries, j)
          /\ InStep(D, ino, lay)
          /\ \A j \in D : ino[j].type = inodes[j].type
        BY <2>4 DEF Removed, WithoutInode
    <2>7. p # t
        <3>1. <<p, n>>[1] # t
            BY <1>2, <2>3 DEF IsDirectoryEmpty
        <3> QED BY <3>1
    <2>8. Tree(D, Dirs \ {t}, dentries')
        <3> DEFINE l == <<q, m>>
                   k == <<p, n>>
                   W == U \ {t}
        <3>1. k # l
            BY <1>1, <2>1, <2>2
        <3>2. k \in DOMAIN d /\ l \notin DOMAIN d /\ d[k] = v
            BY <1>1, <1>2, <3>1 DEF Erase
        <3>3. \A j \in D : ParentIn(d, j) \in Dirs \ {t}
            BY <2>6, ParentIs DEF Tree
        <3>4. /\ l[1] \in Dirs \ {t} /\ l[1] \in W /\ v \notin W /\ W \in SUBSET D
              /\ \A j \in W : ParentIn(d, j) \in W
            BY <1>3, <1>7, <2>6, <3>3 DEF Avoids
        <3>5. dentries' = Emplace(Erase(d, k), l, v)
            BY <1>5, <3>1 DEF Emplace, Erase
        <3> HIDE DEF l, k, W, d, D
        <3> QED BY <2>6, <3>2, <3>4, <3>5, MoveTree
    <2>9. Dirs \cap D = Dirs \ {t} /\ Root \in D /\ D \subseteq DOMAIN inodes
        BY <1>8, <2>6 DEF Dirs
    <2>10. p \in D /\ q \in D /\ v \in D
        BY <1>3, <1>4, <2>2, <2>6, <2>7
    <2> HIDE DEF d, D
    <2> QED BY <1>3, <1>5, <1>6, <2>5, <2>6, <2>8, <2>9, <2>10, MovedOk
<1> QED BY <1>9, <1>10
-----------------------------------------------------------------------------
(* setattr, the two writes and truncate: the namespace stays as it is. *)

\* MetaInv puts the layouts in step with the inodes.
LEMMA NowInStep ==
    ASSUME MetaInv
    PROVE  InStep(DOMAIN inodes, inodes, layouts)
BY DEF MetaInv, TypeI, InStep, LayoutsInSync, ExtentsDisjoint, IsFile

\* A step that leaves the entries and the types alone has only to keep the
\* layouts in step.
LEMMA FileStepOk ==
    ASSUME MetaInv, result' \in Kinds, UNCHANGED <<dentries, next_inode_id>>,
           NEW X, Retouched(inodes', inodes, X), InStep(DOMAIN inodes, inodes', layouts')
    PROVE  MetaInv'
<1>1. /\ Root \in DOMAIN inodes /\ Tree(DOMAIN inodes, Dirs, dentries)
      /\ dentries \in [DOMAIN dentries -> Nat] /\ DOMAIN dentries \subseteq Nat \X Names
    BY DEF MetaInv, TypeI
<1>2. Dirs \cap DOMAIN inodes = Dirs
    BY DEF Dirs
<1>3. \A j \in DOMAIN inodes : inodes'[j].type = inodes[j].type
    BY DEF Retouched
<1>4. dentries' = dentries /\ next_inode_id' = next_inode_id
    OBVIOUS
<1> QED BY <1>1, <1>2, <1>3, <1>4, StepOk

\* A layout given new extents.
LEMMA NewExtents ==
    ASSUME MetaInv, NEW w, NEW i \in DOMAIN layouts, Retouched(w, inodes, {i}),
           NEW es \in SUBSET Extent, Disjoint(es)
    PROVE  InStep(DOMAIN inodes, w, [layouts EXCEPT ![i] = [attrs |-> w[i], extents |-> es]])
<1> DEFINE new == [attrs |-> w[i], extents |-> es]
           lay == [layouts EXCEPT ![i] = new]
<1>1. InStep(DOMAIN inodes, inodes, layouts)
    BY NowInStep
<1>2. /\ w \in [DOMAIN inodes -> AttrsI] /\ DOMAIN w = DOMAIN inodes
      /\ \A j \in DOMAIN inodes : w[j].type = inodes[j].type
      /\ \A j \in DOMAIN inodes : j # i => w[j] = inodes[j]
    BY DEF Retouched
<1>3. i \in DOMAIN inodes
    BY <1>1 DEF InStep
<1>4. new \in LayoutI /\ new.attrs = w[i] /\ new.extents = es
    BY <1>2, <1>3 DEF LayoutI
<1> HIDE DEF new
<1>5. /\ DOMAIN lay = DOMAIN layouts /\ lay[i] = new
      /\ \A j \in DOMAIN layouts : j # i => lay[j] = layouts[j]
    OBVIOUS
<1>6. lay \in [DOMAIN layouts -> LayoutI]
    BY <1>1, <1>4 DEF InStep
<1> HIDE DEF lay
<1>7. InStep(DOMAIN inodes, w, lay)
    BY <1>1, <1>2, <1>4, <1>5, <1>6 DEF InStep
<1> QED BY <1>7 DEF lay, new

\* Nothing changed is a change too.
LEMMA SameRetouched ==
    ASSUME MetaInv, NEW X
    PROVE  Retouched(inodes, inodes, X)
BY DEF MetaInv, TypeI, Retouched

\* SetSize changes attributes of one inode.
LEMMA SetSizeIs ==
    ASSUME MetaInv, NEW i \in DOMAIN inodes, NEW size \in Nat
    PROVE  Retouched(SetSize(i, size), inodes, {i})
<1> DEFINE w == [inodes EXCEPT ![i].size = size]
<1>1. inodes[i] \in AttrsI /\ inodes \in [DOMAIN inodes -> AttrsI]
    BY DEF MetaInv, TypeI
<1>2. [inodes[i] EXCEPT !.size = size] \in AttrsI
    BY <1>1 DEF AttrsI
<1>3. Retouched(w, inodes, {i})
    BY <1>1, <1>2 DEF Retouched, AttrsI
<1> HIDE DEF w
<1>4. i \in {i} /\ 0 \in Int
    OBVIOUS
<1>5. Retouched(TouchInode(w, i), inodes, {i})
    BY <1>3, <1>4, TouchRetouches
<1> QED BY <1>5 DEF SetSize, w

\* setattr.
LEMMA SetAttrStep ==
    ASSUME MetaInv, NEW i \in DOMAIN inodes, NEW m \in Modes, result' = "Ok",
           inodes' = TouchInode([inodes EXCEPT ![i].mode = m], i),
           layouts' = SyncAttrs(layouts, inodes', i), UNCHANGED <<dentries, next_inode_id>>
    PROVE  MetaInv'
<1> DEFINE w == [inodes EXCEPT ![i].mode = m]
<1>1. inodes[i] \in AttrsI /\ inodes \in [DOMAIN inodes -> AttrsI]
    BY DEF MetaInv, TypeI
<1>2. [inodes[i] EXCEPT !.mode = m] \in AttrsI
    BY <1>1 DEF AttrsI
<1>3. Retouched(w, inodes, {i})
    BY <1>1, <1>2 DEF Retouched, AttrsI
<1> HIDE DEF w
<1>4. i \in {i} /\ 0 \in Int
    OBVIOUS
<1>5. Retouched(TouchInode(w, i), inodes, {i})
    BY <1>3, <1>4, TouchRetouches
<1>6. Retouched(inodes', inodes, {i})
    BY <1>5 DEF w
<1>7. \A j \in {i} : j = i \/ j \notin DOMAIN layouts
    OBVIOUS
<1>8. InStep(DOMAIN inodes, inodes', SyncAttrs(layouts, inodes', i))
    BY <1>6, <1>7, NowInStep, SyncIs
<1>9. result' \in Kinds
    BY DEF Kinds
<1> QED BY <1>6, <1>8, <1>9, FileStepOk

\* A file's calls pass their checks only for a file with a layout.
LEMMA FileOk ==
    ASSUME MetaInv, NEW i, FileError(i) = "Ok"
    PROVE  /\ i \in DOMAIN inodes /\ i \in DOMAIN layouts /\ inodes[i].size \in Nat
           /\ layouts[i].extents \in SUBSET Extent /\ Disjoint(layouts[i].extents)
<1>1. i \in DOMAIN inodes /\ i \in DOMAIN layouts
    BY DEF FileError
<1> QED BY <1>1 DEF MetaInv, TypeI, AttrsI, LayoutI, ExtentsDisjoint

\* The loop of the two writes, whether it ends or meets a malformed extent.
LEMMA MergeStep ==
    ASSUME MetaInv, NEW i, NEW es \in Seq(Extent), NEW size, MergeBatch(i, es, size),
           FileError(i) = "Ok" => size \in Nat
    PROVE  MetaInv'
<1> DEFINE n == AcceptedPrefix(es)
           merged == MergeFirst(layouts[i].extents, es, n)
<1>0. FileError(i) = "Ok" /\ UNCHANGED <<dentries, next_inode_id>>
    BY DEF MergeBatch
<1>1. /\ i \in DOMAIN inodes /\ i \in DOMAIN layouts
      /\ layouts[i].extents \in SUBSET Extent /\ Disjoint(layouts[i].extents)
    BY <1>0, FileOk
<1>2. n \in 0 .. Len(es)
    BY AcceptedPrefixIs
<1>3. merged \in SUBSET Extent /\ Disjoint(merged)
    <2> HIDE DEF n
    <2> QED BY <1>1, <1>2, MergeFirstSafe
<1>4. \/ /\ result' = "InvalidArgument" /\ inodes' = inodes
         /\ layouts' = [layouts EXCEPT ![i].extents = merged]
      \/ /\ result' = "Ok" /\ inodes' = SetSize(i, size)
         /\ layouts' = [layouts EXCEPT ![i] = [attrs |-> inodes'[i], extents |-> merged]]
    BY DEF MergeBatch
<1> HIDE DEF merged
<1>5. CASE /\ result' = "InvalidArgument" /\ inodes' = inodes
           /\ layouts' = [layouts EXCEPT ![i].extents = merged]
    <2>1. layouts[i] = [attrs |-> inodes[i], extents |-> layouts[i].extents]
        <3>1. layouts[i] \in LayoutI /\ layouts[i].attrs = inodes[i]
            BY <1>1 DEF MetaInv, TypeI, LayoutsInSync
        <3> QED BY <3>1 DEF LayoutI
    <2>2. [layouts[i] EXCEPT !.extents = merged] = [attrs |-> inodes[i], extents |-> merged]
        BY <2>1
    <2>3. layouts' = [layouts EXCEPT ![i] = [layouts[i] EXCEPT !.extents = merged]]
        BY <1>5
    <2>4. layouts' = [layouts EXCEPT ![i] = [attrs |-> inodes[i], extents |-> merged]]
        BY <2>2, <2>3
    <2>5. Retouched(inodes, inodes, {i})
        BY SameRetouched
    <2>6. InStep(DOMAIN inodes, inodes,
                 [layouts EXCEPT ![i] = [attrs |-> inodes[i], extents |-> merged]])
        BY <1>1, <1>3, <2>5, NewExtents
    <2>7. result' \in Kinds
        BY <1>5 DEF Kinds
    <2> QED BY <1>0, <1>5, <2>4, <2>5, <2>6, <2>7, FileStepOk
<1>6. CASE /\ result' = "Ok" /\ inodes' = SetSize(i, size)
           /\ layouts' = [layouts EXCEPT ![i] = [attrs |-> inodes'[i], extents |-> merged]]
    <2>1. Retouched(inodes', inodes, {i})
        BY <1>0, <1>1, <1>6, SetSizeIs
    <2>2. InStep(DOMAIN inodes, inodes', layouts')
        BY <1>1, <1>3, <1>6, <2>1, NewExtents
    <2>3. result' \in Kinds
        BY <1>6 DEF Kinds
    <2> QED BY <1>0, <2>1, <2>2, <2>3, FileStepOk
<1> QED BY <1>4, <1>5, <1>6

\* The two writes.
LEMMA WriteStep ==
    ASSUME MetaInv, NEW i, NEW es \in Seq(Extent),
           \/ MergeBatch(i, es, LargerOf(inodes[i].size, BatchEnd(es)))
           \/ MergeBatch(i, ShiftBatch(es, inodes[i].size), inodes[i].size + BatchEnd(es))
    PROVE  MetaInv'
<1>1. FileError(i) = "Ok"
    BY DEF MergeBatch
<1>2. inodes[i].size \in Nat
    BY <1>1, FileOk
<1>3. BatchEnd(es) \in Nat /\ ShiftBatch(es, inodes[i].size) \in Seq(Extent)
    BY <1>2, BatchEndIs, ShiftBatchIs
<1>4. /\ LargerOf(inodes[i].size, BatchEnd(es)) \in Nat
      /\ inodes[i].size + BatchEnd(es) \in Nat
    BY <1>2, <1>3 DEF LargerOf
<1> QED BY <1>3, <1>4, MergeStep

\* truncate.
LEMMA TruncateStep ==
    ASSUME MetaInv, NEW i, NEW size \in Nat, FileError(i) = "Ok", result' = "Ok",
           inodes' = SetSize(i, size),
           layouts' = [layouts EXCEPT ![i] =
                         [attrs |-> inodes'[i],
                          extents |-> TruncateExtents(layouts[i].extents, size)]],
           UNCHANGED <<dentries, next_inode_id>>
    PROVE  MetaInv'
<1> DEFINE cut == TruncateExtents(layouts[i].extents, size)
<1>1. /\ i \in DOMAIN inodes /\ i \in DOMAIN layouts
      /\ layouts[i].extents \in SUBSET Extent /\ Disjoint(layouts[i].extents)
    BY FileOk
<1>2. cut \in SUBSET Extent /\ Disjoint(cut)
    BY <1>1, TruncateIs, TruncateDisjoint
<1>3. Retouched(inodes', inodes, {i})
    BY <1>1, SetSizeIs
<1> HIDE DEF cut
<1>4. layouts' = [layouts EXCEPT ![i] = [attrs |-> inodes'[i], extents |-> cut]]
    BY DEF cut
<1>5. InStep(DOMAIN inodes, inodes', layouts')
    <2>1. InStep(DOMAIN inodes, inodes',
                 [layouts EXCEPT ![i] = [attrs |-> inodes'[i], extents |-> cut]])
        BY <1>1, <1>2, <1>3, NewExtents, Zenon
    <2> QED BY <1>4, <2>1, Zenon
<1>6. result' \in Kinds
    BY DEF Kinds
<1> QED BY <1>3, <1>5, <1>6, FileStepOk

\* A call that returns without touching the state.
LEMMA NoEffectStep ==
    ASSUME MetaInv, UNCHANGED state, result' \in Kinds
    PROVE  MetaInv'
<1>1. Retouched(inodes, inodes, {})
    BY SameRetouched
<1>2. inodes' = inodes /\ dentries' = dentries /\ layouts' = layouts
      /\ next_inode_id' = next_inode_id
    BY DEF state
<1> QED BY <1>1, <1>2, NowInStep, FileStepOk

\* Every error is one of the listed kinds.
LEMMA ErrorKinds ==
    ASSUME NEW p, NEW n, NEW q, NEW m
    PROVE  /\ CreateError(p, n) \in Kinds /\ UnlinkError(p, n) \in Kinds
           /\ RmdirError(p, n) \in Kinds /\ RenameError(p, n, q, m) \in Kinds
           /\ FileError(p) \in Kinds
<1>1. \A x, y : ParentError(x, y) \in Kinds
    BY DEF ParentError, Kinds
<1>2. \A x, y : EntryError(x, y) \in Kinds
    BY <1>1 DEF EntryError, Kinds
<1>3. \A x, y : TargetError(x, y) \in Kinds
    BY DEF TargetError, Kinds
<1>4. CreateError(p, n) \in Kinds
    BY <1>1 DEF CreateError, Kinds
<1>5. UnlinkError(p, n) \in Kinds
    BY <1>2 DEF UnlinkError, Kinds
<1>6. RmdirError(p, n) \in Kinds
    BY <1>2 DEF RmdirError, Kinds
<1>7. RenameError(p, n, q, m) \in Kinds
    <2>1. \/ RenameError(p, n, q, m) \in {ParentError(p, n), ParentError(q, m)}
          \/ RenameError(p, n, q, m) \in {"NotFound", "InvalidArgument", "Ok"}
          \/ RenameError(p, n, q, m) = TargetError(dentries[<<p, n>>], dentries[<<q, m>>])
        BY DEF RenameError
    <2> QED BY <1>1, <1>3, <2>1 DEF Kinds
<1>8. FileError(p) \in Kinds
    BY DEF FileError, Kinds
<1> QED BY <1>4, <1>5, <1>6, <1>7, <1>8

\* A file has no children; a directory that passes Rmdir's check has none.
LEMMA ChecksEmpty ==
    ASSUME MetaInv, NEW p, NEW n, UnlinkError(p, n) = "Ok" \/ RmdirError(p, n) = "Ok"
    PROVE  <<p, n>> \in DOMAIN dentries /\ IsDirectoryEmpty(dentries[<<p, n>>])
<1>1. <<p, n>> \in DOMAIN dentries
    BY DEF UnlinkError, RmdirError, EntryError
<1>2. CASE UnlinkError(p, n) = "Ok"
    <2>1. ~IsDir(dentries[<<p, n>>])
        BY <1>2 DEF UnlinkError
    <2>2. dentries[<<p, n>>] \notin Dirs
        BY <2>1 DEF Dirs
    <2> QED BY <1>1, <2>2 DEF MetaInv, Tree, Linked, IsDirectoryEmpty
<1>3. CASE RmdirError(p, n) = "Ok"
    <2>1. IsDirectoryEmpty(dentries[<<p, n>>])
        BY <1>3 DEF RmdirError
    <2> QED BY <1>1, <2>1
<1> QED BY <1>2, <1>3
-----------------------------------------------------------------------------
(* Every step keeps the invariant. *)

\* The calls that change the namespace.
LEMMA NamespaceInv == MetaInv /\ NamespaceStep => MetaInv'
<1> SUFFICES ASSUME MetaInv, NEW p \in InodeIds, NEW n \in AnyName,
                    \/ \E mode \in Modes : Mkdir(p, n, mode) \/ CreateFile(p, n, mode)
                    \/ Unlink(p, n)
                    \/ Rmdir(p, n)
                    \/ \E q \in InodeIds, m \in AnyName : Rename(p, n, q, m)
             PROVE  MetaInv'
    BY DEF NamespaceStep
<1>0. ASSUME NEW err \in Kinds, Reject(err) PROVE MetaInv'
    BY <1>0, NoEffectStep DEF Reject
<1>1. ASSUME NEW mode \in Modes, Mkdir(p, n, mode) PROVE MetaInv'
    BY <1>0, <1>1, CreateStep, ErrorKinds DEF Mkdir
<1>2. ASSUME NEW mode \in Modes, CreateFile(p, n, mode) PROVE MetaInv'
    BY <1>0, <1>2, CreateStep, ErrorKinds DEF CreateFile
<1>3. CASE Unlink(p, n)
    BY <1>0, <1>3, ChecksEmpty, RemoveStep, ErrorKinds DEF Unlink
<1>4. CASE Rmdir(p, n)
    BY <1>0, <1>4, ChecksEmpty, RemoveStep, ErrorKinds DEF Rmdir
<1>5. ASSUME NEW q \in InodeIds, NEW m \in AnyName, Rename(p, n, q, m) PROVE MetaInv'
    <2>1. CASE RenameError(p, n, q, m) # "Ok" /\ Reject(RenameError(p, n, q, m))
        BY <1>0, <2>1, ErrorKinds
    <2>2. CASE result' = "Ok" /\ UNCHANGED state
        BY <2>2, NoEffectStep DEF Kinds
    <2>3. CASE /\ RenameError(p, n, q, m) = "Ok" /\ MoveEntry(p, n, q, m)
               /\ ~(<<q, m>> \in DOMAIN dentries /\ dentries[<<q, m>>] = dentries[<<p, n>>])
        BY <2>3, MoveStep
    <2> QED BY <1>5, <2>1, <2>2, <2>3 DEF Rename
<1> QED BY <1>1, <1>2, <1>3, <1>4, <1>5

\* The calls on one inode.
LEMMA FileInv == MetaInv /\ FileStep => MetaInv'
<1> SUFFICES ASSUME MetaInv, NEW i \in InodeIds,
                    \/ \E m \in Modes : SetAttr(i, m)
                    \/ \E es \in Batches : CommitWrite(i, es) \/ AppendWrite(i, es)
                    \/ \E size \in Sizes : Truncate(i, size)
             PROVE  MetaInv'
    BY DEF FileStep
<1>0. ASSUME NEW err \in Kinds, Reject(err) PROVE MetaInv'
    BY <1>0, NoEffectStep DEF Reject
<1>1. ASSUME NEW m \in Modes, SetAttr(i, m) PROVE MetaInv'
    <2>1. CASE Reject("NotFound")
        BY <1>0, <2>1 DEF Kinds
    <2>2. CASE ~Reject("NotFound")
        BY <1>1, <2>2, SetAttrStep DEF SetAttr
    <2> QED BY <2>1, <2>2
<1>2. ASSUME NEW es \in Batches, CommitWrite(i, es) \/ AppendWrite(i, es) PROVE MetaInv'
    <2>1. es \in Seq(Extent)
        BY MetaStateAssumption
    <2> QED BY <1>0, <1>2, <2>1, WriteStep, ErrorKinds DEF CommitWrite, AppendWrite
<1>3. ASSUME NEW size \in Sizes, Truncate(i, size) PROVE MetaInv'
    <2>1. size \in Nat
        BY MetaStateAssumption
    <2> QED BY <1>0, <1>3, <2>1, TruncateStep, ErrorKinds DEF Truncate
<1> QED BY <1>1, <1>2, <1>3

\* Every step, stuttering too.
LEMMA MetaInvStep == MetaInv /\ [Next]_vars => MetaInv'
<1> SUFFICES ASSUME MetaInv, [Next]_vars PROVE MetaInv'
    OBVIOUS
<1>1. CASE UNCHANGED vars
    <2>1. UNCHANGED state /\ result' \in Kinds
        BY <1>1 DEF vars, state, MetaInv, TypeI
    <2> QED BY <2>1, NoEffectStep
<1>2. CASE Next
    BY <1>2, NamespaceInv, FileInv DEF Next
<1> QED BY <1>1, <1>2

\* MetaInv is an invariant of the state machine.
THEOREM MetaInvariant == Spec => []MetaInv
BY MetaInvInit, MetaInvStep, PTL DEF Spec

\* What the invariant says in the terms of MetaState.
LEMMA MetaInvMeans ==
    MetaInv => /\ NoDanglingDentry /\ OneParent /\ Rooted
               /\ LayoutsInSync /\ ExtentsDisjoint /\ SnapshotRestorable
<1> SUFFICES ASSUME MetaInv
             PROVE  /\ NoDanglingDentry /\ OneParent /\ Rooted
                    /\ LayoutsInSync /\ ExtentsDisjoint /\ SnapshotRestorable
    OBVIOUS
<1>1. Root \in Dirs
    BY DEF MetaInv, Tree, Linked
<1>2. NoDanglingDentry /\ OneParent /\ Rooted
    BY <1>1, TreeIs DEF MetaInv
<1>3. LayoutsInSync /\ ExtentsDisjoint
    BY DEF MetaInv
<1>4. SnapshotRestorable
    <2> DEFINE s == SerializeSnapshot
    <2>1. s.inodes = inodes /\ s.dentries = dentries /\ s.layouts = layouts
        BY DEF SerializeSnapshot
    <2> HIDE DEF s
    <2>2. Root \in DOMAIN inodes
        BY <1>1 DEF Dirs
    <2>3. RestoreSnapshotError(s) = "Ok"
        BY <1>2, <1>3, <2>1, <2>2 DEF RestoreSnapshotError, NoDanglingDentry, LayoutsInSync
    <2> QED BY <2>3 DEF SnapshotRestorable, s
<1> QED BY <1>2, <1>3, <1>4

\* Both ends of every directory entry exist, whatever sequence of calls came
\* before: the unchecked inodes_.at() of the readers cannot throw.
THEOREM EntriesResolve == Spec => []NoDanglingDentry
BY MetaInvariant, MetaInvMeans, PTL

\* mkdir, create, unlink, rmdir and rename leave every inode but the root with
\* exactly one entry.
THEOREM OneParentAlways == Spec => []OneParent
BY MetaInvariant, MetaInvMeans, PTL

\* No sequence of renames makes a cycle: every inode stays reachable from the
\* root, and the walk of IsAncestor ends.
THEOREM NamespaceRooted == Spec => []Rooted
BY MetaInvariant, MetaInvMeans, PTL

\* Layouts exist for exactly the files and their copy of the attributes is
\* never stale.
THEOREM LayoutsStayInSync == Spec => []LayoutsInSync
BY MetaInvariant, MetaInvMeans, PTL

\* Whatever batches are written, also malformed ones that are refused
\* half-way, the extents of a file never overlap.
THEOREM ExtentsStayDisjoint == Spec => []ExtentsDisjoint
BY MetaInvariant, MetaInvMeans, PTL

\* RestoreSnapshot accepts the snapshot of every reachable state.
THEOREM SnapshotsRestore == Spec => []SnapshotRestorable
BY MetaInvariant, MetaInvMeans, PTL
-----------------------------------------------------------------------------
(***************************************************************************)
(* The link counts, as a fact about an inode table ino, its directories    *)
(* dirs and a table d of entries.                                          *)
(***************************************************************************)
Sub(dirs, d, i) == {k \in DOMAIN d : k[1] = i /\ d[k] \in dirs}

Counted(ino, dirs, d) ==
    /\ IsFiniteSet(DOMAIN d)
    /\ \A i \in DOMAIN ino :
           ino[i].nlink = IF i \in dirs THEN 2 + Cardinality(Sub(dirs, d, i)) ELSE 1

\* How much the link count of directory i changes when the entry k of v comes
\* or goes.
Counts(dirs, k, v, i) == IF i = k[1] /\ v \in dirs THEN 1 ELSE 0

\* The subdirectories of a finite table can be counted.
LEMMA SubFinite ==
    ASSUME NEW dirs, NEW d, IsFiniteSet(DOMAIN d), NEW i
    PROVE  IsFiniteSet(Sub(dirs, d, i)) /\ Cardinality(Sub(dirs, d, i)) \in Nat
<1>1. Sub(dirs, d, i) \in SUBSET DOMAIN d
    BY DEF Sub
<1> QED BY <1>1, FS_Subset, FS_CardinalityType

\* An entry that goes is counted in its own directory only.
LEMMA EraseCounts ==
    ASSUME NEW dirs, NEW d, IsFiniteSet(DOMAIN d), NEW k \in DOMAIN d
    PROVE  /\ IsFiniteSet(DOMAIN Erase(d, k))
           /\ \A i : Cardinality(Sub(dirs, Erase(d, k), i)) =
                         Cardinality(Sub(dirs, d, i)) - Counts(dirs, k, d[k], i)
<1>1. IsFiniteSet(DOMAIN Erase(d, k))
    BY EraseIs, FS_RemoveElement
<1>2. ASSUME NEW i
      PROVE  Cardinality(Sub(dirs, Erase(d, k), i)) =
                 Cardinality(Sub(dirs, d, i)) - Counts(dirs, k, d[k], i)
    <2>1. Sub(dirs, Erase(d, k), i) = Sub(dirs, d, i) \ {k}
        BY DEF Sub, Erase
    <2>2. IsFiniteSet(Sub(dirs, d, i)) /\ Cardinality(Sub(dirs, d, i)) \in Nat
        BY SubFinite
    <2>3. k \in Sub(dirs, d, i) <=> Counts(dirs, k, d[k], i) = 1
        BY DEF Sub, Counts
    <2>4. Counts(dirs, k, d[k], i) \in {0, 1}
        BY DEF Counts
    <2>5. Cardinality(Sub(dirs, d, i) \ {k}) =
              IF k \in Sub(dirs, d, i) THEN Cardinality(Sub(dirs, d, i)) - 1
                                      ELSE Cardinality(Sub(dirs, d, i))
        BY <2>2, FS_RemoveElement
    <2> QED BY <2>1, <2>2, <2>3, <2>4, <2>5
<1> QED BY <1>1, <1>2

\* An entry that comes is counted in its own directory only.
LEMMA EmplaceCounts ==
    ASSUME NEW dirs, NEW d, IsFiniteSet(DOMAIN d), NEW k, k \notin DOMAIN d, NEW v
    PROVE  /\ IsFiniteSet(DOMAIN Emplace(d, k, v))
           /\ \A i : Cardinality(Sub(dirs, Emplace(d, k, v), i)) =
                         Cardinality(Sub(dirs, d, i)) + Counts(dirs, k, v, i)
<1>1. IsFiniteSet(DOMAIN Emplace(d, k, v))
    <2>1. IsFiniteSet(DOMAIN d \cup {k})
        BY FS_AddElement
    <2>2. DOMAIN Emplace(d, k, v) = DOMAIN d \cup {k}
        BY DEF Emplace
    <2> QED BY <2>1, <2>2
<1>2. ASSUME NEW i
      PROVE  Cardinality(Sub(dirs, Emplace(d, k, v), i)) =
                 Cardinality(Sub(dirs, d, i)) + Counts(dirs, k, v, i)
    <2>1. Sub(dirs, Emplace(d, k, v), i) =
              IF Counts(dirs, k, v, i) = 1 THEN Sub(dirs, d, i) \cup {k} ELSE Sub(dirs, d, i)
        BY DEF Sub, Emplace, Counts
    <2>2. IsFiniteSet(Sub(dirs, d, i)) /\ Cardinality(Sub(dirs, d, i)) \in Nat
        BY SubFinite
    <2>3. k \notin Sub(dirs, d, i)
        BY DEF Sub
    <2>4. Counts(dirs, k, v, i) \in {0, 1}
        BY DEF Counts
    <2>5. Cardinality(Sub(dirs, d, i) \cup {k}) = Cardinality(Sub(dirs, d, i)) + 1
        BY <2>2, <2>3, FS_AddElement
    <2> QED BY <2>1, <2>2, <2>4, <2>5
<1> QED BY <1>1, <1>2

\* Directories that no entry names do not count.
LEMMA SameSub ==
    ASSUME NEW d, NEW dirs, NEW dirs2, \A k \in DOMAIN d : d[k] \in dirs <=> d[k] \in dirs2
    PROVE  \A i : Sub(dirs, d, i) = Sub(dirs2, d, i)
BY DEF Sub

\* The counts after an entry was added for a new inode.
LEMMA CreatedCounts ==
    ASSUME NEW ino, NEW dirs, NEW d, Counted(ino, dirs, d), Linked(DOMAIN ino, dirs, d),
           NEW new, new \notin DOMAIN ino, NEW k, k \notin DOMAIN d, k[1] \in dirs,
           NEW dirs2, dirs2 \in {dirs, dirs \cup {new}},
           NEW w, DOMAIN w = DOMAIN ino \cup {new},
           w[new].nlink = IF new \in dirs2 THEN 2 ELSE 1,
           \A j \in DOMAIN ino : w[j].nlink = ino[j].nlink + Counts(dirs2, k, new, j)
    PROVE  Counted(w, dirs2, Emplace(d, k, new))
<1>1. /\ IsFiniteSet(DOMAIN d) /\ dirs \subseteq DOMAIN ino
      /\ \A l \in DOMAIN d : d[l] \in DOMAIN ino /\ l[1] \in dirs
    BY DEF Counted, Linked
<1>2. \A i : Sub(dirs, d, i) = Sub(dirs2, d, i)
    BY <1>1, SameSub
<1>3. /\ IsFiniteSet(DOMAIN Emplace(d, k, new))
      /\ \A i : Cardinality(Sub(dirs2, Emplace(d, k, new), i)) =
                    Cardinality(Sub(dirs, d, i)) + Counts(dirs2, k, new, i)
    BY <1>1, <1>2, EmplaceCounts
<1>4. \A i : Cardinality(Sub(dirs, d, i)) \in Nat
    BY <1>1, SubFinite
<1>5. Cardinality(Sub(dirs2, Emplace(d, k, new), new)) = 0
    <2>1. Sub(dirs, d, new) = {}
        BY <1>1 DEF Sub
    <2>2. Counts(dirs2, k, new, new) = 0
        BY <1>1 DEF Counts
    <2>3. Cardinality(Sub(dirs, d, new)) = 0
        BY <2>1, FS_EmptySet
    <2> QED BY <1>3, <2>2, <2>3
<1>6. \A j : Counts(dirs2, k, new, j) \in {0, 1} /\ (j \notin dirs => Counts(dirs2, k, new, j) = 0)
    BY DEF Counts
<1>7. ASSUME NEW j \in DOMAIN ino
      PROVE  w[j].nlink =
                 IF j \in dirs2 THEN 2 + Cardinality(Sub(dirs2, Emplace(d, k, new), j)) ELSE 1
    <2>1. ino[j].nlink = IF j \in dirs THEN 2 + Cardinality(Sub(dirs, d, j)) ELSE 1
        BY DEF Counted
    <2>2. j \in dirs <=> j \in dirs2
        OBVIOUS
    <2> QED BY <1>3, <1>4, <1>6, <2>1, <2>2
<1> QED BY <1>3, <1>5, <1>7 DEF Counted

\* The counts after the entry of an inode and the inode were taken out.
LEMMA RemovedCounts ==
    ASSUME NEW ino, NEW dirs, NEW d, Counted(ino, dirs, d), Linked(DOMAIN ino, dirs, d),
           NEW k \in DOMAIN d, NEW w, DOMAIN w = DOMAIN ino \ {d[k]},
           \A j \in DOMAIN w : w[j].nlink = ino[j].nlink - Counts(dirs, k, d[k], j)
    PROVE  Counted(w, dirs \ {d[k]}, Erase(d, k))
<1> DEFINE e == Erase(d, k)
           dirs2 == dirs \ {d[k]}
<1>1. IsFiniteSet(DOMAIN d) /\ \A l \in DOMAIN d : d[l] = d[k] => l = k
    BY DEF Counted, Linked
<1>2. /\ IsFiniteSet(DOMAIN e)
      /\ \A i : Cardinality(Sub(dirs, e, i)) = Cardinality(Sub(dirs, d, i)) - Counts(dirs, k, d[k], i)
    BY <1>1, EraseCounts
<1>3. \A i : Sub(dirs, e, i) = Sub(dirs2, e, i)
    <2>1. \A l \in DOMAIN e : e[l] # d[k]
        BY <1>1 DEF Erase
    <2> HIDE DEF e
    <2> QED BY <2>1, SameSub
<1>4. \A i : Cardinality(Sub(dirs, d, i)) \in Nat
    BY <1>1, SubFinite
<1>5. \A j : Counts(dirs, k, d[k], j) \in {0, 1} /\ (j \notin dirs => Counts(dirs, k, d[k], j) = 0)
    BY DEF Counts, Linked
<1> HIDE DEF e
<1>6. ASSUME NEW j \in DOMAIN w
      PROVE  w[j].nlink = IF j \in dirs2 THEN 2 + Cardinality(Sub(dirs2, e, j)) ELSE 1
    <2>1. ino[j].nlink = IF j \in dirs THEN 2 + Cardinality(Sub(dirs, d, j)) ELSE 1
        BY DEF Counted
    <2>2. j \in dirs <=> j \in dirs2
        OBVIOUS
    <2>3. w[j].nlink = ino[j].nlink - Counts(dirs, k, d[k], j)
        OBVIOUS
    <2>4. Cardinality(Sub(dirs2, e, j)) = Cardinality(Sub(dirs, d, j)) - Counts(dirs, k, d[k], j)
        BY <1>2, <1>3
    <2> HIDE DEF dirs2
    <2> QED BY <1>4, <1>5, <2>1, <2>2, <2>3, <2>4
<1> QED BY <1>2, <1>6 DEF Counted, e

\* The counts after an entry was taken from one place and put in another.
LEMMA MovedCounts ==
    ASSUME NEW ino, NEW dirs, NEW d, Counted(ino, dirs, d), Linked(DOMAIN ino, dirs, d),
           NEW k \in DOMAIN d, NEW l, l \notin DOMAIN d, l[1] \in dirs,
           NEW w, DOMAIN w = DOMAIN ino,
           \A j \in DOMAIN ino :
               w[j].nlink = (ino[j].nlink - Counts(dirs, k, d[k], j)) + Counts(dirs, l, d[k], j)
    PROVE  Counted(w, dirs, Emplace(Erase(d, k), l, d[k]))
<1> DEFINE e == Erase(d, k)
           f == Emplace(e, l, d[k])
<1>1. IsFiniteSet(DOMAIN d)
    BY DEF Counted
<1>2. /\ IsFiniteSet(DOMAIN e)
      /\ \A i : Cardinality(Sub(dirs, e, i)) = Cardinality(Sub(dirs, d, i)) - Counts(dirs, k, d[k], i)
    BY <1>1, EraseCounts
<1>3. l \notin DOMAIN e
    BY DEF Erase
<1> HIDE DEF e
<1>4. /\ IsFiniteSet(DOMAIN f)
      /\ \A i : Cardinality(Sub(dirs, f, i)) = Cardinality(Sub(dirs, e, i)) + Counts(dirs, l, d[k], i)
    BY <1>2, <1>3, EmplaceCounts
<1> HIDE DEF f
<1>5. \A i : Cardinality(Sub(dirs, d, i)) \in Nat
    BY <1>1, SubFinite
<1>6. /\ \A j : Counts(dirs, k, d[k], j) \in {0, 1} /\ (j \notin dirs => Counts(dirs, k, d[k], j) = 0)
      /\ \A j : Counts(dirs, l, d[k], j) \in {0, 1} /\ (j \notin dirs => Counts(dirs, l, d[k], j) = 0)
    BY DEF Counts, Linked
<1>7. ASSUME NEW j \in DOMAIN ino
      PROVE  w[j].nlink = IF j \in dirs THEN 2 + Cardinality(Sub(dirs, f, j)) ELSE 1
    <2>1. ino[j].nlink = IF j \in dirs THEN 2 + Cardinality(Sub(dirs, d, j)) ELSE 1
        BY DEF Counted
    <2>2. w[j].nlink = (ino[j].nlink - Counts(dirs, k, d[k], j)) + Counts(dirs, l, d[k], j)
        OBVIOUS
    <2> QED BY <1>2, <1>4, <1>5, <1>6, <2>1, <2>2
<1>8. Counted(w, dirs, f)
    BY <1>4, <1>7 DEF Counted
<1> QED BY <1>8 DEF e, f
-----------------------------------------------------------------------------
(* The link counts that the operations write. *)

\* rename moves the link that a subdirectory stands for from p to q.
LEMMA MovedLinks ==
    ASSUME NEW ino, ino \in [DOMAIN ino -> AttrsI],
           NEW p \in DOMAIN ino, NEW q \in DOMAIN ino, NEW v \in DOMAIN ino
    PROVE  \A j \in DOMAIN ino :
               InodesMoved(ino, p, q, v)[j].nlink =
                   IF p # q /\ ino[v].type = "Directory"
                   THEN IF j = p THEN ino[j].nlink - 1
                        ELSE IF j = q THEN ino[j].nlink + 1 ELSE ino[j].nlink
                   ELSE ino[j].nlink
<1> DEFINE D == DOMAIN ino
           Same(w, x) == /\ w \in [D -> AttrsI] /\ DOMAIN w = D
                         /\ \A j \in D : w[j].nlink = x[j].nlink
           a == TouchInode(ino, p)
           b == TouchInode(a, q)
           t == IF p = q THEN a ELSE b
           c == AddLink(t, p, -1)
           e == AddLink(c, q, 1)
           l == IF p # q /\ ino[v].type = "Directory" THEN e ELSE t
<1>0. -1 \in Int /\ 1 \in Int
    OBVIOUS
<1>1. ASSUME NEW w, w \in [D -> AttrsI], DOMAIN w = D, NEW i \in D
      PROVE  Same(TouchInode(w, i), w)
    BY <1>1, TouchIs
<1>2. ASSUME NEW w, w \in [D -> AttrsI], DOMAIN w = D, NEW i \in D, NEW n \in Int
      PROVE  /\ AddLink(w, i, n) \in [D -> AttrsI] /\ DOMAIN AddLink(w, i, n) = D
             /\ \A j \in D : AddLink(w, i, n)[j].nlink =
                                 IF j = i THEN w[j].nlink + n ELSE w[j].nlink
    BY <1>2, LinkIs
<1>3. InodesMoved(ino, p, q, v) = TouchInode(l, v)
    BY DEF InodesMoved
<1>4. Same(a, ino)
    BY <1>1
<1> HIDE DEF a
<1>5. Same(b, a)
    BY <1>1, <1>4
<1> HIDE DEF b
<1>6. Same(t, ino)
    BY <1>4, <1>5
<1> HIDE DEF t
<1>7. /\ c \in [D -> AttrsI] /\ DOMAIN c = D
      /\ \A j \in D : c[j].nlink = IF j = p THEN t[j].nlink + (-1) ELSE t[j].nlink
    BY <1>0, <1>2, <1>6
<1> HIDE DEF c
<1>8. /\ e \in [D -> AttrsI] /\ DOMAIN e = D
      /\ \A j \in D : e[j].nlink = IF j = q THEN c[j].nlink + 1 ELSE c[j].nlink
    BY <1>0, <1>2, <1>7
<1> HIDE DEF e
<1>9. l \in [D -> AttrsI] /\ DOMAIN l = D
    BY <1>6, <1>8
<1>10. Same(TouchInode(l, v), l)
    <2> HIDE DEF l
    <2> QED BY <1>1, <1>9
<1>11. \A j \in D : ino[j].nlink \in Int
    BY DEF AttrsI
<1>12. ASSUME NEW j \in D
       PROVE  l[j].nlink = IF p # q /\ ino[v].type = "Directory"
                           THEN IF j = p THEN ino[j].nlink - 1
                                ELSE IF j = q THEN ino[j].nlink + 1 ELSE ino[j].nlink
                           ELSE ino[j].nlink
    BY <1>6, <1>7, <1>8, <1>11
<1> HIDE DEF l
<1> QED BY <1>3, <1>10, <1>12

\* The counts of the present state.
LEMMA CountedIs ==
    ASSUME MetaInv
    PROVE  NlinkMatches /\ IsFiniteSet(DOMAIN dentries) <=> Counted(inodes, Dirs, dentries)
<1>1. \A i : SubdirEntries(i) = Sub(Dirs, dentries, i)
    BY DEF MetaInv, Tree, Linked, SubdirEntries, Sub, Dirs
<1>2. \A i \in DOMAIN inodes : IsDir(i) <=> i \in Dirs
    BY DEF Dirs
<1> QED BY <1>1, <1>2 DEF NlinkMatches, Counted

\* mkdir and create.
LEMMA CreateCounts ==
    ASSUME MetaInv, Counted(inodes, Dirs, dentries), NEW p, NEW n, NEW mode \in Modes,
           NEW type \in {"Directory", "File"}, CreateNode(p, n, type, mode)
    PROVE  Counted(inodes, Dirs, dentries)'
<1> DEFINE new == next_inode_id
           k == <<p, n>>
           T == TouchInode(inodes, p)
           parents == IF type = "Directory" THEN AddLink(T, p, 1) ELSE T
<1>1. p \in Dirs /\ p \in DOMAIN inodes /\ k \notin DOMAIN dentries
    BY ParentOk DEF CreateNode, CreateError
<1>2. new \notin DOMAIN inodes
    BY DEF MetaInv, TypeI, IdsBelowNext
<1>3. /\ T \in [DOMAIN inodes -> AttrsI] /\ DOMAIN T = DOMAIN inodes
      /\ \A j \in DOMAIN inodes : T[j].type = inodes[j].type /\ T[j].nlink = inodes[j].nlink
    BY <1>1, TouchIs DEF MetaInv, TypeI
<1>4. inodes' = Emplace(parents, new, NewAttrs(type, mode))
    BY DEF CreateNode
<1> HIDE DEF T
<1>5. /\ DOMAIN AddLink(T, p, 1) = DOMAIN T /\ AddLink(T, p, 1)[p].nlink = T[p].nlink + 1
      /\ \A j \in DOMAIN T : j # p => AddLink(T, p, 1)[j] = T[j]
      /\ \A j \in DOMAIN T : AddLink(T, p, 1)[j].type = T[j].type
    BY <1>1, <1>3, LinkIs
<1>6. /\ DOMAIN parents = DOMAIN inodes
      /\ \A j \in DOMAIN inodes : parents[j].type = inodes[j].type
      /\ \A j \in DOMAIN inodes : parents[j].nlink = IF j = p /\ type = "Directory"
                                                      THEN inodes[j].nlink + 1 ELSE inodes[j].nlink
    BY <1>3, <1>5
<1>7. NewAttrs(type, mode).type = type /\ NewAttrs(type, mode).nlink = IF type = "Directory" THEN 2 ELSE 1
    BY DEF NewAttrs
<1> HIDE DEF parents
<1>8. /\ DOMAIN inodes' = DOMAIN inodes \cup {new}
      /\ inodes'[new] = NewAttrs(type, mode)
      /\ \A j \in DOMAIN inodes : inodes'[j] = parents[j]
    BY <1>2, <1>4, <1>6 DEF Emplace
<1>9. Dirs' = IF type = "Directory" THEN Dirs \cup {new} ELSE Dirs
    BY <1>2, <1>6, <1>7, <1>8 DEF Dirs, IsDir
<1>10. new \in Dirs' <=> type = "Directory"
    BY <1>2, <1>9 DEF Dirs
<1>11. inodes'[new].nlink = IF new \in Dirs' THEN 2 ELSE 1
    BY <1>7, <1>8, <1>10
<1>12. \A j \in DOMAIN inodes : inodes'[j].nlink = inodes[j].nlink + Counts(Dirs', k, new, j)
    <2>1. \A j \in DOMAIN inodes : inodes[j].nlink \in Int
        BY DEF MetaInv, TypeI, AttrsI
    <2>2. k[1] = p
        OBVIOUS
    <2> QED BY <1>6, <1>8, <1>10, <2>1, <2>2 DEF Counts
<1>13. Linked(DOMAIN inodes, Dirs, dentries) /\ Dirs' \in {Dirs, Dirs \cup {new}} /\ k[1] \in Dirs
    BY <1>1, <1>9 DEF MetaInv, Tree
<1>14. Counted(inodes', Dirs', Emplace(dentries, k, new))
    <2> HIDE DEF k, new
    <2> QED BY <1>1, <1>2, <1>8, <1>11, <1>12, <1>13, CreatedCounts
<1>15. dentries' = Emplace(dentries, k, new)
    BY DEF CreateNode
<1> QED BY <1>14, <1>15

\* What a removed entry leaves, for unlink, rmdir and rename.
LEMMA WithoutCounts ==
    ASSUME MetaInv, Counted(inodes, Dirs, dentries), NEW p, NEW n, <<p, n>> \in DOMAIN dentries,
           NEW i, i = dentries[<<p, n>>], IsDirectoryEmpty(i)
    PROVE  Counted(InodesWithout(inodes, p, i), Dirs \ {i}, Erase(dentries, <<p, n>>))
<1> DEFINE w == InodesWithout(inodes, p, i)
           k == <<p, n>>
<1>1. /\ i \in DOMAIN inodes /\ p \in DOMAIN inodes /\ p # i
      /\ WithoutInode(w, inodes, p, i)
    BY RemovedIs DEF Removed
<1> HIDE DEF w
<1>2. k[1] = p /\ k \in DOMAIN dentries /\ dentries[k] = i
    OBVIOUS
<1>3. Linked(DOMAIN inodes, Dirs, dentries) /\ \A j \in DOMAIN inodes : inodes[j].nlink \in Int
    BY DEF MetaInv, Tree, TypeI, AttrsI
<1>4. DOMAIN w = DOMAIN inodes \ {i}
    BY <1>1 DEF WithoutInode
<1>5. inodes[i].type = "Directory" <=> i \in Dirs
    BY <1>1 DEF Dirs, IsDir
<1>6. \A j \in DOMAIN w : w[j].nlink = inodes[j].nlink - Counts(Dirs, k, i, j)
    BY <1>1, <1>2, <1>3, <1>4, <1>5 DEF WithoutInode, Counts
<1>7. Counted(w, Dirs \ {i}, Erase(dentries, k))
    <2> HIDE DEF k
    <2> QED BY <1>2, <1>3, <1>4, <1>6, RemovedCounts
<1> QED BY <1>7 DEF w

\* unlink and rmdir.
LEMMA RemoveCounts ==
    ASSUME MetaInv, Counted(inodes, Dirs, dentries), NEW p, NEW n, <<p, n>> \in DOMAIN dentries,
           IsDirectoryEmpty(dentries[<<p, n>>]), RemoveNode(p, n)
    PROVE  Counted(inodes, Dirs, dentries)'
<1>1. PICK i : i = dentries[<<p, n>>]
    OBVIOUS
<1>2. inodes' = InodesWithout(inodes, p, i) /\ dentries' = Erase(dentries, <<p, n>>)
    BY <1>1 DEF RemoveNode
<1>3. WithoutInode(inodes', inodes, p, i)
    BY <1>1, <1>2, RemovedIs DEF Removed
<1>4. Dirs' = Dirs \ {i}
    BY <1>3 DEF Dirs, IsDir, WithoutInode
<1> QED BY <1>1, <1>2, <1>4, WithoutCounts

\* rename, given the tables that are left without a replaced entry.
LEMMA RelinkCounts ==
    ASSUME NEW ino, ino \in [DOMAIN ino -> AttrsI], NEW dirs, NEW d,
           dirs = {j \in DOMAIN ino : ino[j].type = "Directory"},
           Counted(ino, dirs, d), Linked(DOMAIN ino, dirs, d),
           NEW p \in dirs, NEW n, NEW q \in dirs, NEW m,
           <<p, n>> \in DOMAIN d, <<q, m>> \notin DOMAIN d, NEW v, v = d[<<p, n>>]
    PROVE  Counted(InodesMoved(ino, p, q, v), dirs, Emplace(Erase(d, <<p, n>>), <<q, m>>, v))
<1> DEFINE w == InodesMoved(ino, p, q, v)
           k == <<p, n>>
           l == <<q, m>>
<1>1. p \in DOMAIN ino /\ q \in DOMAIN ino /\ v \in DOMAIN ino
    BY DEF Linked
<1>2. DOMAIN w = DOMAIN ino
    BY <1>1, InodesMovedIs DEF Retouched
<1>3. \A j \in DOMAIN ino :
          w[j].nlink = IF p # q /\ ino[v].type = "Directory"
                       THEN IF j = p THEN ino[j].nlink - 1
                            ELSE IF j = q THEN ino[j].nlink + 1 ELSE ino[j].nlink
                       ELSE ino[j].nlink
    BY <1>1, MovedLinks
<1> HIDE DEF w
<1>4. k[1] = p /\ l[1] = q
    OBVIOUS
<1>5. \A j \in DOMAIN ino : ino[j].nlink \in Int
    BY DEF AttrsI
<1>6. v \in dirs <=> ino[v].type = "Directory"
    BY <1>1
<1>7. \A j \in DOMAIN ino :
          w[j].nlink = (ino[j].nlink - Counts(dirs, k, v, j)) + Counts(dirs, l, v, j)
    BY <1>3, <1>4, <1>5, <1>6 DEF Counts
<1>8. k \in DOMAIN d /\ l \notin DOMAIN d /\ l[1] \in dirs /\ v = d[k]
    OBVIOUS
<1>9. Counted(w, dirs, Emplace(Erase(d, k), l, v))
    <2> HIDE DEF k, l
    <2> QED BY <1>2, <1>7, <1>8, MovedCounts
<1> QED BY <1>9 DEF w

\* What a rename has checked before it moves the entry of v.
LEMMA RenameChecks ==
    ASSUME MetaInv, NEW p, NEW n, NEW q, NEW m, RenameError(p, n, q, m) = "Ok",
           NEW v, v = dentries[<<p, n>>],
           ~(<<q, m>> \in DOMAIN dentries /\ dentries[<<q, m>>] = v)
    PROVE  /\ <<p, n>> \in DOMAIN dentries /\ v \in DOMAIN inodes
           /\ p \in Dirs /\ q \in Dirs /\ p \in DOMAIN inodes /\ q \in DOMAIN inodes
           /\ <<q, m>> \in DOMAIN dentries =>
                  /\ dentries[<<q, m>>] # v /\ dentries[<<q, m>>] # p
                  /\ <<p, n>> # <<q, m>>
                  /\ IsDirectoryEmpty(dentries[<<q, m>>])
<1>1. /\ ParentError(p, n) = "Ok" /\ ParentError(q, m) = "Ok" /\ <<p, n>> \in DOMAIN dentries
      /\ <<q, m>> \in DOMAIN dentries => TargetError(v, dentries[<<q, m>>]) = "Ok"
    BY DEF RenameError
<1>2. p \in Dirs /\ q \in Dirs /\ p \in DOMAIN inodes /\ q \in DOMAIN inodes
    BY <1>1, ParentOk
<1>3. v \in DOMAIN inodes /\ Linked(DOMAIN inodes, Dirs, dentries)
    BY <1>1 DEF MetaInv, Tree, Linked
<1>4. ASSUME <<q, m>> \in DOMAIN dentries, NEW t, t = dentries[<<q, m>>]
      PROVE  t # v /\ t # p /\ IsDirectoryEmpty(t)
    <2>1. t # v /\ TargetError(v, t) = "Ok"
        BY <1>1, <1>4
    <2>2. IsDirectoryEmpty(t)
        <3>1. CASE t \in Dirs
            BY <2>1, <3>1 DEF TargetError, Dirs
        <3>2. CASE t \notin Dirs
            BY <1>3, <3>2 DEF Linked, IsDirectoryEmpty
        <3> QED BY <3>1, <3>2
    <2>3. <<p, n>>[1] # t
        BY <1>1, <2>2 DEF IsDirectoryEmpty
    <2> QED BY <2>1, <2>2, <2>3
<1> QED BY <1>1, <1>2, <1>3, <1>4

\* rename.
LEMMA RenameCounts ==
    ASSUME MetaInv, Counted(inodes, Dirs, dentries), NEW p, NEW n, NEW q, NEW m,
           RenameError(p, n, q, m) = "Ok",
           ~(<<q, m>> \in DOMAIN dentries /\ dentries[<<q, m>>] = dentries[<<p, n>>]),
           MoveEntry(p, n, q, m)
    PROVE  Counted(inodes, Dirs, dentries)'
<1>1. PICK v : v = dentries[<<p, n>>]
    OBVIOUS
<1>2. /\ <<p, n>> \in DOMAIN dentries /\ v \in DOMAIN inodes
      /\ p \in Dirs /\ q \in Dirs /\ p \in DOMAIN inodes /\ q \in DOMAIN inodes
      /\ <<q, m>> \in DOMAIN dentries =>
             /\ dentries[<<q, m>>] # v /\ dentries[<<q, m>>] # p
             /\ <<p, n>> # <<q, m>>
             /\ IsDirectoryEmpty(dentries[<<q, m>>])
    BY <1>1, RenameChecks
<1>4. Linked(DOMAIN inodes, Dirs, dentries)
    BY DEF MetaInv, Tree
<1>5. dentries' = Emplace(Erase(dentries, <<p, n>>), <<q, m>>, v)
    BY <1>1 DEF MoveEntry
<1>6. inodes \in [DOMAIN inodes -> AttrsI] /\ Dirs = {j \in DOMAIN inodes : inodes[j].type = "Directory"}
    BY DEF MetaInv, TypeI, Dirs, IsDir
<1>7. CASE <<q, m>> \notin DOMAIN dentries
    <2>1. inodes' = InodesMoved(inodes, p, q, v)
        BY <1>1, <1>7 DEF MoveEntry
    <2>2. Dirs' = Dirs
        BY <1>2, <1>6, <2>1, InodesMovedIs DEF Dirs, IsDir, Retouched
    <2>3. Counted(inodes', Dirs, dentries')
        BY <1>1, <1>2, <1>4, <1>5, <1>6, <1>7, <2>1, RelinkCounts
    <2> QED BY <2>2, <2>3
<1>8. CASE <<q, m>> \in DOMAIN dentries
    <2>1. PICK t : t = dentries[<<q, m>>]
        OBVIOUS
    <2>3. t # v /\ t # p /\ IsDirectoryEmpty(t) /\ <<p, n>> # <<q, m>>
        BY <1>2, <1>8, <2>1
    <2> DEFINE ino == InodesWithout(inodes, q, t)
               d == Erase(dentries, <<q, m>>)
               dirs == Dirs \ {t}
    <2>4. Removed(q, m, t, ino, LayoutsWithout(layouts, inodes, q, t))
        BY <1>8, <2>1, <2>3, RemovedIs
    <2>5. Counted(ino, dirs, d)
        BY <1>8, <2>1, <2>3, WithoutCounts
    <2>6. inodes' = InodesMoved(ino, p, q, v)
        BY <1>1, <1>8, <2>1 DEF MoveEntry
    <2> HIDE DEF ino
    <2>7. /\ DOMAIN ino = DOMAIN inodes \ {t} /\ ino \in [DOMAIN ino -> AttrsI] /\ q # t
          /\ \A j \in DOMAIN ino : ino[j].type = inodes[j].type
          /\ Linked(DOMAIN ino, dirs, d)
        BY <2>4 DEF Removed, WithoutInode, Tree
    <2>9. dirs = {j \in DOMAIN ino : ino[j].type = "Directory"} /\ p \in dirs /\ q \in dirs
        BY <1>2, <1>6, <2>3, <2>7
    <2>11. <<p, n>> \in DOMAIN d /\ <<q, m>> \notin DOMAIN d /\ d[<<p, n>>] = v
        BY <1>1, <1>2, <2>3 DEF Erase
    <2>12. dentries' = Emplace(Erase(d, <<p, n>>), <<q, m>>, v)
        BY <1>5, <2>3 DEF Emplace, Erase
    <2>13. Dirs' = dirs
        <3>1. v \in DOMAIN ino /\ p \in DOMAIN ino /\ q \in DOMAIN ino
            BY <1>2, <2>3, <2>7
        <3>2. Retouched(inodes', ino, {p, q, v})
            BY <2>6, <2>7, <3>1, InodesMovedIs
        <3> QED BY <2>7, <2>9, <3>2 DEF Retouched, Dirs, IsDir
    <2> HIDE DEF d, dirs
    <2>14. Counted(inodes', dirs, dentries')
        BY <2>5, <2>6, <2>7, <2>9, <2>11, <2>12, RelinkCounts
    <2> QED BY <2>13, <2>14
<1> QED BY <1>7, <1>8

\* A call that leaves entries, types and link counts alone.
LEMMA SameCounts ==
    ASSUME Counted(inodes, Dirs, dentries), dentries' = dentries,
           DOMAIN inodes' = DOMAIN inodes,
           \A j \in DOMAIN inodes : /\ inodes'[j].type = inodes[j].type
                                    /\ inodes'[j].nlink = inodes[j].nlink
    PROVE  Counted(inodes, Dirs, dentries)'
<1>1. Dirs' = Dirs
    BY DEF Dirs, IsDir
<1> QED BY <1>1 DEF Counted

\* setattr, the writes and truncate change neither types nor link counts.
LEMMA FileCounts ==
    ASSUME MetaInv, FileStep
    PROVE  /\ dentries' = dentries /\ DOMAIN inodes' = DOMAIN inodes
           /\ \A j \in DOMAIN inodes : /\ inodes'[j].type = inodes[j].type
                                       /\ inodes'[j].nlink = inodes[j].nlink
<1>1. dentries' = dentries
    BY DEF FileStep, SetAttr, CommitWrite, AppendWrite, MergeBatch, Truncate, Reject, state
<1>2. \/ inodes' = inodes
      \/ \E i \in DOMAIN inodes : \E m : inodes' = TouchInode([inodes EXCEPT ![i].mode = m], i)
      \/ \E i \in DOMAIN inodes : \E size : inodes' = SetSize(i, size)
    <2>1. \A i : FileError(i) = "Ok" => i \in DOMAIN inodes
        BY FileOk
    <2>2. PICK i : \/ \E m \in Modes : SetAttr(i, m)
                   \/ \E es \in Batches : CommitWrite(i, es) \/ AppendWrite(i, es)
                   \/ \E size \in Sizes : Truncate(i, size)
        BY DEF FileStep
    <2>3. ASSUME NEW m \in Modes, SetAttr(i, m)
          PROVE  inodes' = inodes \/ (i \in DOMAIN inodes /\ inodes' = TouchInode([inodes EXCEPT ![i].mode = m], i))
        BY <2>3 DEF SetAttr, Reject, state
    <2>4. ASSUME NEW es, NEW size, MergeBatch(i, es, size)
          PROVE  inodes' = inodes \/ (i \in DOMAIN inodes /\ inodes' = SetSize(i, size))
        BY <2>1, <2>4 DEF MergeBatch
    <2>5. ASSUME NEW es, CommitWrite(i, es) \/ AppendWrite(i, es)
          PROVE  inodes' = inodes \/ (i \in DOMAIN inodes /\ \E size : inodes' = SetSize(i, size))
        BY <2>4, <2>5 DEF CommitWrite, AppendWrite, Reject, state
    <2>6. ASSUME NEW size, Truncate(i, size)
          PROVE  inodes' = inodes \/ (i \in DOMAIN inodes /\ inodes' = SetSize(i, size))
        BY <2>1, <2>6 DEF Truncate, Reject, state
    <2>7. CASE \E m \in Modes : SetAttr(i, m)
        BY <2>3, <2>7
    <2>8. CASE \E es \in Batches : CommitWrite(i, es) \/ AppendWrite(i, es)
        BY <2>5, <2>8
    <2>9. CASE \E size \in Sizes : Truncate(i, size)
        BY <2>6, <2>9
    <2> QED BY <2>2, <2>7, <2>8, <2>9
<1>3. inodes \in [DOMAIN inodes -> AttrsI]
    BY DEF MetaInv, TypeI
<1>4. ASSUME NEW i \in DOMAIN inodes, NEW m
      PROVE  LET w == TouchInode([inodes EXCEPT ![i].mode = m], i)
             IN  /\ DOMAIN w = DOMAIN inodes
                 /\ \A j \in DOMAIN inodes : w[j].type = inodes[j].type /\ w[j].nlink = inodes[j].nlink
    BY <1>3 DEF TouchInode, AttrsI
<1>5. ASSUME NEW i \in DOMAIN inodes, NEW size
      PROVE  LET w == SetSize(i, size)
             IN  /\ DOMAIN w = DOMAIN inodes
                 /\ \A j \in DOMAIN inodes : w[j].type = inodes[j].type /\ w[j].nlink = inodes[j].nlink
    BY <1>3 DEF SetSize, TouchInode, AttrsI
<1>6. CASE inodes' = inodes
    BY <1>1, <1>6
<1>7. ASSUME NEW i \in DOMAIN inodes, NEW m, inodes' = TouchInode([inodes EXCEPT ![i].mode = m], i)
      PROVE  /\ DOMAIN inodes' = DOMAIN inodes
             /\ \A j \in DOMAIN inodes : /\ inodes'[j].type = inodes[j].type
                                         /\ inodes'[j].nlink = inodes[j].nlink
    BY <1>4, <1>7
<1>8. ASSUME NEW i \in DOMAIN inodes, NEW size, inodes' = SetSize(i, size)
      PROVE  /\ DOMAIN inodes' = DOMAIN inodes
             /\ \A j \in DOMAIN inodes : /\ inodes'[j].type = inodes[j].type
                                         /\ inodes'[j].nlink = inodes[j].nlink
    BY <1>5, <1>8
<1> QED BY <1>1, <1>2, <1>6, <1>7, <1>8

\* The invariant with the link counts.
CountInv == MetaInv /\ Counted(inodes, Dirs, dentries)

\* Every step keeps the link counts.
LEMMA CountStep ==
    ASSUME MetaInv, Counted(inodes, Dirs, dentries), [Next]_vars
    PROVE  Counted(inodes, Dirs, dentries)'
<1>0. ASSUME UNCHANGED state PROVE Counted(inodes, Dirs, dentries)'
    BY <1>0, SameCounts DEF state
<1>1. CASE UNCHANGED vars
    BY <1>0, <1>1 DEF vars, state
<1>2. CASE FileStep
    BY <1>2, FileCounts, SameCounts
<1>3. CASE NamespaceStep
    <2> SUFFICES ASSUME NEW p \in InodeIds, NEW n \in AnyName,
                        \/ \E mode \in Modes : Mkdir(p, n, mode) \/ CreateFile(p, n, mode)
                        \/ Unlink(p, n)
                        \/ Rmdir(p, n)
                        \/ \E q \in InodeIds, m \in AnyName : Rename(p, n, q, m)
                 PROVE  Counted(inodes, Dirs, dentries)'
        BY <1>3 DEF NamespaceStep
    <2>1. ASSUME NEW err, Reject(err) PROVE Counted(inodes, Dirs, dentries)'
        BY <1>0, <2>1 DEF Reject
    <2>2. ASSUME NEW mode \in Modes, Mkdir(p, n, mode) \/ CreateFile(p, n, mode)
          PROVE  Counted(inodes, Dirs, dentries)'
        BY <2>1, <2>2, CreateCounts DEF Mkdir, CreateFile
    <2>3. CASE Unlink(p, n) \/ Rmdir(p, n)
        BY <2>1, <2>3, ChecksEmpty, RemoveCounts DEF Unlink, Rmdir
    <2>4. ASSUME NEW q \in InodeIds, NEW m \in AnyName, Rename(p, n, q, m)
          PROVE  Counted(inodes, Dirs, dentries)'
        BY <1>0, <2>1, <2>4, RenameCounts DEF Rename
    <2> QED BY <2>2, <2>3, <2>4
<1> QED BY <1>1, <1>2, <1>3 DEF Next

\* A new root has two links.
LEMMA CountInit == Init => Counted(inodes, Dirs, dentries)
<1> SUFFICES ASSUME Init PROVE Counted(inodes, Dirs, dentries)
    OBVIOUS
<1>1. DOMAIN inodes = {Root} /\ DOMAIN dentries = {} /\ inodes[Root].nlink = 2 /\ Dirs = {Root}
    BY DEF Init, Dirs, IsDir
<1>2. Cardinality(Sub(Dirs, dentries, Root)) = 0
    <2>1. Sub(Dirs, dentries, Root) = {}
        BY <1>1 DEF Sub
    <2> QED BY <2>1, FS_EmptySet
<1> QED BY <1>1, <1>2, FS_EmptySet DEF Counted

\* The link counts are part of the invariant.
THEOREM CountInvariant == Spec => []CountInv
<1>1. CountInv /\ [Next]_vars => CountInv'
    BY CountStep, MetaInvStep DEF CountInv
<1>2. Init => CountInv
    BY CountInit, MetaInvInit DEF CountInv
<1> QED BY <1>1, <1>2, PTL DEF Spec

\* CountInv gives the properties of MetaState that speak of link counts.
LEMMA CountInvMeans == CountInv => NlinkMatches /\ TypeOK
<1> SUFFICES ASSUME CountInv PROVE NlinkMatches /\ TypeOK
    OBVIOUS
<1>1. NlinkMatches
    BY CountedIs DEF CountInv
<1>2. TypeI /\ LayoutsInSync
    BY DEF CountInv, MetaInv
<1>3. \A i \in DOMAIN inodes : inodes[i].nlink \in Nat
    BY SubFinite DEF CountInv, Counted
<1>4. inodes \in [DOMAIN inodes -> Attrs]
    BY <1>2, <1>3 DEF TypeI, AttrsI, Attrs
<1>5. layouts \in [DOMAIN layouts -> Layout]
    <2>1. ASSUME NEW i \in DOMAIN layouts PROVE layouts[i] \in Layout
        <3>1. layouts[i] \in LayoutI /\ layouts[i].attrs = inodes[i] /\ i \in DOMAIN inodes
            BY <1>2 DEF TypeI, LayoutsInSync
        <3> QED BY <1>4, <3>1 DEF LayoutI, Layout
    <2> QED BY <1>2, <2>1 DEF TypeI
<1> QED BY <1>1, <1>2, <1>4, <1>5 DEF TypeI, TypeOK

\* The link count that each operation adjusts by hand is always 2 plus the
\* number of subdirectories, and 1 for a file.
THEOREM LinkCountsRight == Spec => []NlinkMatches
BY CountInvariant, CountInvMeans, PTL

\* The tables keep their types; that a link count never goes below zero
\* rests on it being the number of subdirectories.
THEOREM MetaTypeCorrect == Spec => []TypeOK
BY CountInvariant, CountInvMeans, PTL
=============================================================================
