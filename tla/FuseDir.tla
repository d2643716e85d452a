------------------------------ MODULE FuseDir ------------------------------
(***************************************************************************)
(* Directories seen through one FUSE mount: readdir page by page, and the  *)
(* hints in parents_ from which `..' is answered                           *)
(* (src/src/fuse/fuse_server.cc), while other mounts create, remove and    *)
(* rename.  A readdir request is three RPCs, and the listing is fetched    *)
(* anew for every page.                                                    *)
(*                                                                         *)
(* A page holds PageSize entries: the code cuts the buffer at the size the *)
(* kernel asks for, and the kernel drops an entry that is cut in two.      *)
(*                                                                         *)
(* Each RPC of a readdir may fail, because MetaState refuses it or because *)
(* no reply comes.  The first and the second then end the request with an  *)
(* error; the third does not: `..' is answered with the directory itself.  *)
(***************************************************************************)
EXTENDS MetaCommand, Sequences

CONSTANTS
    PageSize,       \* entries that fit into one reply
    Listed          \* the directories that the kernel lists

ASSUME DirAssumption ==
    /\ PageSize \in Nat \ {0}
    /\ Names \subseteq Nat          \* numbers, for their order

VARIABLES
    parents,        \* parents_: inode id -> parent id
    request,        \* what the mount is in the middle of
    listing,        \* the kernel's listing: its offset and what it has got
    known           \* history: the inodes whose entry the mount has fetched
                    \* and which have not been moved since

dirVars == <<vars, parents, request, listing, known>>

Idle == [at |-> "idle"]
NoListing == [dir |-> 0]

\* The entries of directory d in dent.
EntrySet(dent, d) == {<<k[2], dent[k]>> : k \in {l \in DOMAIN dent : l[1] = d}}

\* The reply to ReadDir: in the order of the names.
Entries(d) ==
    CHOOSE s \in [1 .. Cardinality(EntrySet(dentries, d)) -> EntrySet(dentries, d)] :
        \A i, j \in DOMAIN s : i < j => s[i][1] < s[j][1]

\* FuseServer::ParentOf.
HintOf(i) == IF i \in DOMAIN parents THEN parents[i] ELSE i
-----------------------------------------------------------------------------
(* What the listing lives through, for the properties. *)

\* A step that may change directories; the mount fetches the entries `learned'.
Watch(learned) ==
    /\ known' = {i \in known : i \in DOMAIN inodes' /\ ParentOf(i)' = ParentOf(i)} \cup learned
    /\ listing' =
          IF listing = NoListing THEN listing
          ELSE LET before == EntrySet(dentries, listing.dir)
                   after  == EntrySet(dentries', listing.dir)
               IN  [listing EXCEPT !.steady  = @ \cap after,
                                   !.removed = @ + Cardinality(before \ after),
                                   !.added   = @ + Cardinality(after \ before)]
-----------------------------------------------------------------------------
DirInit ==
    /\ Init
    /\ parents = [i \in {Root} |-> Root]
    /\ request = Idle
    /\ listing = NoListing
    /\ known = {Root}

\* Another mount, or a request of this one that leaves parents_ alone: unlink,
\* rmdir and rename.
OtherRequest ==
    /\ NamespaceStep
    /\ Watch({})
    /\ UNCHANGED <<parents, request>>

(* Requests of this mount that answer with an entry. *)

PulpfsLookup(p, n) ==
    /\ request = Idle
    /\ EntryError(p, n) = "Ok"
    /\ parents' = Emplace(parents, dentries[<<p, n>>], p)
    /\ known' = known \cup {dentries[<<p, n>>]}
    /\ UNCHANGED <<vars, request, listing>>

\* Mutant: the parent is not remembered.
HintsAfterCreateOld(p) == parents

HintsAfterCreate(p) == Emplace(parents, next_inode_id, p)

\* mkdir and create, when they succeed; otherwise they are an OtherRequest.
PulpfsMkdirOrCreate(p, n) ==
    /\ request = Idle
    /\ CreateError(p, n) = "Ok"
    /\ \E mode \in Modes : Mkdir(p, n, mode) \/ CreateFile(p, n, mode)
    /\ parents' = HintsAfterCreate(p)
    /\ Watch({next_inode_id})
    /\ UNCHANGED request
-----------------------------------------------------------------------------
(* readdir. *)

\* opendir: the kernel begins to list directory d.
PulpfsOpenDir(d) ==
    /\ request = Idle /\ listing = NoListing
    /\ ReadDirError(d) = "Ok"
    /\ listing' = [dir |-> d, off |-> 0, got |-> <<>>, ended |-> FALSE,
                   steady |-> EntrySet(dentries, d), removed |-> 0, added |-> 0]
    /\ UNCHANGED <<vars, parents, request, known>>

\* The kernel closes the directory, at the end or before it.
CloseDir ==
    /\ request = Idle /\ listing # NoListing
    /\ listing' = NoListing
    /\ UNCHANGED <<vars, parents, request, known>>

\* The first RPC: GetAttr of the directory.  When it fails the request is over
\* and nothing has changed.
PulpfsReadDir ==
    /\ request = Idle /\ listing # NoListing /\ ~listing.ended
    /\ ReadDirError(listing.dir) = "Ok"
    /\ request' = [at |-> "attrs"]
    /\ UNCHANGED <<vars, parents, listing, known>>

\* The second RPC failed: the kernel may ask again, or close the directory.
ReplyError == request' = Idle /\ UNCHANGED <<vars, parents, listing, known>>

\* The second: ReadDir.
FetchEntries ==
    /\ request.at = "attrs"
    /\ \/ ReplyError
       \/ /\ ReadDirError(listing.dir) = "Ok"
          /\ request' = [at |-> "entries", entries |-> Entries(listing.dir)]
          /\ known' = known \cup {e[2] : e \in EntrySet(dentries, listing.dir)}
          /\ UNCHANGED <<vars, parents, listing>>

\* The third is GetAttr of the hint: the inode that `..' is answered with.  Any
\* error of it, a missing reply as well, is ignored.
DotDot(d, replied) ==
    IF replied /\ GetAttrError(HintOf(d)) = "Ok" THEN HintOf(d) ELSE d

RememberEntries(entries, d) ==
    LET ids == {entries[k][2] : k \in DOMAIN entries}
    IN  [i \in DOMAIN parents \cup ids |-> IF i \in ids THEN d ELSE parents[i]]

\* Mutant: one entry too far.
NextOffsetTooFar(index) == index + 2

\* The offset that AddDirEntry gives the entry with this index, from 0.
NextOffset(index) == index + 1

\* The reply: the page from the kernel's offset on.  In the list, `.' and `..'
\* have the indices 0 and 1 and the entries follow.  The kernel goes on behind
\* the last entry it got, or ends its listing when there was none.
ReplyPage ==
    LET size == 2 + Len(request.entries)
        last == IF size < listing.off + PageSize THEN size ELSE listing.off + PageSize
        page == SubSeq(request.entries, LargerOf(listing.off, 2) - 1, last - 2)
    IN  /\ request.at = "entries"
        /\ parents' = RememberEntries(request.entries, listing.dir)
        /\ request' = Idle
        /\ listing' = IF listing.off >= size THEN [listing EXCEPT !.ended = TRUE]
                      ELSE [listing EXCEPT !.off = NextOffset(last - 1), !.got = @ \o page]
        /\ UNCHANGED <<vars, known>>
-----------------------------------------------------------------------------
DirNext ==
    \/ OtherRequest
    \/ \E p \in InodeIds, n \in Names : PulpfsLookup(p, n) \/ PulpfsMkdirOrCreate(p, n)
    \/ \E d \in Listed : PulpfsOpenDir(d)
    \/ CloseDir \/ PulpfsReadDir \/ FetchEntries \/ ReplyPage

DirSpec == DirInit /\ [][DirNext]_dirVars
-----------------------------------------------------------------------------
(* Properties. *)

Got == {listing.got[k] : k \in DOMAIN listing.got}

\* Offsets are indices into a list that is fetched anew for each page, so a
\* listing may miss and repeat entries; but not more of those that were there
\* all the time than others were removed meanwhile, and not more repeats than
\* others were added.  A directory nobody changes is listed exactly.
ListingDriftBounded ==
    listing # NoListing =>
        /\ Len(listing.got) - Cardinality(Got) <= listing.added
        /\ listing.ended => Cardinality(listing.steady \ Got) <= listing.removed

\* `..' names the parent of the directory, unless that was moved after the
\* mount last fetched its entry: the hint is stored after a further RPC, but
\* never in place of a newer one, and its inode is there.  Only when the reply
\* to the third RPC is missing does it name the directory itself.
DotDotRight ==
    (request.at = "entries" /\ listing.dir \in known) =>
        \A replied \in BOOLEAN :
            \/ DotDot(listing.dir, replied) = ParentOf(listing.dir)
            \/ ~replied /\ DotDot(listing.dir, replied) = listing.dir
=============================================================================
