--------------------------- MODULE ServiceProofs ---------------------------
(***************************************************************************)
(* What the metadata service promises for any number of clients, commands, *)
(* crashes and snapshots.  A replay ends in the states that were there     *)
(* before, so the argument begins with a fact about MetaState: what a      *)
(* command does depends on nothing but the state and the command.          *)
(***************************************************************************)
EXTENDS MetaService, MetaStateProofs

(***************************************************************************)
(* MetaState as a function: Run(s, c) is what command c makes of the state *)
(* s, and the kind it answers with.                                        *)
(***************************************************************************)
At(s) == INSTANCE MetaState
    WITH inodes <- s.inodes, dentries <- s.dentries, layouts <- s.layouts,
         next_inode_id <- s.next_inode_id, result <- "Ok"

Refused(s, kind) == [data |-> s, kind |-> kind]

Done(ino, dent, lay, next) ==
    [data |-> [inodes |-> ino, dentries |-> dent, layouts |-> lay, next_inode_id |-> next],
     kind |-> "Ok"]

RunCreate(s, p, n, type, mode) ==
    LET err == At(s)!CreateError(p, n)
        new == s.next_inode_id
        touched == TouchInode(s.inodes, p)
        parents == IF type = "Directory" THEN AddLink(touched, p, 1) ELSE touched
        file == [attrs |-> NewAttrs(type, mode), extents |-> {}]
    IN  IF err # "Ok" THEN Refused(s, err)
        ELSE Done(Emplace(parents, new, NewAttrs(type, mode)), Emplace(s.dentries, <<p, n>>, new),
                  IF type = "File" THEN Emplace(s.layouts, new, file) ELSE s.layouts, new + 1)

RunRemove(s, err, p, n) ==
    LET i == s.dentries[<<p, n>>]
    IN  IF err # "Ok" THEN Refused(s, err)
        ELSE Done(InodesWithout(s.inodes, p, i), Erase(s.dentries, <<p, n>>),
                  LayoutsWithout(s.layouts, s.inodes, p, i), s.next_inode_id)

RunRename(s, p, n, q, m) ==
    LET err == At(s)!RenameError(p, n, q, m)
        moved == s.dentries[<<p, n>>]
        target == s.dentries[<<q, m>>]
        replaced == <<q, m>> \in DOMAIN s.dentries
        ino == InodesMoved(IF replaced THEN InodesWithout(s.inodes, q, target) ELSE s.inodes,
                           p, q, moved)
        lay == IF replaced THEN LayoutsWithout(s.layouts, s.inodes, q, target) ELSE s.layouts
    IN  IF err # "Ok" \/ (replaced /\ target = moved) THEN Refused(s, err)
        ELSE Done(ino, Emplace(Erase(s.dentries, <<p, n>>), <<q, m>>, moved),
                  SyncAttrs(SyncAttrs(SyncAttrs(lay, ino, p), ino, q), ino, moved),
                  s.next_inode_id)

RunSetAttr(s, i, m) ==
    LET ino == TouchInode([s.inodes EXCEPT ![i].mode = m], i)
    IN  IF i \notin DOMAIN s.inodes THEN Refused(s, "NotFound")
        ELSE Done(ino, s.dentries, SyncAttrs(s.layouts, ino, i), s.next_inode_id)

RunResize(s, i, size, extents) ==
    LET ino == TouchInode([s.inodes EXCEPT ![i].size = size], i)
    IN  Done(ino, s.dentries, [s.layouts EXCEPT ![i] = [attrs |-> ino[i], extents |-> extents]],
             s.next_inode_id)

RunMerge(s, i, es, size) ==
    LET err == At(s)!FileError(i)
        n == AcceptedPrefix(es)
        merged == MergeFirst(s.layouts[i].extents, es, n)
    IN  IF err # "Ok" THEN Refused(s, err)
        ELSE IF n < Len(es)
        THEN Refused([s EXCEPT !.layouts = [s.layouts EXCEPT ![i].extents = merged]],
                     "InvalidArgument")
        ELSE RunResize(s, i, size, merged)

RunTruncate(s, i, size) ==
    LET err == At(s)!FileError(i)
    IN  IF err # "Ok" THEN Refused(s, err)
        ELSE RunResize(s, i, size, TruncateExtents(s.layouts[i].extents, size))

Run(s, c) ==
    CASE c.op = "mkdir"        -> RunCreate(s, c.parent, c.name, "Directory", c.mode)
      [] c.op = "create_file"  -> RunCreate(s, c.parent, c.name, "File", c.mode)
      [] c.op = "set_attr"     -> RunSetAttr(s, c.inode_id, c.mode)
      [] c.op = "commit_write" ->
            RunMerge(s, c.inode_id, c.extents,
                     LargerOf(s.inodes[c.inode_id].size, BatchEnd(c.extents)))
      [] c.op = "append_write" ->
            RunMerge(s, c.inode_id, ShiftBatch(c.extents, s.inodes[c.inode_id].size),
                     s.inodes[c.inode_id].size + BatchEnd(c.extents))
      [] c.op = "truncate"     -> RunTruncate(s, c.inode_id, c.size)
      [] c.op = "unlink"       -> RunRemove(s, At(s)!UnlinkError(c.parent, c.name), c.parent, c.name)
      [] c.op = "rmdir"        -> RunRemove(s, At(s)!RmdirError(c.parent, c.name), c.parent, c.name)
      [] c.op = "rename"       ->
            RunRename(s, c.old_parent, c.old_name, c.new_parent, c.new_name)
      [] OTHER                 -> Refused(s, "Ok")

\* The state of the moment.
LEMMA Now ==
    /\ SerializeSnapshot.inodes = inodes /\ SerializeSnapshot.dentries = dentries
    /\ SerializeSnapshot.layouts = layouts /\ SerializeSnapshot.next_inode_id = next_inode_id
    /\ SerializeSnapshot' = [inodes |-> inodes', dentries |-> dentries', layouts |-> layouts',
                             next_inode_id |-> next_inode_id']
BY DEF SerializeSnapshot

\* The checks of MetaState, made on the state s, are those made now when s is
\* the state of the moment.
LEMMA SameChecks ==
    ASSUME NEW s, s.inodes = inodes, s.dentries = dentries, s.layouts = layouts
    PROVE  /\ \A p, n : At(s)!CreateError(p, n) = CreateError(p, n)
           /\ \A p, n : At(s)!UnlinkError(p, n) = UnlinkError(p, n)
           /\ \A p, n : At(s)!RmdirError(p, n) = RmdirError(p, n)
           /\ \A p, n, q, m : At(s)!RenameError(p, n, q, m) = RenameError(p, n, q, m)
           /\ \A i : At(s)!FileError(i) = FileError(i)
<1>1. /\ \A i : At(s)!IsDir(i) <=> IsDir(i)
      /\ \A i : At(s)!IsFile(i) <=> IsFile(i)
      /\ \A i : At(s)!IsDirectoryEmpty(i) <=> IsDirectoryEmpty(i)
    BY DEF At!IsDir, IsDir, At!IsFile, IsFile, At!IsDirectoryEmpty, IsDirectoryEmpty
<1>2. ASSUME NEW i PROVE At(s)!ParentOf(i) = ParentOf(i)
    <2>1. At(s)!ParentOf(i) = ParentIn(s.dentries, i)
        BY DEF At!ParentOf, ParentIn, At!Root, Root
    <2>2. ParentOf(i) = ParentIn(dentries, i)
        BY DEF ParentOf, ParentIn
    <2> QED BY <2>1, <2>2
<1>3. \A a, i : At(s)!IsAncestor(a, i) <=> IsAncestor(a, i)
    BY <1>2 DEF At!IsAncestor, IsAncestor
<1>4. \A p, n : At(s)!ParentError(p, n) = ParentError(p, n)
    BY <1>1 DEF At!ParentError, ParentError
<1>5. \A p, n : At(s)!EntryError(p, n) = EntryError(p, n)
    BY <1>4 DEF At!EntryError, EntryError
<1>6. \A x, y : At(s)!TargetError(x, y) = TargetError(x, y)
    BY <1>1 DEF At!TargetError, TargetError
<1>7. \A p, n : At(s)!CreateError(p, n) = CreateError(p, n)
    BY <1>4 DEF At!CreateError, CreateError
<1>8. \A p, n : At(s)!UnlinkError(p, n) = UnlinkError(p, n)
    BY <1>1, <1>5 DEF At!UnlinkError, UnlinkError
<1>9. \A p, n : At(s)!RmdirError(p, n) = RmdirError(p, n)
    BY <1>1, <1>5 DEF At!RmdirError, RmdirError
<1>10. \A p, n, q, m : At(s)!RenameError(p, n, q, m) = RenameError(p, n, q, m)
    BY <1>1, <1>3, <1>4, <1>6 DEF At!RenameError, RenameError
<1>11. \A i : At(s)!FileError(i) = FileError(i)
    BY <1>1 DEF At!FileError, FileError
<1> QED BY <1>7, <1>8, <1>9, <1>10, <1>11

\* This step ends in the state and with the kind of r.
Yields(r) == SerializeSnapshot' = r.data /\ result' = r.kind

\* Refused calls.
LEMMA RejectYields ==
    ASSUME NEW kind, Reject(kind)
    PROVE  Yields(Refused(SerializeSnapshot, kind))
BY DEF Reject, Yields, Refused, SerializeSnapshot, state

\* mkdir and create.
LEMMA CreateYields ==
    ASSUME NEW s, s = SerializeSnapshot, NEW p, NEW n, NEW mode, NEW type \in {"Directory", "File"},
           \/ CreateError(p, n) # "Ok" /\ Reject(CreateError(p, n))
           \/ CreateNode(p, n, type, mode)
    PROVE  Yields(RunCreate(s, p, n, type, mode))
<1>1. At(s)!CreateError(p, n) = CreateError(p, n)
    BY Now, SameChecks
<1>2. CASE CreateError(p, n) # "Ok"
    <2>1. Reject(CreateError(p, n))
        BY <1>2 DEF CreateNode
    <2>2. RunCreate(s, p, n, type, mode) = Refused(s, CreateError(p, n))
        BY <1>1, <1>2 DEF RunCreate
    <2> QED BY <2>1, <2>2, RejectYields
<1>3. CASE CreateError(p, n) = "Ok"
    <2>1. CreateNode(p, n, type, mode)
        BY <1>3
    <2> QED BY <1>1, <1>3, <2>1, Now DEF CreateNode, RunCreate, Done, Yields
<1> QED BY <1>2, <1>3

\* unlink and rmdir.
LEMMA RemoveYields ==
    ASSUME NEW s, s = SerializeSnapshot, NEW p, NEW n, NEW err,
           (err # "Ok" /\ Reject(err)) \/ (err = "Ok" /\ RemoveNode(p, n))
    PROVE  Yields(RunRemove(s, err, p, n))
<1>1. CASE err # "Ok"
    <2>1. RunRemove(s, err, p, n) = Refused(s, err)
        BY <1>1 DEF RunRemove
    <2> QED BY <1>1, <2>1, RejectYields
<1>2. CASE err = "Ok"
    BY <1>2, Now DEF RemoveNode, RunRemove, Done, Yields
<1> QED BY <1>1, <1>2

\* rename.
LEMMA RenameYields ==
    ASSUME NEW s, s = SerializeSnapshot, NEW p, NEW n, NEW q, NEW m, Rename(p, n, q, m)
    PROVE  Yields(RunRename(s, p, n, q, m))
<1> DEFINE already == <<q, m>> \in DOMAIN dentries /\ dentries[<<q, m>>] = dentries[<<p, n>>]
<1>1. PICK err : err = RenameError(p, n, q, m)
    OBVIOUS
<1>2. At(s)!RenameError(p, n, q, m) = err
    BY <1>1, Now, SameChecks
<1>3. \/ err # "Ok" /\ Reject(err)
      \/ err = "Ok" /\ already /\ result' = "Ok" /\ UNCHANGED state
      \/ err = "Ok" /\ ~already /\ MoveEntry(p, n, q, m)
    BY <1>1 DEF Rename
<1>4. CASE err # "Ok" \/ already
    <2>1. Reject(err)
        BY <1>3, <1>4 DEF Reject
    <2>2. RunRename(s, p, n, q, m) = Refused(s, err)
        BY <1>2, <1>4, Now DEF RunRename
    <2> QED BY <2>1, <2>2, RejectYields
<1>5. CASE err = "Ok" /\ ~already
    <2>1. MoveEntry(p, n, q, m)
        BY <1>3, <1>5
    <2>2. PICK moved, target, replaced :
              /\ moved = dentries[<<p, n>>] /\ target = dentries[<<q, m>>]
              /\ replaced = (<<q, m>> \in DOMAIN dentries)
        OBVIOUS
    <2>3. PICK lay : lay = IF replaced THEN LayoutsWithout(layouts, inodes, q, target) ELSE layouts
        OBVIOUS
    <2>4. /\ inodes' = InodesMoved(IF replaced THEN InodesWithout(inodes, q, target) ELSE inodes,
                                   p, q, moved)
          /\ dentries' = Emplace(Erase(dentries, <<p, n>>), <<q, m>>, moved)
          /\ layouts' = SyncAttrs(SyncAttrs(SyncAttrs(lay, inodes', p), inodes', q), inodes', moved)
          /\ next_inode_id' = next_inode_id /\ result' = "Ok"
        BY <2>1, <2>2, <2>3 DEF MoveEntry
    <2>5. RunRename(s, p, n, q, m) = Done(inodes', dentries', layouts', next_inode_id')
        BY <1>2, <1>5, <2>2, <2>3, <2>4, Now DEF RunRename
    <2> QED BY <2>4, <2>5, Now DEF Done, Yields
<1> QED BY <1>4, <1>5

\* setattr.
LEMMA SetAttrYields ==
    ASSUME NEW s, s = SerializeSnapshot, NEW i, NEW m, SetAttr(i, m)
    PROVE  Yields(RunSetAttr(s, i, m))
<1>1. CASE i \notin DOMAIN inodes
    <2>1. Reject("NotFound")
        BY <1>1 DEF SetAttr
    <2>2. RunSetAttr(s, i, m) = Refused(s, "NotFound")
        BY <1>1, Now DEF RunSetAttr
    <2> QED BY <2>1, <2>2, RejectYields
<1>2. CASE i \in DOMAIN inodes
    BY <1>2, Now DEF SetAttr, RunSetAttr, Done, Yields
<1> QED BY <1>1, <1>2

\* truncate.
LEMMA TruncateYields ==
    ASSUME NEW s, s = SerializeSnapshot, NEW i, NEW size, Truncate(i, size)
    PROVE  Yields(RunTruncate(s, i, size))
<1>1. At(s)!FileError(i) = FileError(i)
    BY Now, SameChecks
<1>2. CASE FileError(i) # "Ok"
    <2>1. Reject(FileError(i)) /\ RunTruncate(s, i, size) = Refused(s, FileError(i))
        BY <1>1, <1>2 DEF Truncate, RunTruncate
    <2> QED BY <2>1, RejectYields
<1>3. CASE FileError(i) = "Ok"
    <2>1. RunTruncate(s, i, size) = Done(inodes', dentries', layouts', next_inode_id')
        BY <1>1, <1>3, Now DEF Truncate, RunTruncate, RunResize, SetSize
    <2> QED BY <1>3, <2>1, Now DEF Truncate, Done, Yields
<1> QED BY <1>2, <1>3

\* commit_write and append_write.
LEMMA MergeYields ==
    ASSUME NEW s, s = SerializeSnapshot, NEW i, NEW es, NEW size, Len(es) \in Nat,
           (FileError(i) # "Ok" /\ Reject(FileError(i))) \/ MergeBatch(i, es, size)
    PROVE  Yields(RunMerge(s, i, es, size))
<1>1. At(s)!FileError(i) = FileError(i)
    BY Now, SameChecks
<1>2. CASE FileError(i) # "Ok"
    <2>1. Reject(FileError(i)) /\ RunMerge(s, i, es, size) = Refused(s, FileError(i))
        BY <1>1, <1>2 DEF MergeBatch, RunMerge
    <2> QED BY <2>1, RejectYields
<1>3. CASE FileError(i) = "Ok"
    <2>1. PICK n, merged : n = AcceptedPrefix(es) /\ merged = MergeFirst(layouts[i].extents, es, n)
        OBVIOUS
    <2>2. /\ \/ /\ n < Len(es) /\ result' = "InvalidArgument" /\ inodes' = inodes
                /\ layouts' = [layouts EXCEPT ![i].extents = merged]
             \/ /\ n = Len(es) /\ result' = "Ok" /\ inodes' = SetSize(i, size)
                /\ layouts' = [layouts EXCEPT ![i] = [attrs |-> inodes'[i], extents |-> merged]]
          /\ dentries' = dentries /\ next_inode_id' = next_inode_id
        BY <1>3, <2>1 DEF MergeBatch
    <2>3. CASE n < Len(es)
        <3>1. ~(n = Len(es))
            BY <2>3
        <3>2. RunMerge(s, i, es, size) =
                  Refused([s EXCEPT !.layouts = [s.layouts EXCEPT ![i].extents = merged]],
                          "InvalidArgument")
            BY <1>1, <1>3, <2>1, <2>3, Now DEF RunMerge
        <3>3. layouts' = [s.layouts EXCEPT ![i].extents = merged] /\ result' = "InvalidArgument"
            BY <2>2, <3>1, Now
        <3>4. [s EXCEPT !.layouts = layouts'] = SerializeSnapshot'
            BY <2>2, <3>1 DEF SerializeSnapshot
        <3> QED BY <3>2, <3>3, <3>4 DEF Refused, Yields
    <2>4. CASE ~(n < Len(es))
        <3>1. /\ result' = "Ok" /\ inodes' = TouchInode([s.inodes EXCEPT ![i].size = size], i)
              /\ layouts' = [s.layouts EXCEPT ![i] = [attrs |-> inodes'[i], extents |-> merged]]
              /\ dentries' = s.dentries /\ next_inode_id' = s.next_inode_id
            BY <2>2, <2>4, Now DEF SetSize
        <3>2. RunMerge(s, i, es, size) = RunResize(s, i, size, merged)
            BY <1>1, <1>3, <2>1, <2>4, Now DEF RunMerge
        <3>3. RunResize(s, i, size, merged) = Done(inodes', dentries', layouts', next_inode_id')
            BY <3>1 DEF RunResize
        <3> QED BY <3>1, <3>2, <3>3, Now DEF Done, Yields
    <2> QED BY <2>3, <2>4
<1> QED BY <1>2, <1>3

\* What a command does is a function of the state and the command.
LEMMA ApplyYields ==
    ASSUME NEW s, s = SerializeSnapshot, NEW c \in RaftCommand, ApplyCommand(c)
    PROVE  Yields(Run(s, c))
<1>1. ASSUME NEW p \in InodeIds, NEW n \in AnyName, NEW mode \in Modes, c = MkdirCommand(p, n, mode)
      PROVE  Yields(Run(s, c))
    <2>1. c.op = "mkdir" /\ c.parent = p /\ c.name = n /\ c.mode = mode
        BY <1>1 DEF MkdirCommand
    <2>2. Run(s, c) = RunCreate(s, p, n, "Directory", mode) /\ Mkdir(p, n, mode)
        BY <2>1 DEF Run, ApplyCommand
    <2> QED BY <2>2, CreateYields DEF Mkdir
<1>2. ASSUME NEW p \in InodeIds, NEW n \in AnyName, NEW mode \in Modes,
             c = CreateFileCommand(p, n, mode)
      PROVE  Yields(Run(s, c))
    <2>1. c.op = "create_file" /\ c.parent = p /\ c.name = n /\ c.mode = mode
        BY <1>2 DEF CreateFileCommand
    <2>2. Run(s, c) = RunCreate(s, p, n, "File", mode) /\ CreateFile(p, n, mode)
        BY <2>1 DEF Run, ApplyCommand
    <2> QED BY <2>2, CreateYields DEF CreateFile
<1>3. ASSUME NEW i \in InodeIds, NEW mode \in Modes, c = SetAttrCommand(i, mode)
      PROVE  Yields(Run(s, c))
    <2>1. c.op = "set_attr" /\ c.inode_id = i /\ c.mode = mode
        BY <1>3 DEF SetAttrCommand
    <2>2. Run(s, c) = RunSetAttr(s, i, mode) /\ SetAttr(i, mode)
        BY <2>1 DEF Run, ApplyCommand
    <2> QED BY <2>2, SetAttrYields
<1>4. ASSUME NEW p \in InodeIds, NEW n \in AnyName, c = UnlinkCommand(p, n)
      PROVE  Yields(Run(s, c))
    <2>1. c.op = "unlink" /\ c.parent = p /\ c.name = n
        BY <1>4 DEF UnlinkCommand
    <2>2. Run(s, c) = RunRemove(s, At(s)!UnlinkError(p, n), p, n) /\ Unlink(p, n)
        BY <2>1 DEF Run, ApplyCommand
    <2>3. At(s)!UnlinkError(p, n) = UnlinkError(p, n)
        BY Now, SameChecks
    <2> QED BY <2>2, <2>3, RemoveYields DEF Unlink
<1>5. ASSUME NEW p \in InodeIds, NEW n \in AnyName, c = RmdirCommand(p, n)
      PROVE  Yields(Run(s, c))
    <2>1. c.op = "rmdir" /\ c.parent = p /\ c.name = n
        BY <1>5 DEF RmdirCommand
    <2>2. Run(s, c) = RunRemove(s, At(s)!RmdirError(p, n), p, n) /\ Rmdir(p, n)
        BY <2>1 DEF Run, ApplyCommand
    <2>3. At(s)!RmdirError(p, n) = RmdirError(p, n)
        BY Now, SameChecks
    <2> QED BY <2>2, <2>3, RemoveYields DEF Rmdir
<1>6. ASSUME NEW p \in InodeIds, NEW q \in InodeIds, NEW n \in AnyName, NEW m \in AnyName,
             c = RenameCommand(p, n, q, m)
      PROVE  Yields(Run(s, c))
    <2>1. /\ c.op = "rename" /\ c.old_parent = p /\ c.old_name = n
          /\ c.new_parent = q /\ c.new_name = m
        BY <1>6 DEF RenameCommand
    <2>2. Run(s, c) = RunRename(s, p, n, q, m) /\ Rename(p, n, q, m)
        BY <2>1 DEF Run, ApplyCommand
    <2> QED BY <2>2, RenameYields
<1>7. ASSUME NEW i \in InodeIds, NEW es \in Batches, c = CommitWriteCommand(i, es)
      PROVE  Yields(Run(s, c))
    <2>1. c.op = "commit_write" /\ c.inode_id = i /\ c.extents = es /\ s.inodes = inodes
        BY <1>7, Now DEF CommitWriteCommand
    <2>2. PICK size : size = LargerOf(inodes[i].size, BatchEnd(es))
        OBVIOUS
    <2>3. Run(s, c) = RunMerge(s, i, es, size) /\ CommitWrite(i, es)
        BY <2>1, <2>2 DEF Run, ApplyCommand
    <2>4. Len(es) \in Nat
        BY MetaStateAssumption
    <2> QED BY <2>2, <2>3, <2>4, MergeYields DEF CommitWrite
<1>8. ASSUME NEW i \in InodeIds, NEW es \in Batches, c = AppendWriteCommand(i, es)
      PROVE  Yields(Run(s, c))
    <2>1. c.op = "append_write" /\ c.inode_id = i /\ c.extents = es /\ s.inodes = inodes
        BY <1>8, Now DEF AppendWriteCommand
    <2>2. PICK sh, size : sh = ShiftBatch(es, inodes[i].size) /\ size = inodes[i].size + BatchEnd(es)
        OBVIOUS
    <2>3. Run(s, c) = RunMerge(s, i, sh, size) /\ AppendWrite(i, es)
        BY <2>1, <2>2 DEF Run, ApplyCommand
    <2>4. Len(sh) \in Nat
        <3>1. Len(es) \in Nat
            BY MetaStateAssumption
        <3> QED BY <2>2, <3>1 DEF ShiftBatch
    <2> QED BY <2>2, <2>3, <2>4, MergeYields DEF AppendWrite
<1>9. ASSUME NEW i \in InodeIds, NEW size \in Sizes, c = TruncateCommand(i, size)
      PROVE  Yields(Run(s, c))
    <2>1. c.op = "truncate" /\ c.inode_id = i /\ c.size = size
        BY <1>9 DEF TruncateCommand
    <2>2. Run(s, c) = RunTruncate(s, i, size) /\ Truncate(i, size)
        BY <2>1 DEF Run, ApplyCommand
    <2> QED BY <2>2, TruncateYields
<1> QED BY <1>1, <1>2, <1>3, <1>4, <1>5, <1>6, <1>7, <1>8, <1>9 DEF RaftCommand

Entry == RaftCommand \cup {EmptyEntry}

\* No command is the empty entry.
LEMMA CommandsAreNotEmpty == EmptyEntry \notin RaftCommand
<1>1. \A c \in RaftCommand : c.op # "empty"
    BY DEF RaftCommand, MkdirCommand, CreateFileCommand, SetAttrCommand, UnlinkCommand,
           RmdirCommand, RenameCommand, CommitWriteCommand, AppendWriteCommand, TruncateCommand
<1> QED BY <1>1 DEF EmptyEntry

\* The same of any entry of the log.
LEMMA EntryYields ==
    ASSUME NEW s, s = SerializeSnapshot, NEW c \in Entry, ApplyCommand(c)
    PROVE  /\ SerializeSnapshot' = Run(s, c).data
           /\ c # EmptyEntry => c \in RaftCommand /\ result' = Run(s, c).kind
<1>1. CASE c \in RaftCommand
    BY <1>1, ApplyYields DEF Yields
<1>2. CASE c = EmptyEntry
    <2>1. c.op = "empty"
        BY <1>2 DEF EmptyEntry
    <2>2. UNCHANGED vars /\ Run(s, c) = Refused(s, "Ok")
        BY <2>1 DEF ApplyCommand, Run
    <2> QED BY <1>2, <2>2 DEF vars, SerializeSnapshot, Refused
<1> QED BY <1>1, <1>2 DEF Entry

\* A command of the log is a step of MetaState.
LEMMA CommandIsStep ==
    ASSUME NEW c \in RaftCommand, ApplyCommand(c)
    PROVE  Next
<1>1. ASSUME NEW p \in InodeIds, NEW n \in AnyName, NEW mode \in Modes,
             c = MkdirCommand(p, n, mode) \/ c = CreateFileCommand(p, n, mode)
      PROVE  Next
    <2>1. c.op \in {"mkdir", "create_file"} /\ c.parent = p /\ c.name = n /\ c.mode = mode
        BY <1>1 DEF MkdirCommand, CreateFileCommand
    <2>2. Mkdir(p, n, mode) \/ CreateFile(p, n, mode)
        BY <2>1 DEF ApplyCommand
    <2> QED BY <2>2 DEF Next, NamespaceStep
<1>2. ASSUME NEW p \in InodeIds, NEW n \in AnyName,
             c = UnlinkCommand(p, n) \/ c = RmdirCommand(p, n)
      PROVE  Next
    <2>1. c.op \in {"unlink", "rmdir"} /\ c.parent = p /\ c.name = n
        BY <1>2 DEF UnlinkCommand, RmdirCommand
    <2>2. Unlink(p, n) \/ Rmdir(p, n)
        BY <2>1 DEF ApplyCommand
    <2> QED BY <2>2 DEF Next, NamespaceStep
<1>3. ASSUME NEW p \in InodeIds, NEW q \in InodeIds, NEW n \in AnyName, NEW m \in AnyName,
             c = RenameCommand(p, n, q, m)
      PROVE  Next
    <2>1. /\ c.op = "rename" /\ c.old_parent = p /\ c.old_name = n
          /\ c.new_parent = q /\ c.new_name = m
        BY <1>3 DEF RenameCommand
    <2>2. Rename(p, n, q, m)
        BY <2>1 DEF ApplyCommand
    <2> QED BY <2>2 DEF Next, NamespaceStep
<1>4. ASSUME NEW i \in InodeIds, NEW mode \in Modes, c = SetAttrCommand(i, mode) PROVE Next
    <2>1. c.op = "set_attr" /\ c.inode_id = i /\ c.mode = mode
        BY <1>4 DEF SetAttrCommand
    <2>2. SetAttr(i, mode)
        BY <2>1 DEF ApplyCommand
    <2> QED BY <2>2 DEF Next, FileStep
<1>5. ASSUME NEW i \in InodeIds, NEW es \in Batches,
             c = CommitWriteCommand(i, es) \/ c = AppendWriteCommand(i, es)
      PROVE  Next
    <2>1. c.op \in {"commit_write", "append_write"} /\ c.inode_id = i /\ c.extents = es
        BY <1>5 DEF CommitWriteCommand, AppendWriteCommand
    <2>2. CommitWrite(i, es) \/ AppendWrite(i, es)
        BY <2>1 DEF ApplyCommand
    <2> QED BY <2>2 DEF Next, FileStep
<1>6. ASSUME NEW i \in InodeIds, NEW size \in Sizes, c = TruncateCommand(i, size) PROVE Next
    <2>1. c.op = "truncate" /\ c.inode_id = i /\ c.size = size
        BY <1>6 DEF TruncateCommand
    <2>2. Truncate(i, size)
        BY <2>1 DEF ApplyCommand
    <2> QED BY <2>2 DEF Next, FileStep
<1> QED BY <1>1, <1>2, <1>3, <1>4, <1>5, <1>6 DEF RaftCommand

\* Every step of MetaState answers with one of its kinds.
LEMMA StepKinds ==
    ASSUME Next
    PROVE  result' \in Kinds
<1>1. ASSUME NEW err \in Kinds, Reject(err) PROVE result' \in Kinds
    BY <1>1 DEF Reject
<1>2. ASSUME NEW p, NEW n, NEW mode, Mkdir(p, n, mode) \/ CreateFile(p, n, mode)
      PROVE  result' \in Kinds
    <2>1. CreateError(p, n) \in Kinds
        BY ErrorKinds
    <2> QED BY <1>1, <1>2, <2>1 DEF Mkdir, CreateFile, CreateNode, Kinds
<1>3. ASSUME NEW p, NEW n, Unlink(p, n) \/ Rmdir(p, n) PROVE result' \in Kinds
    <2>1. UnlinkError(p, n) \in Kinds /\ RmdirError(p, n) \in Kinds
        BY ErrorKinds
    <2> QED BY <1>1, <1>3, <2>1 DEF Unlink, Rmdir, RemoveNode, Kinds
<1>4. ASSUME NEW p, NEW n, NEW q, NEW m, Rename(p, n, q, m) PROVE result' \in Kinds
    <2>1. RenameError(p, n, q, m) \in Kinds
        BY ErrorKinds
    <2> QED BY <1>1, <1>4, <2>1 DEF Rename, MoveEntry, Kinds
<1>5. ASSUME NEW i, NEW m, SetAttr(i, m) PROVE result' \in Kinds
    BY <1>5 DEF SetAttr, Reject, Kinds
<1>6. ASSUME NEW i, \/ \E es : CommitWrite(i, es) \/ AppendWrite(i, es)
                    \/ \E size : Truncate(i, size)
      PROVE  result' \in Kinds
    <2>1. FileError(i) \in Kinds
        BY ErrorKinds
    <2> QED BY <1>1, <1>6, <2>1 DEF CommitWrite, AppendWrite, Truncate, MergeBatch, Kinds
<1> QED BY <1>2, <1>3, <1>4, <1>5, <1>6 DEF Next, NamespaceStep, FileStep

-----------------------------------------------------------------------------
(***************************************************************************)
(* The log and what was made of it.                                        *)
(***************************************************************************)
\* A state as SerializeSnapshot writes it.
IsState(s) ==
    s = [inodes |-> s.inodes, dentries |-> s.dentries, layouts |-> s.layouts,
         next_inode_id |-> s.next_inode_id]

\* What SerializeSnapshot writes is a state of MetaState.
LEMMA SnapshotIsState == IsState(SerializeSnapshot)
BY DEF IsState, SerializeSnapshot

\* The entries up to the last one ever applied are committed, so they stay in
\* the log, and their states follow one from another.  The state in memory and
\* the snapshot are among them.
LogInv ==
    /\ log \in Seq(Entry)
    /\ committed \in Nat /\ committed <= Len(log)
    /\ Furthest \in Nat /\ Furthest <= committed /\ DOMAIN past = 0 .. Furthest
    /\ applied \in 0 .. Furthest
    /\ \A n \in 0 .. Furthest : past[n].result \in Kinds
    /\ \A n \in 1 .. Furthest : past[n].data = Run(past[n - 1].data, log[n]).data
    /\ SerializeSnapshot = past[applied].data
    /\ snapshot.index \in 0 .. Furthest /\ snapshot.data = past[snapshot.index].data
    /\ IsState(snapshot.data)

\* How far the history goes.
LEMMA FurthestIs ==
    /\ \A n \in Nat : DOMAIN past = 0 .. n => Furthest = n
    /\ \A n \in Nat : DOMAIN past' = 0 .. n => Furthest' = n
<1>1. \A n \in Nat : Cardinality(0 .. n) - 1 = n
    <2> SUFFICES ASSUME NEW n \in Nat PROVE Cardinality(0 .. n) = n + 1
        OBVIOUS
    <2>1. Cardinality(0 .. n) = n - 0 + 1
        BY FS_Interval
    <2> QED BY <2>1
<1> QED BY <1>1 DEF Furthest

\* The history is the empty state alone at the start.
LEMMA LogInit == ServiceInit => LogInv
<1> SUFFICES ASSUME ServiceInit PROVE LogInv
    OBVIOUS
<1>1. DOMAIN past = {0} /\ {0} = 0 .. 0
    BY DEF ServiceInit
<1>2. Furthest = 0
    BY <1>1, FurthestIs
<1>3. log \in Seq(Entry) /\ Len(log) \in Nat
    BY DEF ServiceInit, Entry
<1> QED BY <1>1, <1>2, <1>3, SnapshotIsState DEF ServiceInit, LogInv, Kinds

\* A step that leaves history, state and snapshot alone and only adds to the log.
LEMMA LongerLog ==
    ASSUME LogInv, UNCHANGED <<inodes, dentries, layouts, next_inode_id, applied, snapshot, past>>,
           log' \in Seq(Entry), committed' \in Nat, committed <= committed', committed' <= Len(log'),
           \A n \in 1 .. committed : log'[n] = log[n]
    PROVE  LogInv' /\ Furthest' = Furthest
<1>1. Furthest' = Furthest
    BY DEF Furthest
<1>2. SerializeSnapshot' = SerializeSnapshot
    BY DEF SerializeSnapshot
<1>3. \A n \in 1 .. Furthest : n \in 1 .. committed
    BY DEF LogInv
<1>4. Furthest <= committed'
    BY DEF LogInv
<1> QED BY <1>1, <1>2, <1>3, <1>4 DEF LogInv

\* What an Apply does.  An entry that was applied before leads to the state it
\* led to then; any other is the first behind the history and extends it.
LEMMA ApplyIs ==
    ASSUME LogInv, Apply
    PROVE  LET n == applied + 1 IN
           /\ n \in 1 .. Len(log) /\ log[n] \in Entry /\ applied' = n /\ n <= committed
           /\ SerializeSnapshot' = Run(past[applied].data, log[n]).data
           /\ \/ /\ n <= Furthest /\ past' = past /\ SerializeSnapshot' = past[n].data
              \/ /\ n = Furthest + 1 /\ DOMAIN past' = 0 .. n
                 /\ \A m \in 0 .. Furthest : past'[m] = past[m]
                 /\ past'[n] = [data |-> SerializeSnapshot', ctime |-> ctime',
                                result |-> IF log[n] = EmptyEntry THEN past[applied].result
                                           ELSE result']
<1> DEFINE n == applied + 1
<1>1. n \in 1 .. Len(log) /\ log[n] \in Entry /\ applied' = n /\ n <= committed /\ n - 1 = applied
    <2>1. applied \in Nat /\ committed \in Nat /\ applied < committed /\ committed <= Len(log)
        BY DEF LogInv, Apply
    <2>2. Len(log) \in Nat /\ log \in Seq(Entry)
        BY DEF LogInv
    <2>3. n \in 1 .. Len(log) /\ n <= committed /\ n - 1 = applied
        BY <2>1, <2>2
    <2> QED BY <2>2, <2>3 DEF Apply
<1>2. SerializeSnapshot' = Run(past[applied].data, log[n]).data
    <2>1. SerializeSnapshot = past[applied].data /\ ApplyCommand(log[n])
        BY DEF LogInv, Apply
    <2> QED BY <1>1, <2>1, EntryYields
<1>3. DOMAIN past = 0 .. Furthest /\ Furthest \in Nat /\ applied \in 0 .. Furthest
    BY DEF LogInv
<1>4. CASE n <= Furthest
    <2>1. n \in 1 .. Furthest /\ n \in DOMAIN past
        BY <1>1, <1>3, <1>4
    <2>2. past[n].data = Run(past[n - 1].data, log[n]).data
        BY <2>1 DEF LogInv
    <2> QED BY <1>1, <1>2, <1>4, <2>1, <2>2 DEF Apply
<1>5. CASE ~(n <= Furthest)
    <2>1. n = Furthest + 1 /\ n \notin DOMAIN past /\ (0 .. Furthest) \cup {n} = 0 .. n
        BY <1>1, <1>3, <1>5
    <2>2. past' = Emplace(past, n, [data |-> SerializeSnapshot', ctime |-> ctime',
                                    result |-> IF log[n] = EmptyEntry THEN past[applied].result
                                               ELSE result'])
        BY <2>1 DEF Apply
    <2>3. DOMAIN past' = 0 .. n /\ n \notin 0 .. Furthest
        BY <1>3, <2>1, <2>2 DEF Emplace
    <2> HIDE DEF n
    <2>4. /\ \A m \in 0 .. Furthest : past'[m] = past[m]
          /\ past'[n] = [data |-> SerializeSnapshot', ctime |-> ctime',
                         result |-> IF log[n] = EmptyEntry THEN past[applied].result
                                    ELSE result']
        BY <1>3, <2>2, <2>3 DEF Emplace
    <2> QED BY <1>1, <1>2, <2>1, <2>3, <2>4 DEF n
<1> QED BY <1>4, <1>5

\* An Apply runs the next entry again, or extends the history by it.
LEMMA ApplyLog ==
    ASSUME LogInv, Apply
    PROVE  LogInv' /\ Furthest <= Furthest'
<1> DEFINE n == applied + 1
<1>1. /\ n \in 1 .. Len(log) /\ log[n] \in Entry /\ applied' = n /\ n <= committed
      /\ SerializeSnapshot' = Run(past[applied].data, log[n]).data
      /\ \/ /\ n <= Furthest /\ past' = past /\ SerializeSnapshot' = past[n].data
         \/ /\ n = Furthest + 1 /\ DOMAIN past' = 0 .. n
            /\ \A m \in 0 .. Furthest : past'[m] = past[m]
            /\ past'[n] = [data |-> SerializeSnapshot', ctime |-> ctime',
                           result |-> IF log[n] = EmptyEntry THEN past[applied].result
                                      ELSE result']
    BY ApplyIs
<1>2. UNCHANGED <<log, committed, snapshot>>
    BY DEF Apply
<1>3. Furthest \in Nat /\ applied \in 0 .. Furthest /\ Len(log) \in Nat
    BY DEF LogInv
<1>4. CASE n <= Furthest /\ past' = past /\ SerializeSnapshot' = past[n].data
    <2>1. Furthest' = Furthest /\ n \in 0 .. Furthest
        BY <1>1, <1>3, <1>4 DEF Furthest
    <2>2. SerializeSnapshot' = past'[applied'].data /\ applied' \in 0 .. Furthest'
        BY <1>1, <1>4, <2>1
    <2> HIDE DEF n
    <2> QED BY <1>2, <1>3, <1>4, <2>1, <2>2 DEF LogInv
<1>5. CASE /\ n = Furthest + 1 /\ DOMAIN past' = 0 .. n
           /\ \A m \in 0 .. Furthest : past'[m] = past[m]
           /\ past'[n] = [data |-> SerializeSnapshot', ctime |-> ctime',
                          result |-> IF log[n] = EmptyEntry THEN past[applied].result
                                     ELSE result']
    <2>1. Furthest' = n /\ n \in Nat /\ applied = Furthest /\ applied = n - 1
        BY <1>3, <1>5, FurthestIs
    <2>2. past'[n].data = SerializeSnapshot' /\ past'[applied] = past[applied]
        BY <1>3, <1>5
    <2>3. past'[n].result \in Kinds
        <3>1. CASE log[n] = EmptyEntry
            BY <1>3, <1>5, <3>1 DEF LogInv
        <3>2. CASE log[n] # EmptyEntry
            <4>1. log[n] \in RaftCommand /\ ApplyCommand(log[n])
                BY <1>1, <3>2 DEF Entry, Apply
            <4>2. result' \in Kinds
                BY <4>1, CommandIsStep, StepKinds
            <4> QED BY <1>5, <3>2, <4>2
        <3> QED BY <3>1, <3>2
    <2> HIDE DEF n
    <2>4. \A m \in 0 .. n : m \in 0 .. Furthest \/ m = n
        BY <1>3, <1>5
    <2>5. \A m \in 0 .. n : past'[m].result \in Kinds
        BY <1>5, <2>3, <2>4 DEF LogInv
    <2>6. \A m \in 1 .. n : /\ past'[m - 1] = past[m - 1]
                            /\ past'[m].data = Run(past[m - 1].data, log'[m]).data
        <3> SUFFICES ASSUME NEW m \in 1 .. n
                     PROVE  /\ past'[m - 1] = past[m - 1]
                            /\ past'[m].data = Run(past[m - 1].data, log'[m]).data
            OBVIOUS
        <3>1. CASE m = n
            BY <1>1, <1>2, <2>1, <2>2, <3>1
        <3>2. CASE m # n
            <4>1. m \in 1 .. Furthest /\ m \in 0 .. Furthest /\ m - 1 \in 0 .. Furthest
                BY <1>3, <2>1, <3>2
            <4>2. past'[m] = past[m] /\ past'[m - 1] = past[m - 1]
                BY <1>5, <4>1
            <4>3. past[m].data = Run(past[m - 1].data, log[m]).data
                BY <4>1 DEF LogInv
            <4> QED BY <1>2, <4>2, <4>3
        <3> QED BY <3>1, <3>2
    <2>7. SerializeSnapshot' = past'[applied'].data /\ applied' \in 0 .. Furthest'
        BY <1>1, <2>1, <2>2
    <2>8. /\ snapshot'.index \in 0 .. Furthest' /\ snapshot'.data = past'[snapshot'.index].data
          /\ IsState(snapshot'.data)
        <3>1. /\ snapshot.index \in 0 .. Furthest /\ snapshot.data = past[snapshot.index].data
              /\ IsState(snapshot.data)
            BY DEF LogInv
        <3>2. snapshot.index \in 0 .. Furthest'
            BY <1>3, <1>5, <2>1, <3>1
        <3> QED BY <1>2, <1>5, <3>1, <3>2
    <2>9. /\ log' \in Seq(Entry) /\ committed' \in Nat /\ committed' <= Len(log')
          /\ Furthest' \in Nat /\ Furthest' <= committed' /\ DOMAIN past' = 0 .. Furthest'
        BY <1>1, <1>2, <1>5, <2>1 DEF LogInv
    <2> QED BY <1>3, <1>5, <2>1, <2>5, <2>6, <2>7, <2>8, <2>9 DEF LogInv
<1> QED BY <1>1, <1>4, <1>5

\* A crash keeps what is committed, and goes back to the snapshot.
LEMMA RestartLog ==
    ASSUME LogInv, Restart
    PROVE  LogInv' /\ Furthest' = Furthest
<1>1. PICK n \in committed .. Len(log) : log' = Append(SubSeq(log, 1, n), EmptyEntry)
    BY DEF Restart
<1>2. log \in Seq(Entry) /\ Len(log) \in Nat /\ committed \in Nat /\ committed <= Len(log)
    BY DEF LogInv
<1>3. n \in Nat /\ n <= Len(log) /\ committed <= n
    BY <1>1, <1>2
<1>4. /\ SubSeq(log, 1, n) \in Seq(Entry) /\ Len(SubSeq(log, 1, n)) = n
      /\ \A m \in 1 .. n : SubSeq(log, 1, n)[m] = log[m]
    BY <1>2, <1>3
<1>5. EmptyEntry \in Entry
    BY DEF Entry
<1>6. log' \in Seq(Entry) /\ Len(log') = n + 1 /\ \A m \in 1 .. n : log'[m] = log[m]
    BY <1>1, <1>3, <1>4, <1>5
<1>7. committed' <= Len(log') /\ \A m \in 1 .. Furthest : log'[m] = log[m]
    <2>1. committed' = committed /\ Furthest \in Nat /\ Furthest <= committed
        BY DEF LogInv, Restart
    <2>2. \A m \in 1 .. Furthest : m \in 1 .. n
        BY <1>2, <1>3, <2>1
    <2> QED BY <1>2, <1>3, <1>6, <2>1, <2>2
<1>8. UNCHANGED <<committed, snapshot, past>> /\ Furthest' = Furthest
    BY DEF Restart, Furthest
<1>9. applied' = snapshot.index /\ SerializeSnapshot' = snapshot.data
    <2>1. applied' = snapshot.index /\ RestoreSnapshot(snapshot.data)
        BY DEF Restart, StartFrom
    <2>2. IsState(snapshot.data)
        BY DEF LogInv
    <2> QED BY <2>1, <2>2 DEF RestoreSnapshot, SerializeSnapshot, IsState
<1> QED BY <1>6, <1>7, <1>8, <1>9 DEF LogInv

\* The steps of the clients leave everything but the calls and the log alone.
LEMMA ClientLog ==
    ASSUME LogInv, NEW c \in Clients, ClientStep(c)
    PROVE  /\ LogInv' /\ Furthest' = Furthest
           /\ UNCHANGED <<vars, committed, applied, snapshot, boot, ctime, past>>
           /\ \A n \in 1 .. Len(log) : log'[n] = log[n]
<1>1. log \in Seq(Entry) /\ Len(log) \in Nat /\ committed \in Nat /\ committed <= Len(log)
    BY DEF LogInv
<1>2. UNCHANGED <<vars, committed, applied, snapshot, boot, ctime, past>>
    BY DEF ClientStep, Propose, LinearizableRead, TimedOut, ReplyToProposal, ReplyToRead, node
<1>3. log' = log \/ \E command \in Entry : log' = Append(log, command)
    BY ServiceAssumption DEF ClientStep, Propose, LinearizableRead, TimedOut, ReplyToProposal,
                             ReplyToRead, node, Entry
<1>4. /\ log' \in Seq(Entry) /\ Len(log) <= Len(log')
      /\ \A n \in 1 .. Len(log) : log'[n] = log[n]
    BY <1>1, <1>3
<1>5. Len(log') \in Nat
    BY <1>4
<1>6. committed' <= Len(log') /\ \A n \in 1 .. committed : log'[n] = log[n]
    BY <1>1, <1>2, <1>4, <1>5
<1>7. LogInv' /\ Furthest' = Furthest
    BY <1>1, <1>2, <1>4, <1>6, LongerLog DEF vars
<1> QED BY <1>2, <1>4, <1>7

\* Each step keeps LogInv.
LEMMA LogStep == LogInv /\ [ServiceNext]_serviceVars => LogInv'
<1> SUFFICES ASSUME LogInv, [ServiceNext]_serviceVars PROVE LogInv'
    OBVIOUS
<1>1. ASSUME NEW c \in Clients, ClientStep(c) PROVE LogInv'
    BY <1>1, ClientLog
<1>2. CASE Commit
    <2>1. Len(log) \in Nat /\ log \in Seq(Entry) /\ committed \in Nat
        BY DEF LogInv
    <2> QED BY <1>2, <2>1, LongerLog DEF Commit, vars
<1>3. CASE Apply
    BY <1>3, ApplyLog
<1>4. CASE TakeSnapshot
    <2>1. UNCHANGED <<vars, log, committed, applied, past>> /\ Furthest' = Furthest
        BY <1>4 DEF TakeSnapshot, Furthest
    <2>2. SerializeSnapshot' = SerializeSnapshot
        BY <2>1 DEF vars, SerializeSnapshot
    <2>3. snapshot'.index = applied /\ snapshot'.data = SerializeSnapshot
        BY <1>4 DEF TakeSnapshot
    <2> QED BY <2>1, <2>2, <2>3, SnapshotIsState DEF LogInv
<1>5. CASE Restart
    BY <1>5, RestartLog
<1>6. CASE UNCHANGED serviceVars
    <2>1. UNCHANGED <<vars, log, committed, applied, snapshot, past>> /\ Furthest' = Furthest
        BY <1>6 DEF serviceVars, node, Furthest
    <2>2. SerializeSnapshot' = SerializeSnapshot
        BY <2>1 DEF vars, SerializeSnapshot
    <2> QED BY <2>1, <2>2 DEF LogInv
<1> QED BY <1>1, <1>2, <1>3, <1>4, <1>5, <1>6 DEF ServiceNext

\* The invariant of the log holds throughout.
LEMMA LogInvariant == ServiceSpec => []LogInv
BY LogInit, LogStep, PTL DEF ServiceSpec

-----------------------------------------------------------------------------
(***************************************************************************)
(* What the clients are told.                                              *)
(***************************************************************************)
\* The kind of a refusal survives the response, the status and the client:
\* the kernel gets the errno of that kind, and "0" only for a success.
LEMMA ReplyIsPosix ==
    ASSUME NEW k \in Kinds
    PROVE  ProposalReply(IF k = "Ok" THEN [attrs |-> "Ok"] ELSE MakeErrorResponse(k)) =
           PosixErrno[k]
<1>1. CASE k = "Ok"
    BY <1>1 DEF ProposalReply, PosixErrno
<1>2. CASE k # "Ok"
    <2>1. k \in StateKinds
        BY <1>2 DEF Kinds, StateKinds
    <2>2. MakeErrorResponse(k) = [error |-> k] /\ [error |-> k] # [attrs |-> "Ok"]
        <3>1. DOMAIN [error |-> k] = {"error"} /\ DOMAIN [attrs |-> "Ok"] = {"attrs"}
            OBVIOUS
        <3> QED BY <3>1 DEF MakeErrorResponse
    <2>3. ErrorFromResponse(MakeErrorResponse(k)) = k
        BY <2>1, <2>2 DEF ErrorFromResponse
    <2>4. ProposalReply(MakeErrorResponse(k)) = ErrnoFor(k)
        BY <2>2, <2>3 DEF ProposalReply
    <2>5. ErrnoFor(k) = PosixErrno[k]
        <3>1. CASE k = "InvalidArgument"
            BY <3>1 DEF ErrnoFor, ToGrpcStatus, ToGrpcStatusCode, FromGrpcStatus, KindOfCode,
                        ToErrno, PosixErrno
        <3>2. CASE k = "NotFound"
            BY <3>2 DEF ErrnoFor, ToGrpcStatus, ToGrpcStatusCode, FromGrpcStatus, KindOfCode,
                        ToErrno, PosixErrno
        <3>3. CASE k = "AlreadyExists"
            BY <3>3 DEF ErrnoFor, ToGrpcStatus, ToGrpcStatusCode, FromGrpcStatus, KindOfCode,
                        ToErrno, PosixErrno
        <3>4. CASE k = "NotDirectory"
            BY <3>4 DEF ErrnoFor, ToGrpcStatus, FromGrpcStatus, ToErrno, PosixErrno
        <3>5. CASE k = "IsDirectory"
            BY <3>5 DEF ErrnoFor, ToGrpcStatus, FromGrpcStatus, ToErrno, PosixErrno
        <3>6. CASE k = "DirectoryNotEmpty"
            BY <3>6 DEF ErrnoFor, ToGrpcStatus, FromGrpcStatus, ToErrno, PosixErrno
        <3> QED BY <2>1, <3>1, <3>2, <3>3, <3>4, <3>5, <3>6 DEF StateKinds
    <2> QED BY <1>2, <2>4, <2>5
<1> QED BY <1>1, <1>2

\* Of a call whose outcome is open the kernel is told what means no outcome.
LEMMA FailuresAreOpen == FailureErrnos \subseteq {"EAGAIN", "ETIMEDOUT"}
<1>1. ErrnoFor(FromRaftError("RpcTimeout")) = "ETIMEDOUT"
    BY DEF FromRaftError, ErrnoFor, ToGrpcStatus, ToGrpcStatusCode, FromGrpcStatus, KindOfCode,
           ToErrno
<1>2. ErrnoFor(FromRaftError("ProposalDropped")) = "EAGAIN"
    BY DEF FromRaftError, ErrnoFor, ToGrpcStatus, ToGrpcStatusCode, FromGrpcStatus, KindOfCode,
           ToErrno
<1>3. ToErrno(FromGrpcStatus(ConnectionLost)) = "EAGAIN"
    BY DEF ConnectionLost, FromGrpcStatus, KindOfCode, ToErrno
<1> QED BY <1>1, <1>2, <1>3 DEF FailureErrnos

IsProposal(call) ==
    call = [at |-> "proposed", command |-> call.command, index |-> call.index, response |-> "none"]

\* A proposed command is behind the history at the place it was given; when
\* it is answered it is in the history, and the answer is the result there.
CallInv(call) ==
    \/ call = Idle
    \/ /\ call.at = "reading" /\ call.needed = call.began /\ call.began \in Nat
    \/ /\ IsProposal(call)
       /\ call.index \in Nat /\ Furthest < call.index /\ call.index <= Len(log)
       /\ log[call.index] = call.command /\ call.command \in RaftCommand
    \/ /\ call.at = "responded"
       /\ call.index \in 1 .. Furthest /\ log[call.index] = call.command
       /\ ProposalReply(call.response) = PosixErrno[past[call.index].result]

CallsInv == \A c \in Clients : c \in DOMAIN calls /\ CallInv(calls[c])

\* A call that is left alone while nothing but the log grows.
LEMMA CallKept ==
    ASSUME LogInv, NEW call, CallInv(call), Furthest' = Furthest, past' = past,
           Len(log) <= Len(log'), Len(log') \in Nat, \A n \in 1 .. Len(log) : log'[n] = log[n]
    PROVE  CallInv(call)'
<1>1. Len(log) \in Nat /\ Furthest \in Nat /\ Furthest <= Len(log)
    <2>1. /\ log \in Seq(Entry) /\ committed \in Nat /\ Furthest \in Nat
          /\ Furthest <= committed /\ committed <= Len(log)
        BY DEF LogInv
    <2> QED BY <2>1
<1>2. CASE call = Idle \/ (call.at = "reading" /\ call.needed = call.began /\ call.began \in Nat)
    BY <1>2 DEF CallInv
<1>3. CASE /\ IsProposal(call)
           /\ call.index \in Nat /\ Furthest < call.index /\ call.index <= Len(log)
           /\ log[call.index] = call.command /\ call.command \in RaftCommand
    <2>1. call.index \in 1 .. Len(log) /\ call.index <= Len(log')
        BY <1>1, <1>3
    <2> QED BY <1>3, <2>1 DEF CallInv
<1>4. CASE /\ call.at = "responded"
           /\ call.index \in 1 .. Furthest /\ log[call.index] = call.command
           /\ ProposalReply(call.response) = PosixErrno[past[call.index].result]
    <2>1. call.index \in 1 .. Len(log)
        BY <1>1, <1>4
    <2> QED BY <1>4, <2>1 DEF CallInv
<1> QED BY <1>2, <1>3, <1>4 DEF CallInv

\* No call is under way at the start.
LEMMA CallsInit == ServiceInit => CallsInv
BY DEF ServiceInit, CallsInv, CallInv

\* The clients' own steps.
LEMMA ClientCalls ==
    ASSUME LogInv, CallsInv, NEW c \in Clients, ClientStep(c)
    PROVE  CallsInv'
<1>1. /\ Furthest' = Furthest /\ past' = past /\ LogInv' /\ committed' = committed
      /\ \A n \in 1 .. Len(log) : log'[n] = log[n]
    BY ClientLog
<1>2. log \in Seq(Entry) /\ Len(log) \in Nat /\ log' \in Seq(Entry) /\ Len(log') \in Nat
    BY <1>1 DEF LogInv
<1>3. /\ \E call : calls' = [calls EXCEPT ![c] = call]
      /\ \/ calls'[c] = Idle /\ log' = log
         \/ /\ log' = log
            /\ calls'[c] = [at |-> "reading", needed |-> ReadIndexNeeded, began |-> committed]
         \/ \E command \in RaftCommand :
               /\ log' = Append(log, command)
               /\ calls'[c] = [at |-> "proposed", command |-> command,
                               index |-> Len(log) + 1, response |-> "none"]
    <2>1. c \in DOMAIN calls
        BY DEF CallsInv
    <2>2. ASSUME NEW command \in Commands, Propose(c, command)
          PROVE  /\ log' = Append(log, command) /\ command \in RaftCommand
                 /\ calls' = [calls EXCEPT ![c] =
                        [at |-> "proposed", command |-> command, index |-> Len(log) + 1,
                         response |-> "none"]]
        BY <2>2, ServiceAssumption DEF Propose
    <2>3. CASE LinearizableRead(c)
        BY <2>1, <2>3 DEF LinearizableRead, node
    <2>4. CASE TimedOut(c) \/ ReplyToProposal(c) \/ ReplyToRead(c)
        BY <2>1, <2>4 DEF TimedOut, ReplyToProposal, ReplyToRead, node
    <2>5. CASE \E command \in Commands : Propose(c, command)
        BY <2>1, <2>2, <2>5
    <2> QED BY <2>3, <2>4, <2>5 DEF ClientStep
<1>4. Len(log) <= Len(log')
    <2>1. log' = log \/ \E command \in RaftCommand : log' = Append(log, command)
        BY <1>3
    <2>2. ASSUME NEW command \in RaftCommand, log' = Append(log, command)
          PROVE  Len(log') = Len(log) + 1
        BY <1>2, <2>2
    <2> QED BY <1>2, <2>1, <2>2
<1>5. ASSUME NEW d \in Clients, d # c
      PROVE  d \in DOMAIN calls' /\ CallInv(calls[d])'
    <2>1. PICK call : call = calls[d]
        OBVIOUS
    <2>2. CallInv(call)
        BY <2>1 DEF CallsInv
    <2>3. CallInv(call)'
        BY <1>1, <1>2, <1>4, <2>2, CallKept
    <2>4. calls'[d] = call /\ d \in DOMAIN calls'
        BY <1>3, <1>5, <2>1 DEF CallsInv
    <2> QED BY <2>3, <2>4 DEF CallInv, IsProposal
<1>6. c \in DOMAIN calls'
    BY <1>3 DEF CallsInv
<1>7. CallInv(calls[c])'
    <2>1. CASE calls'[c] = Idle
        BY <2>1 DEF CallInv
    <2>2. CASE calls'[c] = [at |-> "reading", needed |-> ReadIndexNeeded, began |-> committed]
        <3>1. committed \in Nat
            BY DEF LogInv
        <3> QED BY <2>2, <3>1 DEF CallInv, ReadIndexNeeded
    <2>3. CASE \E command \in RaftCommand :
                  /\ log' = Append(log, command)
                  /\ calls'[c] = [at |-> "proposed", command |-> command,
                                  index |-> Len(log) + 1, response |-> "none"]
        <3>1. PICK command \in RaftCommand :
                  /\ log' = Append(log, command)
                  /\ calls'[c] = [at |-> "proposed", command |-> command,
                                  index |-> Len(log) + 1, response |-> "none"]
            BY <2>3
        <3>2. Len(log') = Len(log) + 1 /\ log'[Len(log) + 1] = command
            BY <1>2, <3>1
        <3>3. Furthest' \in Nat /\ Furthest' < Len(log) + 1
            <4>1. committed \in Nat /\ Furthest \in Nat /\ Furthest <= committed
                  /\ committed <= Len(log)
                BY DEF LogInv
            <4> QED BY <1>1, <1>2, <4>1
        <3> QED BY <1>2, <3>1, <3>2, <3>3 DEF CallInv, IsProposal
    <2> QED BY <1>3, <2>1, <2>2, <2>3
<1> QED BY <1>5, <1>6, <1>7 DEF CallsInv

\* An Apply answers the call that waits for its entry, and no other.
LEMMA ApplyCalls ==
    ASSUME LogInv, CallsInv, Apply
    PROVE  CallsInv'
<1> DEFINE n == applied + 1
<1>1. /\ n \in 1 .. Len(log) /\ log[n] \in Entry
      /\ \/ n <= Furthest /\ past' = past
         \/ /\ n = Furthest + 1 /\ DOMAIN past' = 0 .. n
            /\ \A m \in 0 .. Furthest : past'[m] = past[m]
            /\ past'[n].result = IF log[n] = EmptyEntry THEN past[applied].result ELSE result'
    BY ApplyIs
<1>2. log' = log /\ ApplyCommand(log[n]) /\ calls' = Responded(n, result')
    BY DEF Apply
<1>3. Furthest \in Nat /\ Len(log) \in Nat /\ Furthest <= Len(log)
    <2>1. /\ log \in Seq(Entry) /\ committed \in Nat /\ Furthest \in Nat
          /\ Furthest <= committed /\ committed <= Len(log)
        BY DEF LogInv
    <2> QED BY <2>1
<1> HIDE DEF n
<1> SUFFICES ASSUME NEW c \in Clients PROVE c \in DOMAIN calls' /\ CallInv(calls[c])'
    BY DEF CallsInv
<1>4. c \in DOMAIN calls'
    BY <1>2 DEF Responded
<1>5. PICK call : call = calls[c] /\ CallInv(call)
    BY DEF CallsInv
<1>6. CASE call.at = "proposed" /\ call.index = n
    <2>1. /\ IsProposal(call) /\ Furthest < n /\ log[n] = call.command /\ call.command \in RaftCommand
        BY <1>5, <1>6 DEF CallInv, Idle
    <2>2. log[n] # EmptyEntry /\ Furthest' = n /\ past'[n].result = result'
        <3>1. ~(n <= Furthest) /\ n \in Nat
            BY <1>1, <1>3, <2>1
        <3>2. log[n] # EmptyEntry
            BY <2>1, CommandsAreNotEmpty
        <3> QED BY <1>1, <3>1, <3>2, FurthestIs
    <2>3. result' \in Kinds
        BY <1>2, <2>1, CommandIsStep, StepKinds
    <2>4. calls'[c] = [call EXCEPT !.at = "responded",
                                   !.response = IF result' = "Ok" THEN [attrs |-> "Ok"]
                                                ELSE MakeErrorResponse(result')]
        BY <1>2, <1>5, <1>6 DEF Responded
    <2>5. /\ calls'[c].at = "responded" /\ calls'[c].index = n /\ calls'[c].command = log[n]
          /\ calls'[c].response = IF result' = "Ok" THEN [attrs |-> "Ok"]
                                  ELSE MakeErrorResponse(result')
        BY <1>6, <2>1, <2>4 DEF IsProposal
    <2>6. n \in 1 .. Furthest'
        BY <1>1, <1>3, <2>2
    <2>7. ProposalReply(calls'[c].response) = PosixErrno[result']
        BY <2>3, <2>5, ReplyIsPosix
    <2> QED BY <1>2, <1>4, <2>2, <2>5, <2>6, <2>7 DEF CallInv
<1>7. CASE ~(call.at = "proposed" /\ call.index = n)
    <2>1. calls'[c] = call
        BY <1>2, <1>5, <1>7 DEF Responded
    <2>2. CASE n <= Furthest /\ past' = past
        <3>1. Furthest' = Furthest
            BY <2>2 DEF Furthest
        <3>2. CallInv(call)'
            BY <1>2, <1>3, <1>5, <2>2, <3>1, CallKept
        <3> QED BY <1>4, <2>1, <3>2 DEF CallInv, IsProposal
    <2>3. CASE /\ n = Furthest + 1 /\ DOMAIN past' = 0 .. n
               /\ \A m \in 0 .. Furthest : past'[m] = past[m]
        <3>1. Furthest' = n /\ n \in Nat
            BY <1>3, <2>3, FurthestIs
        <3>2. CASE call = Idle \/ (call.at = "reading" /\ call.needed = call.began
                                   /\ call.began \in Nat)
            BY <1>4, <2>1, <3>2 DEF CallInv
        <3>3. CASE /\ IsProposal(call)
                   /\ call.index \in Nat /\ Furthest < call.index /\ call.index <= Len(log)
                   /\ log[call.index] = call.command /\ call.command \in RaftCommand
            <4>1. call.at = "proposed"
                BY <3>3 DEF IsProposal
            <4>2. n < call.index
                BY <1>3, <1>7, <2>3, <3>3, <4>1
            <4> QED BY <1>2, <1>4, <2>1, <3>1, <3>3, <4>2 DEF CallInv, IsProposal
        <3>4. CASE /\ call.at = "responded"
                   /\ call.index \in 1 .. Furthest /\ log[call.index] = call.command
                   /\ ProposalReply(call.response) = PosixErrno[past[call.index].result]
            <4>1. call.index \in 0 .. Furthest /\ call.index \in 1 .. n
                BY <1>3, <2>3, <3>4
            <4>2. past'[call.index] = past[call.index]
                BY <2>3, <4>1
            <4> QED BY <1>2, <1>4, <2>1, <3>1, <3>4, <4>1, <4>2 DEF CallInv
        <3> QED BY <1>5, <3>2, <3>3, <3>4 DEF CallInv
    <2> QED BY <1>1, <2>2, <2>3
<1> QED BY <1>6, <1>7

\* Each step keeps CallsInv.
LEMMA CallsStep == LogInv /\ CallsInv /\ [ServiceNext]_serviceVars => CallsInv'
<1> SUFFICES ASSUME LogInv, CallsInv, [ServiceNext]_serviceVars PROVE CallsInv'
    OBVIOUS
<1>1. ASSUME NEW c \in Clients, ClientStep(c) PROVE CallsInv'
    BY <1>1, ClientCalls
<1>2. CASE Apply
    BY <1>2, ApplyCalls
<1>3. CASE Restart
    BY <1>3 DEF Restart, CallsInv, CallInv
<1>4. CASE Commit \/ TakeSnapshot \/ UNCHANGED serviceVars
    <2>1. log' = log /\ past' = past /\ calls' = calls /\ Furthest' = Furthest
        BY <1>4 DEF Commit, TakeSnapshot, serviceVars, node, Furthest
    <2> QED BY <2>1 DEF CallsInv, CallInv, IsProposal
<1> QED BY <1>1, <1>2, <1>3, <1>4 DEF ServiceNext

\* The errno that a client gets for a command is the one that POSIX has for
\* the outcome of that command, which is in the log for good; this holds for
\* any number of clients, crashes and timeouts (ProposeCommand, Apply,
\* ErrorFromResponse, ToGrpcStatus, FromGrpcStatus, ToErrno).
THEOREM ErrnosTellOutcomes == ServiceSpec => []ErrnoTellsOutcome
<1>1. LogInv /\ CallsInv => ErrnoTellsOutcome
    <2> SUFFICES ASSUME LogInv, CallsInv, NEW c \in Clients, calls[c].at = "responded"
                 PROVE  /\ calls[c].index <= committed
                        /\ log[calls[c].index] = calls[c].command
                        /\ ProposalReply(calls[c].response) = PosixErrno[past[calls[c].index].result]
                        /\ FailureErrnos \subseteq {"EAGAIN", "ETIMEDOUT"}
        BY DEF ErrnoTellsOutcome
    <2>1. CallInv(calls[c])
        BY DEF CallsInv
    <2>2. /\ calls[c].index \in 1 .. Furthest /\ log[calls[c].index] = calls[c].command
          /\ ProposalReply(calls[c].response) = PosixErrno[past[calls[c].index].result]
        BY <2>1 DEF CallInv, Idle, IsProposal
    <2>3. committed \in Nat /\ Furthest \in Nat /\ Furthest <= committed
        BY DEF LogInv
    <2> QED BY <2>2, <2>3, FailuresAreOpen
<1> QED BY <1>1, LogInvariant, CallsInit, CallsStep, PTL DEF ServiceSpec

\* What a read finds in the state of the moment is what it finds in the same
\* state of the history.
LEMMA SameReads ==
    ASSUME NEW n, past[n].data = SerializeSnapshot, NEW r \in ReadRequest
    PROVE  ReadReply(r) = Past(n)!ReadReply(r)
<1>1. /\ past[n].data.inodes = inodes /\ past[n].data.dentries = dentries
      /\ past[n].data.layouts = layouts
    BY Now
<1>2. /\ \A i : Past(n)!IsDir(i) <=> IsDir(i)
      /\ \A i : Past(n)!IsFile(i) <=> IsFile(i)
    BY <1>1 DEF Past!IsDir, IsDir, Past!IsFile, IsFile
<1>3. \A p, m : Past(n)!EntryError(p, m) = EntryError(p, m)
    <2>1. \A p, m : Past(n)!ParentError(p, m) = ParentError(p, m)
        BY <1>1, <1>2 DEF Past!ParentError, ParentError
    <2> QED BY <1>1, <2>1 DEF Past!EntryError, EntryError
<1>4. \A i : Past(n)!FileError(i) = FileError(i)
    BY <1>1, <1>2 DEF Past!FileError, FileError
<1>5. \A i : Past(n)!GetAttrError(i) = GetAttrError(i) /\ Past(n)!ReadDirError(i) = ReadDirError(i)
    BY <1>1, <1>2 DEF Past!GetAttrError, GetAttrError, Past!ReadDirError, ReadDirError
<1>6. /\ \A i : Past(n)!ReadDir(i) = ReadDir(i)
      /\ \A i : Past(n)!GetLayout(i) = GetLayout(i)
      /\ Past(n)!ListLiveObjects = ListLiveObjects
    BY <1>1 DEF Past!ReadDir, ReadDir, Past!GetLayout, GetLayout,
                Past!ListLiveObjects, ListLiveObjects
<1>7. Past(n)!ReadError(r) = ReadError(r) /\ Past(n)!ReadValue(r) = ReadValue(r)
    BY <1>1, <1>3, <1>4, <1>5, <1>6
       DEF Past!ReadError, ReadError, Past!ReadValue, ReadValue
<1> QED BY <1>7 DEF Past!ReadReply, ReadReply

\* A read is answered from a state not older than what was committed when it
\* began, whichever crashes and replays come in between (LinearizableRead,
\* ReadIndexSync).
THEOREM ReadsAreLinearizable == ServiceSpec => []LinearizableReads
<1>1. LogInv /\ CallsInv => LinearizableReads
    <2> SUFFICES ASSUME LogInv, CallsInv, NEW c \in Clients, ReadIndexReached(c), NEW r \in Reads
                 PROVE  \E n \in calls[c].began .. Furthest : ReadReply(r) = Past(n)!ReadReply(r)
        BY DEF LinearizableReads
    <2>1. CallInv(calls[c]) /\ calls[c].at = "reading" /\ applied >= calls[c].needed
        BY DEF CallsInv, ReadIndexReached
    <2>2. calls[c].needed = calls[c].began /\ calls[c].began \in Nat
        BY <2>1 DEF CallInv, Idle, IsProposal
    <2>3. applied \in 0 .. Furthest /\ Furthest \in Nat /\ past[applied].data = SerializeSnapshot
        BY DEF LogInv
    <2>4. applied \in calls[c].began .. Furthest
        BY <2>1, <2>2, <2>3
    <2>5. PICK n : n = applied
        OBVIOUS
    <2>6. r \in ReadRequest
        BY ServiceAssumption
    <2>7. ReadReply(r) = Past(n)!ReadReply(r)
        BY <2>3, <2>5, <2>6, SameReads
    <2> QED BY <2>4, <2>5, <2>7
<1> QED BY <1>1, LogInvariant, CallsInit, CallsStep, PTL DEF ServiceSpec

-----------------------------------------------------------------------------
(***************************************************************************)
(* Time stamps.                                                            *)
(***************************************************************************)
\* Entry m left inode i alone.
LeftAlone(i, m) ==
    /\ i \in DOMAIN past[m - 1].data.inodes /\ i \in DOMAIN past[m].data.inodes
    /\ past[m].data.inodes[i].version = past[m - 1].data.inodes[i].version

\* Inode i is there after entry a and is left alone up to entry b.
Lasts(i, a, b) ==
    i \in DOMAIN past[a].data.inodes /\ \A m \in a + 1 .. b : LeftAlone(i, m)

\* No stamp is later than the present boot.
StampsInPast ==
    /\ boot \in Nat
    /\ \A n \in 0 .. Furthest : \A i \in DOMAIN past[n].data.inodes :
          past[n].ctime[i] \in Nat /\ past[n].ctime[i] <= boot
    /\ \A i \in DOMAIN inodes : ctime[i] \in Nat /\ ctime[i] <= boot
    /\ \A i \in DOMAIN snapshot.data.inodes : snapshot.ctime[i] \in Nat /\ snapshot.ctime[i] <= boot

\* The stamps in memory are as late as any that the history has for the same
\* change of the inode; so are those of the snapshot, which a restart brings
\* back.  The second needs that a stamp in memory which is older than the
\* snapshot is also in the snapshot.
StampsInv ==
    /\ StampsInPast
    /\ snapshot.index <= applied /\ DOMAIN past[0].data.inodes = {Root}
    /\ \A n \in applied .. Furthest : \A i : Lasts(i, applied, n) => past[n].ctime[i] <= ctime[i]
    /\ snapshot.index # 0 =>
          /\ \A n \in snapshot.index .. Furthest : \A i :
                Lasts(i, snapshot.index, n) => past[n].ctime[i] <= snapshot.ctime[i]
          /\ \A i : Lasts(i, snapshot.index, applied) => ctime[i] <= snapshot.ctime[i]

\* The root has the one stamp there is at the start, in memory and in the history.
LEMMA StampsInit == ServiceInit => StampsInv
<1> SUFFICES ASSUME ServiceInit PROVE StampsInv
    OBVIOUS
<1>1. LogInv /\ DOMAIN past = 0 .. 0
    BY LogInit DEF ServiceInit
<1>2. Furthest = 0 /\ applied = 0 /\ snapshot.index = 0 /\ 0 .. 0 = {0} /\ boot = 1
    BY <1>1, FurthestIs DEF ServiceInit
<1>3. past[0].data = SerializeSnapshot /\ past[0].ctime = ctime /\ ctime = [i \in {Root} |-> 1]
    BY DEF ServiceInit
<1>4. DOMAIN inodes = {Root} /\ SerializeSnapshot.inodes = inodes
    BY Now DEF ServiceInit, Init
<1>5. snapshot.data = SerializeSnapshot /\ snapshot.ctime = ctime
    BY DEF ServiceInit
<1> QED BY <1>2, <1>3, <1>4, <1>5 DEF StampsInv, StampsInPast, Lasts

\* Steps that touch neither the state nor its history.
LEMMA SameStamps ==
    ASSUME StampsInv, UNCHANGED <<vars, past, applied, ctime, boot, snapshot>>
    PROVE  StampsInv'
<1>1. Furthest' = Furthest /\ inodes' = inodes
    BY DEF Furthest, vars
<1> QED BY <1>1 DEF StampsInv, StampsInPast, Lasts, LeftAlone

\* A snapshot keeps the stamps.
LEMMA SnapshotOfStamps ==
    ASSUME LogInv, StampsInv, TakeSnapshot
    PROVE  StampsInv'
<1>1. /\ UNCHANGED <<inodes, past, applied, ctime, boot>> /\ Furthest' = Furthest
      /\ snapshot'.index = applied /\ snapshot'.data = SerializeSnapshot /\ snapshot'.ctime = ctime
    BY DEF TakeSnapshot, SnapshotStamps, vars, Furthest
<1>2. SerializeSnapshot.inodes = inodes /\ SerializeSnapshot = past[applied].data
    BY Now DEF LogInv
<1>3. applied \in 0 .. Furthest
    BY DEF LogInv
<1>4. StampsInPast'
    BY <1>1, <1>2 DEF StampsInv, StampsInPast
<1>5. \A i : Lasts(i, applied, applied) => ctime[i] \in Nat
    BY <1>2 DEF StampsInv, StampsInPast, Lasts
<1> QED BY <1>1, <1>3, <1>4, <1>5 DEF StampsInv, Lasts, LeftAlone

\* A restart goes back to the stamps of the snapshot, or sets the only one anew.
LEMMA RestartStamps ==
    ASSUME LogInv, StampsInv, Restart
    PROVE  StampsInv'
<1>1. UNCHANGED <<snapshot, past>> /\ boot' = boot + 1 /\ Furthest' = Furthest
    BY DEF Restart, Furthest
<1>2. /\ applied' = snapshot.index /\ inodes' = snapshot.data.inodes
      /\ ctime' = IF snapshot.index = 0 THEN [i \in {Root} |-> boot'] ELSE snapshot.ctime
    BY DEF Restart, StartFrom, RestoreSnapshot
<1>3. /\ boot \in Nat /\ snapshot.index \in 0 .. Furthest /\ Furthest \in Nat
      /\ snapshot.data = past[snapshot.index].data
    BY DEF LogInv, StampsInv, StampsInPast
<1>4. ASSUME snapshot.index = 0
      PROVE  \A i : i \in DOMAIN snapshot.data.inodes => ctime'[i] = boot + 1
    BY <1>1, <1>2, <1>3, <1>4 DEF StampsInv
<1>5. StampsInPast'
    <2>1. \A x \in Nat : x <= boot => x <= boot + 1
        BY <1>3
    <2>2. \A i \in DOMAIN inodes' : ctime'[i] \in Nat /\ ctime'[i] <= boot'
        <3>1. CASE snapshot.index = 0
            BY <1>1, <1>2, <1>3, <1>4, <3>1
        <3>2. CASE snapshot.index # 0
            BY <1>1, <1>2, <1>3, <2>1, <3>2 DEF StampsInv, StampsInPast
        <3> QED BY <3>1, <3>2
    <2> QED BY <1>1, <1>3, <2>1, <2>2 DEF StampsInv, StampsInPast
<1>6. ASSUME NEW n \in applied' .. Furthest, NEW i, Lasts(i, applied', n)
      PROVE  past[n].ctime[i] <= ctime'[i]
    <2>1. CASE snapshot.index # 0
        BY <1>2, <1>6, <2>1 DEF StampsInv
    <2>2. CASE snapshot.index = 0
        <3>1. i \in DOMAIN snapshot.data.inodes /\ n \in 0 .. Furthest
            BY <1>2, <1>3, <1>6, <2>2 DEF Lasts
        <3>2. i \in DOMAIN past[n].data.inodes
            <4>1. CASE n = 0
                BY <1>3, <2>2, <3>1, <4>1
            <4>2. CASE n # 0
                <5>1. n \in applied' + 1 .. n
                    BY <1>2, <1>3, <2>2, <3>1, <4>2
                <5> QED BY <1>6, <5>1 DEF Lasts, LeftAlone
            <4> QED BY <4>1, <4>2
        <3>3. past[n].ctime[i] \in Nat /\ past[n].ctime[i] <= boot
            BY <3>1, <3>2 DEF StampsInv, StampsInPast
        <3> QED BY <1>3, <1>4, <2>2, <3>1, <3>3
    <2> QED BY <2>1, <2>2
<1>7. snapshot.index # 0 =>
          \A i : Lasts(i, snapshot.index, applied') => ctime'[i] <= snapshot.ctime[i]
    <2> SUFFICES ASSUME snapshot.index # 0, NEW i, Lasts(i, snapshot.index, applied')
                 PROVE  ctime'[i] <= snapshot.ctime[i]
        OBVIOUS
    <2>1. i \in DOMAIN snapshot.data.inodes
        BY <1>3 DEF Lasts
    <2>2. snapshot.ctime[i] \in Nat
        BY <2>1 DEF StampsInv, StampsInPast
    <2> QED BY <1>2, <2>2
<1>8. \A i, a, b : Lasts(i, a, b)' <=> Lasts(i, a, b)
    BY <1>1 DEF Lasts, LeftAlone
<1>9. snapshot'.index <= applied' /\ DOMAIN past'[0].data.inodes = {Root}
    BY <1>1, <1>2, <1>3 DEF StampsInv
<1> QED BY <1>1, <1>2, <1>5, <1>6, <1>7, <1>8, <1>9 DEF StampsInv

\* An Apply stamps what the entry changed; the rest keeps its stamps.
LEMMA ApplyStamps ==
    ASSUME LogInv, StampsInv, Apply
    PROVE  StampsInv'
<1>0. PICK n, a : a = applied /\ n = a + 1
    OBVIOUS
<1>1. /\ n \in 1 .. Len(log) /\ applied' = n
      /\ \/ n <= Furthest /\ past' = past /\ SerializeSnapshot' = past[n].data
         \/ /\ n = Furthest + 1 /\ DOMAIN past' = 0 .. n
            /\ \A m \in 0 .. Furthest : past'[m] = past[m]
            /\ past'[n].data = SerializeSnapshot' /\ past'[n].ctime = ctime'
    BY <1>0, ApplyIs
<1>2. /\ UNCHANGED <<snapshot, boot>> /\ boot \in Nat
      /\ ctime' = [i \in DOMAIN inodes' |->
                      IF i \in DOMAIN inodes /\ inodes'[i].version = inodes[i].version
                      THEN ctime[i] ELSE boot]
    BY DEF Apply, Restamped, StampsInv, StampsInPast
<1>3. /\ applied \in 0 .. Furthest /\ Furthest \in Nat /\ snapshot.index \in 0 .. Furthest
      /\ snapshot.index <= applied /\ past[applied].data.inodes = inodes
      /\ n \in Nat /\ n - 1 = a /\ a = applied
    BY <1>0, Now DEF LogInv, StampsInv
<1>4. /\ Furthest' \in Nat /\ n \in 0 .. Furthest' /\ Furthest <= Furthest'
      /\ \A m \in 0 .. Furthest : past'[m] = past[m]
      /\ \A m \in 0 .. Furthest' : m \in 0 .. Furthest \/ (m = n /\ past'[n].ctime = ctime')
      /\ past'[n].data.inodes = inodes'
    <2>1. SerializeSnapshot'.inodes = inodes'
        BY Now
    <2>2. CASE n <= Furthest /\ past' = past /\ SerializeSnapshot' = past[n].data
        <3>1. Furthest' = Furthest
            BY <2>2 DEF Furthest
        <3> QED BY <1>3, <2>1, <2>2, <3>1
    <2>3. CASE /\ n = Furthest + 1 /\ DOMAIN past' = 0 .. n
               /\ \A m \in 0 .. Furthest : past'[m] = past[m]
               /\ past'[n].data = SerializeSnapshot' /\ past'[n].ctime = ctime'
        <3>1. Furthest' = n
            BY <1>3, <2>3, FurthestIs
        <3> QED BY <1>3, <2>1, <2>3, <3>1
    <2> QED BY <1>1, <2>2, <2>3
<1>5. past'[a].data.inodes = inodes
    BY <1>3, <1>4
<1>6. ASSUME NEW i, LeftAlone(i, n)'
      PROVE  i \in DOMAIN inodes /\ i \in DOMAIN inodes' /\ ctime'[i] = ctime[i]
    BY <1>2, <1>3, <1>4, <1>5, <1>6 DEF LeftAlone
<1>7. ASSUME NEW i \in DOMAIN inodes', ~LeftAlone(i, n)'
      PROVE  ctime'[i] = boot
    BY <1>2, <1>3, <1>4, <1>5, <1>7 DEF LeftAlone
<1>8. \A i \in DOMAIN inodes' : ctime'[i] \in Nat /\ ctime'[i] <= boot
    <2> SUFFICES ASSUME NEW i \in DOMAIN inodes' PROVE ctime'[i] \in Nat /\ ctime'[i] <= boot
        OBVIOUS
    <2>1. CASE LeftAlone(i, n)'
        BY <1>6, <2>1 DEF StampsInv, StampsInPast
    <2>2. CASE ~LeftAlone(i, n)'
        BY <1>2, <1>7, <2>2
    <2> QED BY <2>1, <2>2
<1>9. ASSUME NEW m \in 0 .. Furthest', NEW i \in DOMAIN past'[m].data.inodes
      PROVE  past'[m].ctime[i] \in Nat /\ past'[m].ctime[i] <= boot
    <2>1. CASE m \in 0 .. Furthest
        BY <1>4, <2>1 DEF StampsInv, StampsInPast
    <2>2. CASE m = n /\ past'[n].ctime = ctime'
        BY <1>4, <1>8, <2>2
    <2> QED BY <1>4, <2>1, <2>2
<1>10. StampsInPast'
    BY <1>2, <1>8, <1>9 DEF StampsInv, StampsInPast
<1>11. ASSUME NEW i, NEW x \in 0 .. Furthest, NEW y \in 0 .. Furthest
       PROVE  Lasts(i, x, y)' <=> Lasts(i, x, y)
    <2>1. \A m \in x + 1 .. y : m \in 0 .. Furthest /\ m - 1 \in 0 .. Furthest
        BY <1>3
    <2>2. \A m \in x + 1 .. y : past'[m] = past[m] /\ past'[m - 1] = past[m - 1]
        BY <1>4, <2>1
    <2>3. past'[x] = past[x]
        BY <1>4
    <2> QED BY <2>2, <2>3 DEF Lasts, LeftAlone
<1>12. ASSUME NEW i, NEW x \in Nat, NEW y \in Nat, x <= y, Lasts(i, x, y)'
       PROVE  i \in DOMAIN past'[y].data.inodes
    <2>1. CASE x = y
        BY <1>12, <2>1 DEF Lasts
    <2>2. CASE x # y
        <3>1. y \in x + 1 .. y
            BY <1>12, <2>2
        <3> QED BY <1>12, <3>1 DEF Lasts, LeftAlone
    <2> QED BY <2>1, <2>2
<1>13. ASSUME NEW m \in n .. Furthest', NEW i, Lasts(i, n, m)'
       PROVE  past'[m].ctime[i] <= ctime'[i]
    <2>1. m \in Nat /\ n <= m /\ m \in 0 .. Furthest'
        BY <1>3, <1>4
    <2>2. i \in DOMAIN inodes' /\ i \in DOMAIN past'[m].data.inodes
        <3>1. i \in DOMAIN inodes'
            BY <1>4, <1>13 DEF Lasts
        <3> QED BY <1>3, <1>12, <1>13, <2>1, <3>1
    <2>3. CASE ~LeftAlone(i, n)'
        BY <1>2, <1>7, <1>9, <2>1, <2>2, <2>3
    <2>4. CASE LeftAlone(i, n)'
        <3>1. CASE m \in 0 .. Furthest
            <4>1. \A k \in a + 1 .. m : k = n \/ k \in n + 1 .. m
                BY <1>0, <1>3, <2>1
            <4>2. i \in DOMAIN past'[a].data.inodes
                BY <1>3, <2>4 DEF LeftAlone
            <4>3. Lasts(i, a, m)'
                BY <1>13, <2>4, <4>1, <4>2 DEF Lasts
            <4>4. Lasts(i, applied, m) /\ m \in applied .. Furthest
                BY <1>3, <1>11, <2>1, <3>1, <4>3
            <4>5. past[m].ctime[i] <= ctime[i]
                BY <4>4 DEF StampsInv
            <4> QED BY <1>4, <1>6, <2>4, <3>1, <4>5
        <3>2. CASE m = n /\ past'[n].ctime = ctime'
            BY <1>8, <2>2, <3>2
        <3> QED BY <1>4, <2>1, <3>1, <3>2
    <2> QED BY <2>3, <2>4
<1>14. PICK s : s = snapshot.index /\ s \in 0 .. Furthest /\ s <= applied
    BY <1>3
<1>15. ASSUME s # 0, NEW i, Lasts(i, s, n)'
       PROVE  ctime'[i] <= snapshot.ctime[i]
    <2>1. n \in s + 1 .. n /\ \A k \in s + 1 .. a : k \in s + 1 .. n
        BY <1>0, <1>3, <1>14
    <2>2. LeftAlone(i, n)' /\ Lasts(i, s, a)'
        BY <1>15, <2>1 DEF Lasts
    <2>3. Lasts(i, s, applied)
        BY <1>3, <1>11, <1>14, <2>2
    <2>4. ctime[i] <= snapshot.ctime[i]
        BY <1>14, <1>15, <2>3 DEF StampsInv
    <2> QED BY <1>6, <2>2, <2>4
<1>16. ASSUME s # 0, NEW m \in s .. Furthest', NEW i, Lasts(i, s, m)'
       PROVE  past'[m].ctime[i] <= snapshot.ctime[i]
    <2>1. m \in 0 .. Furthest'
        BY <1>4, <1>14
    <2>2. CASE m \in 0 .. Furthest
        <3>1. Lasts(i, s, m) /\ m \in s .. Furthest
            BY <1>11, <1>14, <1>16, <2>2
        <3>2. past[m].ctime[i] <= snapshot.ctime[i]
            BY <1>14, <1>16, <3>1 DEF StampsInv
        <3> QED BY <1>4, <2>2, <3>2
    <2>3. CASE m = n /\ past'[n].ctime = ctime'
        BY <1>15, <1>16, <2>3
    <2> QED BY <1>4, <2>1, <2>2, <2>3
<1>17. snapshot'.index <= applied' /\ DOMAIN past'[0].data.inodes = {Root}
    <2>1. 0 \in 0 .. Furthest /\ s <= n
        BY <1>0, <1>3, <1>14
    <2> QED BY <1>1, <1>2, <1>4, <1>14, <2>1 DEF StampsInv
<1>18. applied' = n /\ snapshot'.index = s /\ snapshot' = snapshot
    BY <1>1, <1>2, <1>14
<1> QED BY <1>10, <1>13, <1>15, <1>16, <1>17, <1>18 DEF StampsInv, Lasts, LeftAlone

\* Each step keeps StampsInv.
LEMMA StampsStep == LogInv /\ StampsInv /\ [ServiceNext]_serviceVars => StampsInv'
<1> SUFFICES ASSUME LogInv, StampsInv, [ServiceNext]_serviceVars PROVE StampsInv'
    OBVIOUS
<1>1. ASSUME NEW c \in Clients, ClientStep(c) PROVE StampsInv'
    BY <1>1, ClientLog, SameStamps
<1>2. CASE Commit \/ UNCHANGED serviceVars
    BY <1>2, SameStamps DEF Commit, serviceVars, node
<1>3. CASE Apply
    BY <1>3, ApplyStamps
<1>4. CASE TakeSnapshot
    BY <1>4, SnapshotOfStamps
<1>5. CASE Restart
    BY <1>5, RestartStamps
<1> QED BY <1>1, <1>2, <1>3, <1>4, <1>5 DEF ServiceNext

\* A server that has caught up after any number of crashes shows no inode with
\* an older ctime than was shown for it before, although a replay sets the
\* stamps anew and a snapshot brings old ones back (Apply, TakeSnapshot,
\* RestoreSnapshot).
THEOREM StampsNeverGoBack == ServiceSpec => []StampsMoveForward
<1>1. LogInv /\ StampsInv => StampsMoveForward
    <2> SUFFICES ASSUME LogInv, StampsInv, applied = Furthest, NEW i \in DOMAIN inodes
                 PROVE  ctime[i] >= past[Furthest].ctime[i]
        BY DEF StampsMoveForward
    <2>1. applied \in 0 .. Furthest /\ Furthest \in Nat /\ past[applied].data.inodes = inodes
        BY Now DEF LogInv
    <2>2. Lasts(i, applied, Furthest) /\ Furthest \in applied .. Furthest
        BY <2>1 DEF Lasts
    <2>3. past[Furthest].ctime[i] <= ctime[i]
        BY <2>2 DEF StampsInv
    <2>4. past[Furthest].ctime[i] \in Nat /\ ctime[i] \in Nat
        BY <2>1 DEF StampsInv, StampsInPast
    <2> QED BY <2>3, <2>4
<1> QED BY <1>1, LogInvariant, StampsInit, StampsStep, PTL DEF ServiceSpec

-----------------------------------------------------------------------------
(***************************************************************************)
(* The service implements MetaState.                                       *)
(***************************************************************************)
\* The operators of MetaState that read no variable mean the same in Abstract.
LEMMA SameOperators ==
    /\ \A f, x : Abstract!Erase(f, x) = Erase(f, x)
    /\ \A f, x, v : Abstract!Emplace(f, x, v) = Emplace(f, x, v)
    /\ \A f, i : Abstract!TouchInode(f, i) = TouchInode(f, i)
    /\ \A f, i, d : Abstract!AddLink(f, i, d) = AddLink(f, i, d)
    /\ \A lay, f, i : Abstract!SyncAttrs(lay, f, i) = SyncAttrs(lay, f, i)
    /\ \A t, m : Abstract!NewAttrs(t, m) = NewAttrs(t, m)
    /\ \A es : Abstract!AcceptedPrefix(es) = AcceptedPrefix(es)
    /\ \A es : Abstract!BatchEnd(es) = BatchEnd(es)
    /\ \A x, y : Abstract!LargerOf(x, y) = LargerOf(x, y)
    /\ \A es, x : Abstract!ShiftBatch(es, x) = ShiftBatch(es, x)
    /\ \A st, es, n : Abstract!MergeFirst(st, es, n) = MergeFirst(st, es, n)
    /\ \A st, x : Abstract!TruncateExtents(st, x) = TruncateExtents(st, x)
<1>1. /\ \A f, x : Abstract!Erase(f, x) = Erase(f, x)
      /\ \A f, x, v : Abstract!Emplace(f, x, v) = Emplace(f, x, v)
      /\ \A f, i : Abstract!TouchInode(f, i) = TouchInode(f, i)
      /\ \A f, i, d : Abstract!AddLink(f, i, d) = AddLink(f, i, d)
      /\ \A t, m : Abstract!NewAttrs(t, m) = NewAttrs(t, m)
      /\ \A x, y : Abstract!LargerOf(x, y) = LargerOf(x, y)
      /\ \A es, x : Abstract!ShiftBatch(es, x) = ShiftBatch(es, x)
    BY DEF Abstract!Erase, Erase, Abstract!Emplace, Emplace, Abstract!TouchInode, TouchInode,
           Abstract!AddLink, AddLink, Abstract!NewAttrs, NewAttrs, Abstract!LargerOf, LargerOf,
           Abstract!ShiftBatch, ShiftBatch
<1>2. \A lay, f, i : Abstract!SyncAttrs(lay, f, i) = SyncAttrs(lay, f, i)
    BY DEF Abstract!SyncAttrs, SyncAttrs
<1>3. \A e : Abstract!ExtentEnd(e) = ExtentEnd(e) /\ (Abstract!ValidExtent(e) <=> ValidExtent(e))
    BY DEF Abstract!ExtentEnd, ExtentEnd, Abstract!ValidExtent, ValidExtent
<1>4. \A es : Abstract!AcceptedPrefix(es) = AcceptedPrefix(es)
    BY <1>3 DEF Abstract!AcceptedPrefix, AcceptedPrefix
<1>5. \A es : Abstract!BatchEnd(es) = BatchEnd(es)
    BY <1>3 DEF Abstract!BatchEnd, BatchEnd
<1>6. \A e, o, l : Abstract!SliceExtent(e, o, l) = SliceExtent(e, o, l)
    BY DEF Abstract!SliceExtent, SliceExtent
<1>7. \A st, x : Abstract!TruncateExtents(st, x) = TruncateExtents(st, x)
    BY <1>3, <1>6 DEF Abstract!TruncateExtents, TruncateExtents
<1>8. \A x, e : Abstract!Remnants(x, e) = Remnants(x, e)
    BY <1>3, <1>6 DEF Abstract!Remnants, Remnants, Abstract!Overlaps, Overlaps
<1>9. \A st, e : Abstract!MergeExtent(st, e) = MergeExtent(st, e)
    BY <1>8 DEF Abstract!MergeExtent, MergeExtent
<1>10. \A st, es, n : Abstract!MergeFirst(st, es, n) = MergeFirst(st, es, n)
    BY <1>9 DEF Abstract!MergeFirst, MergeFirst
<1> QED BY <1>1, <1>2, <1>4, <1>5, <1>7, <1>10

\* The checks of MetaState, made on the state that the service stands for, are
\* those made on the state in memory when the two agree.
LEMMA SameAbstractChecks ==
    ASSUME Latest = SerializeSnapshot
    PROVE  /\ \A p, n : Abstract!CreateError(p, n) = CreateError(p, n)
           /\ \A p, n : Abstract!UnlinkError(p, n) = UnlinkError(p, n)
           /\ \A p, n : Abstract!RmdirError(p, n) = RmdirError(p, n)
           /\ \A p, n, q, m : Abstract!RenameError(p, n, q, m) = RenameError(p, n, q, m)
           /\ \A i : Abstract!FileError(i) = FileError(i)
           /\ Abstract!Room <=> Room
<1>0. /\ Latest.inodes = inodes /\ Latest.dentries = dentries /\ Latest.layouts = layouts
    BY Now
<1>1. /\ \A i : Abstract!IsDir(i) <=> IsDir(i)
      /\ \A i : Abstract!IsFile(i) <=> IsFile(i)
      /\ \A i : Abstract!IsDirectoryEmpty(i) <=> IsDirectoryEmpty(i)
    BY <1>0 DEF Abstract!IsDir, IsDir, Abstract!IsFile, IsFile,
                Abstract!IsDirectoryEmpty, IsDirectoryEmpty
<1>2. ASSUME NEW i PROVE Abstract!ParentOf(i) = ParentOf(i)
    <2>1. Abstract!ParentOf(i) = ParentIn(dentries, i)
        BY <1>0 DEF Abstract!ParentOf, ParentIn, Abstract!Root, Root
    <2>2. ParentOf(i) = ParentIn(dentries, i)
        BY DEF ParentOf, ParentIn
    <2> QED BY <2>1, <2>2
<1>3. \A a, i : Abstract!IsAncestor(a, i) <=> IsAncestor(a, i)
    BY <1>0, <1>2 DEF Abstract!IsAncestor, IsAncestor
<1>4. \A p, n : Abstract!ParentError(p, n) = ParentError(p, n)
    BY <1>0, <1>1 DEF Abstract!ParentError, ParentError
<1>5. \A p, n : Abstract!EntryError(p, n) = EntryError(p, n)
    BY <1>0, <1>4 DEF Abstract!EntryError, EntryError
<1>6. \A x, y : Abstract!TargetError(x, y) = TargetError(x, y)
    BY <1>1 DEF Abstract!TargetError, TargetError
<1>7. \A p, n : Abstract!CreateError(p, n) = CreateError(p, n)
    BY <1>0, <1>4 DEF Abstract!CreateError, CreateError
<1>8. \A p, n : Abstract!UnlinkError(p, n) = UnlinkError(p, n)
    BY <1>0, <1>1, <1>5 DEF Abstract!UnlinkError, UnlinkError
<1>9. \A p, n : Abstract!RmdirError(p, n) = RmdirError(p, n)
    BY <1>0, <1>1, <1>5 DEF Abstract!RmdirError, RmdirError
<1>10. \A p, n, q, m : Abstract!RenameError(p, n, q, m) = RenameError(p, n, q, m)
    BY <1>0, <1>1, <1>3, <1>4, <1>6 DEF Abstract!RenameError, RenameError
<1>11. \A i : Abstract!FileError(i) = FileError(i)
    BY <1>0, <1>1 DEF Abstract!FileError, FileError
<1>12. Abstract!Room <=> Room
    BY <1>0 DEF Abstract!Room, Room
<1> QED BY <1>7, <1>8, <1>9, <1>10, <1>11, <1>12

\* A step of the state in memory that is also one of the state the service
\* stands for: memory is at the end of the history before and after it.
AtTheEnd ==
    /\ Latest = SerializeSnapshot /\ Latest' = SerializeSnapshot'
    /\ past'[Furthest'].result = result'

\* At the end of the history the abstract variables are those in memory.
LEMMA EndIs ==
    ASSUME AtTheEnd
    PROVE  /\ Latest.inodes = inodes /\ Latest.dentries = dentries
           /\ Latest.layouts = layouts /\ Latest.next_inode_id = next_inode_id
           /\ Latest'.inodes = inodes' /\ Latest'.dentries = dentries'
           /\ Latest'.layouts = layouts' /\ Latest'.next_inode_id = next_inode_id'
           /\ past'[Furthest'].result = result'
           /\ UNCHANGED state => Latest' = Latest
BY Now DEF AtTheEnd, state, SerializeSnapshot

\* A refusal by MetaState is one in the abstract state; the following lemmas say
\* the same of each of its operations.
LEMMA AbstractReject ==
    ASSUME AtTheEnd, NEW err, Reject(err)
    PROVE  Abstract!Reject(err)
BY EndIs DEF Reject, state, Abstract!Reject, Abstract!state

\* Mkdir and CreateFile.
LEMMA AbstractCreate ==
    ASSUME AtTheEnd, NEW p, NEW n, NEW t, NEW mode,
           \/ CreateError(p, n) # "Ok" /\ Reject(CreateError(p, n))
           \/ CreateNode(p, n, t, mode)
    PROVE  \/ Abstract!CreateError(p, n) # "Ok" /\ Abstract!Reject(Abstract!CreateError(p, n))
           \/ Abstract!CreateNode(p, n, t, mode)
<1>1. Abstract!CreateError(p, n) = CreateError(p, n) /\ (Abstract!Room <=> Room)
    BY SameAbstractChecks DEF AtTheEnd
<1>2. CASE CreateError(p, n) # "Ok" /\ Reject(CreateError(p, n))
    BY <1>1, <1>2, AbstractReject
<1>3. CASE CreateNode(p, n, t, mode)
    BY <1>1, <1>3, EndIs, SameOperators DEF CreateNode, Abstract!CreateNode
<1> QED BY <1>2, <1>3

\* Unlink and Rmdir.
LEMMA AbstractRemove ==
    ASSUME AtTheEnd, NEW p, NEW n, RemoveNode(p, n)
    PROVE  Abstract!RemoveNode(p, n)
<1>1. Abstract!Room <=> Room
    BY SameAbstractChecks DEF AtTheEnd
<1>2. \A f, q, i : Abstract!InodesWithout(f, q, i) = InodesWithout(f, q, i)
    BY SameOperators DEF Abstract!InodesWithout, InodesWithout
<1>3. \A lay, f, q, i : Abstract!LayoutsWithout(lay, f, q, i) = LayoutsWithout(lay, f, q, i)
    BY SameOperators DEF Abstract!LayoutsWithout, LayoutsWithout
<1> QED BY <1>1, <1>2, <1>3, EndIs, SameOperators DEF RemoveNode, Abstract!RemoveNode

\* Rename.
LEMMA AbstractRename ==
    ASSUME AtTheEnd, NEW p, NEW n, NEW q, NEW m, Rename(p, n, q, m)
    PROVE  Abstract!Rename(p, n, q, m)
<1>1. Abstract!RenameError(p, n, q, m) = RenameError(p, n, q, m) /\ (Abstract!Room <=> Room)
    BY SameAbstractChecks DEF AtTheEnd
<1>2. \A f, x, i : Abstract!InodesWithout(f, x, i) = InodesWithout(f, x, i)
    BY SameOperators DEF Abstract!InodesWithout, InodesWithout
<1>3. \A lay, f, x, i : Abstract!LayoutsWithout(lay, f, x, i) = LayoutsWithout(lay, f, x, i)
    BY SameOperators DEF Abstract!LayoutsWithout, LayoutsWithout
<1>4. \A f, x, y, i : Abstract!InodesMoved(f, x, y, i) = InodesMoved(f, x, y, i)
    BY SameOperators DEF Abstract!InodesMoved, InodesMoved
<1>5. MoveEntry(p, n, q, m) => Abstract!MoveEntry(p, n, q, m)
    BY <1>1, <1>2, <1>3, <1>4, EndIs, SameOperators DEF MoveEntry, Abstract!MoveEntry
<1>6. \A err : Reject(err) => Abstract!Reject(err)
    BY AbstractReject
<1>7. UNCHANGED state => UNCHANGED Abstract!state
    BY EndIs DEF state, Abstract!state
<1> QED BY <1>1, <1>5, <1>6, <1>7, EndIs DEF Rename, Abstract!Rename

\* SetAttr.
LEMMA AbstractSetAttr ==
    ASSUME AtTheEnd, NEW i, NEW m, SetAttr(i, m)
    PROVE  Abstract!SetAttr(i, m)
<1>1. Abstract!Room <=> Room
    BY SameAbstractChecks DEF AtTheEnd
<1>2. Reject("NotFound") => Abstract!Reject("NotFound")
    BY AbstractReject
<1> QED BY <1>1, <1>2, EndIs, SameOperators DEF SetAttr, Abstract!SetAttr

\* The merge loop of the two writes.
LEMMA AbstractMerge ==
    ASSUME AtTheEnd, NEW i, NEW es, NEW size, MergeBatch(i, es, size)
    PROVE  Abstract!MergeBatch(i, es, size)
<1>1. (Abstract!Room <=> Room) /\ Abstract!FileError(i) = FileError(i)
    BY SameAbstractChecks DEF AtTheEnd
<1>2. Abstract!SetSize(i, size) = SetSize(i, size)
    BY EndIs, SameOperators DEF Abstract!SetSize, SetSize
<1> QED BY <1>1, <1>2, EndIs, SameOperators DEF MergeBatch, Abstract!MergeBatch

\* CommitWrite and AppendWrite.
LEMMA AbstractWrite ==
    ASSUME AtTheEnd, NEW i, NEW es
    PROVE  /\ CommitWrite(i, es) => Abstract!CommitWrite(i, es)
           /\ AppendWrite(i, es) => Abstract!AppendWrite(i, es)
<1>1. Abstract!FileError(i) = FileError(i)
    BY SameAbstractChecks DEF AtTheEnd
<1>2. \A err : Reject(err) => Abstract!Reject(err)
    BY AbstractReject
<1>3. \A e, size : MergeBatch(i, e, size) => Abstract!MergeBatch(i, e, size)
    BY AbstractMerge
<1>4. /\ Abstract!LargerOf(Latest.inodes[i].size, Abstract!BatchEnd(es)) =
             LargerOf(inodes[i].size, BatchEnd(es))
      /\ Abstract!ShiftBatch(es, Latest.inodes[i].size) = ShiftBatch(es, inodes[i].size)
      /\ Latest.inodes[i].size + Abstract!BatchEnd(es) = inodes[i].size + BatchEnd(es)
    BY EndIs, SameOperators
<1>5. CommitWrite(i, es) => Abstract!CommitWrite(i, es)
    BY <1>1, <1>2, <1>3, <1>4 DEF CommitWrite, Abstract!CommitWrite
<1>6. AppendWrite(i, es) => Abstract!AppendWrite(i, es)
    BY <1>1, <1>2, <1>3, <1>4 DEF AppendWrite, Abstract!AppendWrite
<1> QED BY <1>5, <1>6

\* Truncate.
LEMMA AbstractTruncate ==
    ASSUME AtTheEnd, NEW i, NEW size, Truncate(i, size)
    PROVE  Abstract!Truncate(i, size)
<1>1. (Abstract!Room <=> Room) /\ Abstract!FileError(i) = FileError(i)
    BY SameAbstractChecks DEF AtTheEnd
<1>2. Abstract!SetSize(i, size) = SetSize(i, size)
    BY EndIs, SameOperators DEF Abstract!SetSize, SetSize
<1>3. \A err : Reject(err) => Abstract!Reject(err)
    BY AbstractReject
<1> QED BY <1>1, <1>2, <1>3, EndIs, SameOperators DEF Truncate, Abstract!Truncate

\* There, a step of MetaState is a step of Abstract.
LEMMA AbstractNext ==
    ASSUME AtTheEnd, Next
    PROVE  Abstract!Next
<1>1. ASSUME NEW p \in InodeIds, NEW n \in AnyName, NEW mode \in Modes,
             Mkdir(p, n, mode) \/ CreateFile(p, n, mode)
      PROVE  Abstract!Next
    <2>1. Abstract!Mkdir(p, n, mode) \/ Abstract!CreateFile(p, n, mode)
        BY <1>1, AbstractCreate DEF Mkdir, CreateFile, Abstract!Mkdir, Abstract!CreateFile
    <2> QED BY <2>1 DEF Abstract!Next, Abstract!NamespaceStep, Abstract!InodeIds, InodeIds,
                        Abstract!AnyName, AnyName
<1>2. ASSUME NEW p \in InodeIds, NEW n \in AnyName, Unlink(p, n) \/ Rmdir(p, n)
      PROVE  Abstract!Next
    <2>1. /\ Abstract!UnlinkError(p, n) = UnlinkError(p, n)
          /\ Abstract!RmdirError(p, n) = RmdirError(p, n)
        BY SameAbstractChecks DEF AtTheEnd
    <2>2. Abstract!Unlink(p, n) \/ Abstract!Rmdir(p, n)
        BY <1>2, <2>1, AbstractRemove, AbstractReject
           DEF Unlink, Rmdir, Abstract!Unlink, Abstract!Rmdir
    <2> QED BY <2>2 DEF Abstract!Next, Abstract!NamespaceStep, Abstract!InodeIds, InodeIds,
                        Abstract!AnyName, AnyName
<1>3. ASSUME NEW p \in InodeIds, NEW n \in AnyName, NEW q \in InodeIds, NEW m \in AnyName,
             Rename(p, n, q, m)
      PROVE  Abstract!Next
    <2>1. Abstract!Rename(p, n, q, m)
        BY <1>3, AbstractRename
    <2> QED BY <2>1 DEF Abstract!Next, Abstract!NamespaceStep, Abstract!InodeIds, InodeIds,
                        Abstract!AnyName, AnyName
<1>4. ASSUME NEW i \in InodeIds, NEW m \in Modes, SetAttr(i, m)
      PROVE  Abstract!Next
    <2>1. Abstract!SetAttr(i, m)
        BY <1>4, AbstractSetAttr
    <2> QED BY <2>1 DEF Abstract!Next, Abstract!FileStep, Abstract!InodeIds, InodeIds
<1>5. ASSUME NEW i \in InodeIds, NEW es \in Batches, CommitWrite(i, es) \/ AppendWrite(i, es)
      PROVE  Abstract!Next
    <2>1. Abstract!CommitWrite(i, es) \/ Abstract!AppendWrite(i, es)
        BY <1>5, AbstractWrite
    <2> QED BY <2>1 DEF Abstract!Next, Abstract!FileStep, Abstract!InodeIds, InodeIds
<1>6. ASSUME NEW i \in InodeIds, NEW size \in Sizes, Truncate(i, size)
      PROVE  Abstract!Next
    <2>1. Abstract!Truncate(i, size)
        BY <1>6, AbstractTruncate
    <2> QED BY <2>1 DEF Abstract!Next, Abstract!FileStep, Abstract!InodeIds, InodeIds
<1> QED BY <1>1, <1>2, <1>3, <1>4, <1>5, <1>6 DEF Next, NamespaceStep, FileStep

\* The abstract state is the last of the history.
LEMMA LatestIs ==
    /\ LogInv => Latest = past[Furthest].data
    /\ LogInv' => Latest' = past'[Furthest'].data
BY DEF LogInv, Latest

\* An Apply that goes beyond the history is the one step that can be seen.
LEMMA ApplyIsAbstract ==
    ASSUME LogInv, LogInv', Apply
    PROVE  Abstract!Next \/ UNCHANGED Abstract!vars
<1> DEFINE n == applied + 1
<1>1. /\ n \in 1 .. Len(log) /\ log[n] \in Entry /\ applied' = n
      /\ \/ n <= Furthest /\ past' = past
         \/ /\ n = Furthest + 1 /\ DOMAIN past' = 0 .. n
            /\ past'[n].data = SerializeSnapshot'
            /\ past'[n].result = IF log[n] = EmptyEntry THEN past[applied].result ELSE result'
    BY ApplyIs
<1>2. /\ Furthest \in Nat /\ applied \in 0 .. Furthest /\ SerializeSnapshot = past[applied].data
      /\ ApplyCommand(log[n])
    BY DEF LogInv, Apply
<1>3. CASE n <= Furthest /\ past' = past
    <2>1. Furthest' = Furthest
        BY <1>3 DEF Furthest
    <2>2. Latest' = Latest
        BY <1>3, <2>1, LatestIs
    <2> QED BY <1>3, <2>1, <2>2 DEF Abstract!vars
<1>4. CASE /\ n = Furthest + 1 /\ DOMAIN past' = 0 .. n
           /\ past'[n].data = SerializeSnapshot'
           /\ past'[n].result = IF log[n] = EmptyEntry THEN past[applied].result ELSE result'
    <2>1. Furthest' = n /\ applied = Furthest
        BY <1>2, <1>4, FurthestIs
    <2>2. Latest = SerializeSnapshot /\ Latest' = SerializeSnapshot'
        BY <1>2, <1>4, <2>1, LatestIs
    <2>3. CASE log[n] = EmptyEntry
        <3>1. log[n].op = "empty"
            BY <2>3 DEF EmptyEntry
        <3>2. UNCHANGED vars
            BY <1>2, <3>1 DEF ApplyCommand
        <3>3. SerializeSnapshot' = SerializeSnapshot
            BY <3>2 DEF vars, SerializeSnapshot
        <3>4. past'[Furthest'].result = past[Furthest].result
            BY <1>4, <2>1, <2>3
        <3> QED BY <2>2, <3>3, <3>4 DEF Abstract!vars
    <2>4. CASE log[n] # EmptyEntry
        <3>1. log[n] \in RaftCommand
            BY <1>1, <2>4 DEF Entry
        <3>2. Next
            BY <1>2, <3>1, CommandIsStep
        <3>3. AtTheEnd
            BY <1>4, <2>1, <2>2, <2>4 DEF AtTheEnd
        <3> QED BY <3>2, <3>3, AbstractNext
    <2> QED BY <2>3, <2>4
<1> QED BY <1>1, <1>3, <1>4

\* The service starts where MetaState starts.
LEMMA AbstractInit == ServiceInit => Abstract!Init
<1> SUFFICES ASSUME ServiceInit PROVE Abstract!Init
    OBVIOUS
<1>1. LogInv /\ DOMAIN past = 0 .. 0
    BY LogInit DEF ServiceInit
<1>2. Furthest = 0 /\ past[0].data = SerializeSnapshot /\ past[0].result = "Ok"
    BY <1>1, FurthestIs DEF ServiceInit
<1>3. /\ Latest.inodes = inodes /\ Latest.dentries = dentries
      /\ Latest.layouts = layouts /\ Latest.next_inode_id = next_inode_id
    BY <1>1, <1>2, LatestIs, Now
<1> QED BY <1>2, <1>3 DEF ServiceInit, Init, Abstract!Init, Root, Abstract!Root

\* The service with its log, snapshots, crashes and replays behaves as one
\* MetaState to which each committed command is applied once (Apply,
\* TakeSnapshot, RestoreSnapshot, MetaServer::Run).
THEOREM ServiceImplementsMetaState == ServiceSpec => ImplementsMetaState
<1>1. LogInv /\ LogInv' /\ [ServiceNext]_serviceVars => [Abstract!Next]_(Abstract!vars)
    <2> SUFFICES ASSUME LogInv, LogInv', [ServiceNext]_serviceVars
                 PROVE  Abstract!Next \/ UNCHANGED Abstract!vars
        OBVIOUS
    <2>1. CASE Apply
        BY <2>1, ApplyIsAbstract
    <2>2. CASE past' = past
        <3>1. Furthest' = Furthest
            BY <2>2 DEF Furthest
        <3>2. Latest' = Latest
            BY <2>2, <3>1, LatestIs
        <3> QED BY <2>2, <3>1, <3>2 DEF Abstract!vars
    <2>3. \A c \in Clients : ClientStep(c) => past' = past
        BY ClientLog
    <2> QED BY <2>1, <2>2, <2>3
            DEF ServiceNext, Commit, TakeSnapshot, Restart, serviceVars, node
<1> QED BY <1>1, AbstractInit, LogInvariant, PTL
        DEF ServiceSpec, ImplementsMetaState, Abstract!Spec
=============================================================================
