---------------------------- MODULE MetaCommand ----------------------------
(***************************************************************************)
(* What travels between the clients and the metadata state machine: the    *)
(* commands that the handlers of src/src/meta_service.cc put into the Raft *)
(* log, MetaService::Apply, which runs them, and the requests that are     *)
(* answered from the state without going through the log.                  *)
(***************************************************************************)
EXTENDS MetaState

(* One constructor per handler that proposes.  base_version of the two writes
   is sent and stored, and never looked at: it is left out. *)

MkdirCommand(p, n, mode) == [op |-> "mkdir", parent |-> p, name |-> n, mode |-> mode]

CreateFileCommand(p, n, mode) ==
    [op |-> "create_file", parent |-> p, name |-> n, mode |-> mode]

SetAttrCommand(i, mode) == [op |-> "set_attr", inode_id |-> i, mode |-> mode]

UnlinkCommand(p, n) == [op |-> "unlink", parent |-> p, name |-> n]

RmdirCommand(p, n) == [op |-> "rmdir", parent |-> p, name |-> n]

RenameCommand(p, n, q, m) ==
    [op |-> "rename", old_parent |-> p, old_name |-> n, new_parent |-> q, new_name |-> m]

CommitWriteCommand(i, es) == [op |-> "commit_write", inode_id |-> i, extents |-> es]

AppendWriteCommand(i, es) == [op |-> "append_write", inode_id |-> i, extents |-> es]

TruncateCommand(i, size) == [op |-> "truncate", inode_id |-> i, size |-> size]

\* RaftCommand: what the handlers can propose.
RaftCommand ==
    {MkdirCommand(p, n, mode) : p \in InodeIds, n \in AnyName, mode \in Modes}
    \cup {CreateFileCommand(p, n, mode) : p \in InodeIds, n \in AnyName, mode \in Modes}
    \cup {SetAttrCommand(i, mode) : i \in InodeIds, mode \in Modes}
    \cup {UnlinkCommand(p, n) : p \in InodeIds, n \in AnyName}
    \cup {RmdirCommand(p, n) : p \in InodeIds, n \in AnyName}
    \cup {RenameCommand(p, n, q, m) : p, q \in InodeIds, n, m \in AnyName}
    \cup {CommitWriteCommand(i, es) : i \in InodeIds, es \in Batches}
    \cup {AppendWriteCommand(i, es) : i \in InodeIds, es \in Batches}
    \cup {TruncateCommand(i, size) : i \in InodeIds, size \in Sizes}

\* The entry without data that a new leader starts its term with.
EmptyEntry == [op |-> "empty"]

\* Apply: an empty entry returns at once, any other runs one method of
\* MetaState; `result' holds the error kind that goes into the response.
ApplyCommand(c) ==
    CASE c.op = "empty"        -> UNCHANGED vars
      [] c.op = "mkdir"        -> Mkdir(c.parent, c.name, c.mode)
      [] c.op = "create_file"  -> CreateFile(c.parent, c.name, c.mode)
      [] c.op = "set_attr"     -> SetAttr(c.inode_id, c.mode)
      [] c.op = "commit_write" -> CommitWrite(c.inode_id, c.extents)
      [] c.op = "append_write" -> AppendWrite(c.inode_id, c.extents)
      [] c.op = "truncate"     -> Truncate(c.inode_id, c.size)
      [] c.op = "unlink"       -> Unlink(c.parent, c.name)
      [] c.op = "rmdir"        -> Rmdir(c.parent, c.name)
      [] c.op = "rename"       -> Rename(c.old_parent, c.old_name, c.new_parent, c.new_name)
-----------------------------------------------------------------------------
(* The requests that read. *)

LookupRequest(p, n) == [op |-> "lookup", parent |-> p, name |-> n]

GetAttrRequest(i) == [op |-> "getattr", inode_id |-> i]

ReadDirRequest(i) == [op |-> "readdir", inode_id |-> i]

GetLayoutRequest(i) == [op |-> "getlayout", inode_id |-> i]

ListLiveObjectsRequest == [op |-> "list-live-objects"]

\* The requests that LinearizableRead serves.
ReadRequest ==
    {LookupRequest(p, n) : p \in InodeIds, n \in AnyName}
    \cup {GetAttrRequest(i) : i \in InodeIds} \cup {ReadDirRequest(i) : i \in InodeIds}
    \cup {GetLayoutRequest(i) : i \in InodeIds} \cup {ListLiveObjectsRequest}

GetAttrError(i) == IF i \in DOMAIN inodes THEN "Ok" ELSE "NotFound"

ReadDirError(i) ==
    IF i \notin DOMAIN inodes THEN "NotFound" ELSE IF IsDir(i) THEN "Ok" ELSE "NotDirectory"

ReadError(r) ==
    CASE r.op = "lookup"            -> EntryError(r.parent, r.name)
      [] r.op = "getattr"           -> GetAttrError(r.inode_id)
      [] r.op = "readdir"           -> ReadDirError(r.inode_id)
      [] r.op = "getlayout"         -> FileError(r.inode_id)
      [] r.op = "list-live-objects" -> "Ok"

\* The attributes, the entries, the layout or the keys that are asked for.
ReadValue(r) ==
    CASE r.op = "lookup"            -> inodes[dentries[<<r.parent, r.name>>]]
      [] r.op = "getattr"           -> inodes[r.inode_id]
      [] r.op = "readdir"           -> ReadDir(r.inode_id)
      [] r.op = "getlayout"         -> GetLayout(r.inode_id)
      [] r.op = "list-live-objects" -> ListLiveObjects

ReadReply(r) ==
    IF ReadError(r) = "Ok" THEN [value |-> ReadValue(r)] ELSE [error |-> ReadError(r)]
=============================================================================
