---------------------------- MODULE MetaService ----------------------------
(***************************************************************************)
(* The metadata server, src/src/meta_service.cc and meta_server.cc: RPC    *)
(* handlers that propose commands or read, the state machine that applies  *)
(* the Raft log, snapshots, and the death and restart of the process.      *)
(*                                                                         *)
(* The server is a Raft group of one node (main.cc runs it with the Noop   *)
(* transport).  The handlers run in gRPC threads, Apply and TakeSnapshot   *)
(* in the thread of Raftor::Run; the lock of MetaService makes an Apply, a *)
(* snapshot and a read of the state each one step.  Nothing calls          *)
(* MetaServer::Stop while the server serves, so it ends only by a crash.   *)
(*                                                                         *)
(* The Raft library is external and modelled from its use: proposals are   *)
(* appended to a log, entries that are on disk are committed and applied   *)
(* in order, those that are not may be lost in a crash, and on a restart   *)
(* the latest snapshot is restored and the log behind it applied again.    *)
(***************************************************************************)
EXTENDS MetaCommand, ErrorMap, Sequences

CONSTANTS
    Clients,        \* callers of the RPCs, each with one call at a time
    Commands,       \* the commands they ask for
    Reads,          \* the read requests they make
    MaxCommands,    \* bound: commands in the log
    MaxCrashes      \* bound: crashes of the server

ASSUME ServiceAssumption ==
    /\ Commands \subseteq RaftCommand /\ Reads \subseteq ReadRequest
    /\ {MaxCommands, MaxCrashes} \subseteq Nat

VARIABLES
    log,            \* the Raft log: commands and empty entries
    committed,      \* entries of the log that are on disk and committed
    applied,        \* entries applied to the MetaState in memory
    snapshot,       \* the latest snapshot: index, state and time stamps
    boot,           \* how often the process was started: the time of day
    ctime,          \* ctime_ns of each inode in memory: the boot it was set in
    calls,          \* the call that each client waits for
    past            \* history: the state and result after each entry, as it
                    \* was when the entry was applied for the first time

node        == <<vars, log, committed, applied, snapshot, boot, ctime, past>>
serviceVars == <<node, calls>>

Idle == [at |-> "idle"]

Furthest == Cardinality(DOMAIN past) - 1

ServiceInit ==
    /\ Init
    /\ log = <<EmptyEntry>> /\ committed = 0 /\ applied = 0
    /\ boot = 1
    /\ ctime = [i \in {Root} |-> 1]
    /\ snapshot = [index |-> 0, data |-> SerializeSnapshot, ctime |-> ctime]
    /\ calls = [c \in Clients |-> Idle]
    /\ past = [n \in {0} |-> [data |-> SerializeSnapshot, ctime |-> ctime, result |-> "Ok"]]
-----------------------------------------------------------------------------
(* Calls of the clients, and their handlers. *)

\* A method of MetaClient whose handler proposes a command.
Propose(c, command) ==
    /\ calls[c] = Idle
    /\ Cardinality({n \in DOMAIN log : log[n] # EmptyEntry}) < MaxCommands
    /\ log' = Append(log, command)
    /\ calls' = [calls EXCEPT ![c] = [at |-> "proposed", command |-> command,
                                      index |-> Len(log) + 1, response |-> "none"]]
    /\ UNCHANGED <<vars, committed, applied, snapshot, boot, ctime, past>>

\* Mutant: the read index is not asked for.
ReadIndexNow == 0

\* ReadIndexSync returns when all that is committed now has been applied.
ReadIndexNeeded == committed

\* A method whose handler reads, up to the ReadIndexSync of LinearizableRead.
\* What it reads matters only in the end: the call stands for any of Reads.
LinearizableRead(c) ==
    /\ calls[c] = Idle
    /\ calls' = [calls EXCEPT ![c] = [at |-> "reading", needed |-> ReadIndexNeeded,
                                      began |-> committed]]
    /\ UNCHANGED node

\* How a call ends of which the client never learns the outcome: ProposeSync
\* or ReadIndexSync gives up, the library drops the proposal, or there is no
\* server to talk to.
FailureErrnos ==
    {ErrnoFor(FromRaftError("RpcTimeout")), ErrnoFor(FromRaftError("ProposalDropped")),
     ToErrno(FromGrpcStatus(ConnectionLost))}

\* The handler gives up; a proposed entry stays in the log.
TimedOut(c) ==
    /\ calls[c].at \in {"proposed", "reading"}
    /\ calls' = [calls EXCEPT ![c] = Idle]
    /\ UNCHANGED node

\* The errno that the client gets for the response to its command.
ProposalReply(response) ==
    IF response = [attrs |-> "Ok"] THEN "0" ELSE ErrnoFor(ErrorFromResponse(response))

\* The rest of a proposing handler: the client has its ProposalReply.
ReplyToProposal(c) ==
    /\ calls[c].at = "responded"
    /\ calls' = [calls EXCEPT ![c] = Idle]
    /\ UNCHANGED node

ReadIndexReached(c) == calls[c].at = "reading" /\ applied >= calls[c].needed

\* The rest of a reading handler, under the shared lock: the client has the
\* ReadReply to its request.
ReplyToRead(c) ==
    /\ ReadIndexReached(c)
    /\ calls' = [calls EXCEPT ![c] = Idle]
    /\ UNCHANGED node
-----------------------------------------------------------------------------
(* The Raft thread. *)

Commit ==
    /\ committed < Len(log)
    /\ committed' = Len(log)
    /\ UNCHANGED <<vars, log, applied, snapshot, boot, ctime, past, calls>>

\* Where the version of an inode grows the code also sets its ctime.
Restamped ==
    [i \in DOMAIN inodes' |->
        IF i \in DOMAIN inodes /\ inodes'[i].version = inodes[i].version
        THEN ctime[i] ELSE boot]

\* Mutant: a command that is refused yields an error instead of a response,
\* which reaches nobody.
RespondedOnlyOk(n, kind) ==
    [c \in Clients |->
        IF calls[c].at = "proposed" /\ calls[c].index = n /\ kind = "Ok"
        THEN [calls[c] EXCEPT !.at = "responded", !.response = [attrs |-> "Ok"]]
        ELSE calls[c]]

\* The handler that waits for entry n, if there still is one, gets a response.
Responded(n, kind) ==
    [c \in Clients |->
        IF calls[c].at = "proposed" /\ calls[c].index = n
        THEN [calls[c] EXCEPT !.at = "responded",
                              !.response = IF kind = "Ok" THEN [attrs |-> "Ok"]
                                           ELSE MakeErrorResponse(kind)]
        ELSE calls[c]]

Apply ==
    LET n == applied + 1
        outcome == IF log[n] = EmptyEntry THEN past[applied].result ELSE result'
    IN  /\ applied < committed
        /\ ApplyCommand(log[n])
        /\ applied' = n
        /\ ctime' = Restamped
        /\ calls' = Responded(n, result')
        /\ past' = IF n \in DOMAIN past THEN past
                   ELSE Emplace(past, n, [data |-> SerializeSnapshot', ctime |-> ctime',
                                         result |-> outcome])
        /\ UNCHANGED <<log, committed, snapshot, boot>>

\* Mutant: the time stamps are not in the snapshot.
SnapshotStampsZero == [i \in DOMAIN ctime |-> 0]

\* The time stamps travel in the attributes of the inodes.
SnapshotStamps == ctime

TakeSnapshot ==
    /\ snapshot.index < applied
    /\ snapshot' = [index |-> applied, data |-> SerializeSnapshot, ctime |-> SnapshotStamps]
    /\ UNCHANGED <<vars, log, committed, applied, boot, ctime, calls, past>>
-----------------------------------------------------------------------------
(* The process. *)

\* The state that MetaServer::Run begins with: that of the snapshot, or a new
\* one, which is what the snapshot with index 0 stands for.
StartFrom(s) ==
    /\ RestoreSnapshot(s.data)
    /\ ctime' = IF s.index = 0 THEN [i \in {Root} |-> boot'] ELSE s.ctime
    /\ applied' = s.index

\* The process dies and is started again.  What was not on disk may be lost,
\* every waiting client sees its connection break (its errno is that of
\* ConnectionLost), and the node opens its new term with an empty entry.
Restart ==
    /\ boot <= MaxCrashes
    /\ boot' = boot + 1
    /\ \E n \in committed .. Len(log) : log' = Append(SubSeq(log, 1, n), EmptyEntry)
    /\ StartFrom(snapshot)
    /\ calls' = [c \in Clients |-> Idle]
    /\ UNCHANGED <<committed, snapshot, past>>
-----------------------------------------------------------------------------
ClientStep(c) ==
    \/ \E command \in Commands : Propose(c, command)
    \/ LinearizableRead(c) \/ TimedOut(c) \/ ReplyToProposal(c) \/ ReplyToRead(c)

ServiceNext ==
    \/ \E c \in Clients : ClientStep(c)
    \/ Commit \/ Apply \/ TakeSnapshot \/ Restart

\* The Raft thread and the handler threads run while the process does.
Fairness ==
    /\ WF_serviceVars(Commit) /\ WF_serviceVars(Apply)
    /\ \A c \in Clients :
          WF_serviceVars(ReplyToProposal(c)) /\ WF_serviceVars(ReplyToRead(c))

ServiceSpec == ServiceInit /\ [][ServiceNext]_serviceVars /\ Fairness
-----------------------------------------------------------------------------
(* Properties. *)

\* The state the service stands for: that of the last entry ever applied,
\* taken from the memory of the process whenever that has come so far.
Latest ==
    IF applied = Furthest THEN SerializeSnapshot ELSE past[Furthest].data

Abstract == INSTANCE MetaState
    WITH inodes <- Latest.inodes, dentries <- Latest.dentries,
         layouts <- Latest.layouts, next_inode_id <- Latest.next_inode_id,
         result <- past[Furthest].result

\* Through crashes, lost entries, snapshots and replays the service is one
\* MetaState that runs each command once: an entry that is applied again does
\* not do so visibly, and a restored and replayed state is the one that the
\* clients knew.
ImplementsMetaState == Abstract!Spec

Past(n) == INSTANCE MetaCommand
    WITH inodes <- past[n].data.inodes, dentries <- past[n].data.dentries,
         layouts <- past[n].data.layouts, next_inode_id <- past[n].data.next_inode_id,
         result <- past[n].result

\* A read answers from a state not older than the one of the entries that were
\* committed when it began, so not older than any earlier answer has shown to
\* whichever client, also while a restarted server replays its log.
LinearizableReads ==
    \A c \in Clients : ReadIndexReached(c) =>
        \A r \in Reads : \E n \in calls[c].began .. Furthest :
            ReadReply(r) = Past(n)!ReadReply(r)

\* The errno that POSIX asks for.
PosixErrno ==
    [Ok |-> "0", InvalidArgument |-> "EINVAL", NotFound |-> "ENOENT",
     AlreadyExists |-> "EEXIST", NotDirectory |-> "ENOTDIR", IsDirectory |-> "EISDIR",
     DirectoryNotEmpty |-> "ENOTEMPTY"]

\* What the kernel is told of a command is what happened: success or a refusal
\* means that the command is in the log for good and had that outcome, and
\* where the outcome is open the errno is one of a failure.
ErrnoTellsOutcome ==
    \A c \in Clients : calls[c].at = "responded" =>
        /\ calls[c].index <= committed
        /\ log[calls[c].index] = calls[c].command
        /\ ProposalReply(calls[c].response) = PosixErrno[past[calls[c].index].result]
        /\ FailureErrnos \subseteq {"EAGAIN", "ETIMEDOUT"}

\* Replaying an entry stamps its inodes anew, with a later time: a server that
\* has caught up shows no inode with an older ctime than it did before.
StampsMoveForward ==
    applied = Furthest =>
        \A i \in DOMAIN inodes : ctime[i] >= past[Furthest].ctime[i]

\* No handler waits for ever: not for an entry that was refused or lost, and
\* not for a read index during a replay.
CallsReturn ==
    \A c \in Clients :
        calls[c] # Idle ~> calls[c] = Idle
=============================================================================
