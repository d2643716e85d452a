----------------------------- MODULE ErrorMap -----------------------------
(***************************************************************************)
(* The way of an error from where it arises to the errno that the kernel   *)
(* gets: src/src/error.cc, the two ends of the Raft response in            *)
(* src/src/meta_service.cc, FromGrpcStatus of src/src/fuse/meta_client.cc  *)
(* and ToErrno of src/src/fuse/fuse_server.cc.                             *)
(*                                                                         *)
(* An error is named by its kind.  Every MakeError of the metadata service *)
(* has a message, so the text of a status begins with its kind and a colon *)
(* and FromGrpcStatus can tell kinds apart that share a status code; of    *)
(* the text, that prefix is all the model keeps.  The path of an error is  *)
(* shown to nobody and left out.                                           *)
(***************************************************************************)

\* ErrorKind.
ErrorKind == {"InvalidArgument", "NotFound", "AlreadyExists", "NotDirectory",
              "IsDirectory", "DirectoryNotEmpty", "NotLeader", "Unavailable",
              "Timeout", "Internal", "RaftFailure"}

\* The kinds that ErrorFromResponse finds in a response again.
StateKinds == {"InvalidArgument", "NotFound", "AlreadyExists", "NotDirectory",
               "IsDirectory", "DirectoryNotEmpty"}

\* MakeErrorResponse writes the kind's name, ErrorFromResponse reads it.
MakeErrorResponse(kind) == [error |-> kind]

ErrorFromResponse(response) ==
    IF response.error \in StateKinds THEN response.error ELSE "Internal"

\* The errors of the Raft library, as far as FromRaftError tells them apart.
FromRaftError(error) ==
    CASE error = "RpcTimeout"     -> "Timeout"
      [] error = "LostLeadership" -> "NotLeader"
      [] error = "ShuttingDown"   -> "Unavailable"
      [] OTHER                    -> "RaftFailure"

ToGrpcStatusCode(kind) ==
    CASE kind = "InvalidArgument" -> "INVALID_ARGUMENT"
      [] kind = "NotFound"        -> "NOT_FOUND"
      [] kind = "AlreadyExists"   -> "ALREADY_EXISTS"
      [] kind \in {"NotDirectory", "IsDirectory", "DirectoryNotEmpty", "NotLeader"}
                                  -> "FAILED_PRECONDITION"
      [] kind \in {"Unavailable", "RaftFailure"} -> "UNAVAILABLE"
      [] kind = "Timeout"         -> "DEADLINE_EXCEEDED"
      [] kind = "Internal"        -> "INTERNAL"

\* ToGrpcStatus; `prefix' is how ToString begins.
ToGrpcStatus(kind) == [code |-> ToGrpcStatusCode(kind), prefix |-> kind]

\* The status that gRPC itself makes when the server is not there.
ConnectionLost == [code |-> "UNAVAILABLE", prefix |-> "grpc"]

KindOfCode(code) ==
    CASE code = "INVALID_ARGUMENT"    -> "InvalidArgument"
      [] code = "NOT_FOUND"           -> "NotFound"
      [] code = "ALREADY_EXISTS"      -> "AlreadyExists"
      [] code = "FAILED_PRECONDITION" -> "InvalidArgument"
      [] code = "UNAVAILABLE"         -> "Unavailable"
      [] code = "DEADLINE_EXCEEDED"   -> "Timeout"
      [] OTHER                        -> "Internal"

\* Mutant: the text of the status is not looked at.
FromGrpcStatusByCode(status) == KindOfCode(status.code)

FromGrpcStatus(status) ==
    IF status.prefix \in {"NotDirectory", "IsDirectory", "DirectoryNotEmpty"}
    THEN status.prefix ELSE KindOfCode(status.code)

ToErrno(kind) ==
    CASE kind = "InvalidArgument"   -> "EINVAL"
      [] kind = "NotFound"          -> "ENOENT"
      [] kind = "AlreadyExists"     -> "EEXIST"
      [] kind = "NotDirectory"      -> "ENOTDIR"
      [] kind = "IsDirectory"       -> "EISDIR"
      [] kind = "DirectoryNotEmpty" -> "ENOTEMPTY"
      [] kind = "Timeout"           -> "ETIMEDOUT"
      [] kind \in {"Unavailable", "NotLeader"} -> "EAGAIN"
      [] kind \in {"Internal", "RaftFailure"}  -> "EIO"

\* What the kernel gets for a handler that ends with an error of this kind.
ErrnoFor(kind) == ToErrno(FromGrpcStatus(ToGrpcStatus(kind)))
=============================================================================
