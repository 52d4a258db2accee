------------------------------- MODULE Upload -------------------------------
(***************************************************************************)
(* One upload in chunks: upload_start, upload_chunk, upload_finish and     *)
(* upload_abort of src/src/server.rs, over the SFTP operations of          *)
(* src/src/ssh.rs.  Uploads have an id and a temporary each, so they do    *)
(* not interact.  The client may send every call it has at any moment: the *)
(* handlers run concurrently and meet in the map of uploads and in the two *)
(* remote names, the temporary and the destination.                        *)
(*                                                                         *)
(* A remote file is an inode: an SFTP handle keeps the file it opened      *)
(* when the name moves or goes.  Contents are sequences of pieces, one for *)
(* each chunk, so that the sha256 of two contents agrees only if they do.  *)
(***************************************************************************)
EXTENDS Naturals, Sequences, FiniteSets

CONSTANTS
    Chunks,          \* the upload_chunk calls of the client, by their data
    Closers,         \* its upload_finish and upload_abort calls
    Expected,        \* contents whose sha256 a finish may be given
    Files,           \* identities for remote files
    None             \* absence of a file, or of the upload in the map

Modes == {"create", "overwrite", "append"}

\* What a file may hold: chunks, what the host had, part of a failed write.
Pieces == Chunks \cup {"old", "torn"}
Contents == Seq(Pieces)

\* There are files for the two names and a handle of each chunk.
ASSUME UploadAssumption ==
    /\ IsFiniteSet(Chunks)
    /\ IsFiniteSet(Files)
    /\ Cardinality(Files) >= Cardinality(Chunks) + 2
    /\ Expected \subseteq Contents
    /\ None \notin Files \cup Nat
    /\ Chunks \cap Closers = {}
    /\ "old" \notin Chunks

VARIABLES
    replaces,  \* whether the SFTP server renames over an existing file
    mode,      \* UploadState.mode
    bytes,     \* UploadState.bytes in chunks, None when the map has no entry
    started,   \* whether upload_start has run
    temp,      \* the file that the temporary's name points to
    dest,      \* the file that the destination's name points to
    data,      \* the content of each file
    pc,        \* where each call is, and how it ended
    total,     \* the total each chunk read from the map
    fd,        \* the file each chunk has open
    expected,  \* the content each finish is told to expect
    read,      \* what each finish read in the temporary
    touched,   \* history: calls that changed the destination
    calm       \* history: no chunk was on its way when the upload was closed

setting == <<replaces, mode>>
remote == <<temp, dest, data>>
chunkVars == <<total, fd>>
finishVars == <<expected, read>>
history == <<touched, calm>>
vars == <<setting, bytes, started, remote, pc, chunkVars, finishVars, history>>

ChunkSteps == {"idle", "open", "write", "count",
               "unknown", "limited", "error", "appended"}
CloserSteps == {"idle", "read", "exists", "rename", "put", "unlink", "drop",
                "remove", "unknown", "error", "mismatch", "refused", "failed",
                "created", "overwritten", "extended", "aborted"}

TypeOK ==
    /\ replaces \in BOOLEAN
    /\ mode \in Modes
    /\ bytes \in Nat \cup {None}
    /\ started \in BOOLEAN
    /\ temp \in Files \cup {None}
    /\ dest \in Files \cup {None}
    /\ data \in [Files -> Contents]
    /\ pc \in [Chunks \cup Closers -> ChunkSteps \cup CloserSteps]
    /\ total \in [Chunks -> Nat]
    /\ fd \in [Chunks -> Files \cup {None}]
    /\ expected \in [Closers -> Contents]
    /\ read \in [Closers -> Contents]
    /\ touched \subseteq Chunks \cup Closers
    /\ calm \in BOOLEAN
    /\ \A c \in Chunks : pc[c] = "write" <=> fd[c] # None

\* The host may have the destination already.
Init ==
    /\ replaces \in BOOLEAN
    /\ mode \in Modes
    /\ bytes = None
    /\ started = FALSE
    /\ temp = None
    /\ dest \in {None, CHOOSE f \in Files : TRUE}
    /\ data = [f \in Files |-> IF f = dest THEN <<"old">> ELSE <<>>]
    /\ pc = [c \in Chunks \cup Closers |-> "idle"]
    /\ total = [c \in Chunks |-> 0]
    /\ fd = [c \in Chunks |-> None]
    /\ expected = [t \in Closers |-> <<>>]
    /\ read = [t \in Closers |-> <<>>]
    /\ touched = {}
    /\ calm = TRUE

------------------------------------------------------------------------------
(* Remote files *)

\* A file that neither a name nor a handle refers to.
NewFile == CHOOSE f \in Files : f \notin {temp, dest} \cup {fd[c] : c \in Chunks}

Goto(c, step) == pc' = [pc EXCEPT ![c] = step]

\* What a write of s leaves at the end of a file, whole or interrupted.
Landed(s) == {s, <<"torn">>, <<>>}

------------------------------------------------------------------------------
(* upload_start: nobody knows the id before it returns *)

StartOk ==
    /\ ~started
    /\ started' = TRUE
    /\ temp' = NewFile
    /\ data' = [data EXCEPT ![NewFile] = <<>>]
    /\ bytes' = 0
    /\ UNCHANGED <<setting, dest, pc, chunkVars, finishVars, history>>

\* Denied, or the temporary failed: it may be there all the same.
StartFails ==
    /\ ~started
    /\ started' = TRUE
    /\ \/ UNCHANGED remote
       \/ /\ temp' = NewFile
          /\ data' = [data EXCEPT ![NewFile] = <<>>]
          /\ UNCHANGED dest
    /\ UNCHANGED <<setting, bytes, pc, chunkVars, finishVars, history>>

------------------------------------------------------------------------------
(* upload_chunk *)

\* The total is read under the lock of the map, and stored after the append.
ChunkBegin(c) ==
    /\ pc[c] = "idle"
    /\ bytes # None
    /\ total' = [total EXCEPT ![c] = bytes]
    /\ \E step \in {"open", "limited"} : Goto(c, step)
    /\ UNCHANGED <<setting, bytes, started, remote, fd, finishVars, history>>

\* The client has the id from upload_start.
ChunkUnknown(c) ==
    /\ pc[c] = "idle"
    /\ started
    /\ bytes = None
    /\ Goto(c, "unknown")
    /\ UNCHANGED <<setting, bytes, started, remote, chunkVars, finishVars, history>>

\* Opening the temporary with CREATE and APPEND, which creates a missing one.
OpenTemp(c) ==
    /\ UNCHANGED dest
    /\ IF temp = None
       THEN /\ temp' = NewFile
            /\ data' = [data EXCEPT ![NewFile] = <<>>]
       ELSE UNCHANGED <<temp, data>>

ChunkOpen(c) ==
    /\ pc[c] = "open"
    /\ OpenTemp(c)
    /\ fd' = [fd EXCEPT ![c] = temp']
    /\ Goto(c, "write")
    /\ UNCHANGED <<setting, bytes, started, total, finishVars, history>>

\* No credential, no connection, or a timeout that may hide a completed open.
ChunkOpenFails(c) ==
    /\ pc[c] = "open"
    /\ OpenTemp(c) \/ UNCHANGED remote
    /\ Goto(c, "error")
    /\ UNCHANGED <<setting, bytes, started, chunkVars, finishVars, history>>

\* Mutant of WriteOpen: the file is not closed.
WriteUnclosed(c, s) ==
    /\ data' = [data EXCEPT ![fd[c]] = @ \o s]
    /\ touched' = IF fd[c] = dest /\ s # <<>> THEN touched \cup {c} ELSE touched
    /\ UNCHANGED <<fd, temp, dest>>

\* c appends s to the file it has open, whatever its name is by now.
WriteOpen(c, s) ==
    /\ data' = [data EXCEPT ![fd[c]] = @ \o s]
    /\ touched' = IF fd[c] = dest /\ s # <<>> THEN touched \cup {c} ELSE touched
    /\ fd' = [fd EXCEPT ![c] = None]
    /\ UNCHANGED <<temp, dest>>

ChunkWrite(c) ==
    /\ pc[c] = "write"
    /\ WriteOpen(c, <<c>>)
    /\ Goto(c, "count")
    /\ UNCHANGED <<setting, bytes, started, total, finishVars, calm>>

\* Mutant of ChunkWriteFails: the error is ignored.
ChunkWriteIgnored(c) ==
    /\ pc[c] = "write"
    /\ \E s \in Landed(<<c>>) : WriteOpen(c, s)
    /\ Goto(c, "count")
    /\ UNCHANGED <<setting, bytes, started, total, finishVars, calm>>

\* The write or the close fails, after some, all or none of the data.
ChunkWriteFails(c) ==
    /\ pc[c] = "write"
    /\ \E s \in Landed(<<c>>) : WriteOpen(c, s)
    /\ Goto(c, "error")
    /\ UNCHANGED <<setting, bytes, started, total, finishVars, calm>>

ChunkCount(c) ==
    /\ pc[c] = "count"
    /\ bytes' = IF bytes = None THEN None ELSE total[c] + 1
    /\ Goto(c, "appended")
    /\ UNCHANGED <<setting, started, remote, chunkVars, finishVars, history>>

------------------------------------------------------------------------------
(* upload_finish and upload_abort: the first to lock the map has the upload *)

\* Chunks that may still write.
OnTheirWay == {c \in Chunks : pc[c] \in {"open", "write"}}

\* Mutant of Take: the entry is read and left in the map.
TakeCopy(t, step) ==
    /\ pc[t] = "idle"
    /\ bytes # None
    /\ calm' = (OnTheirWay = {})
    /\ Goto(t, step)
    /\ UNCHANGED bytes

Take(t, step) ==
    /\ pc[t] = "idle"
    /\ bytes # None
    /\ bytes' = None
    /\ calm' = (OnTheirWay = {})
    /\ Goto(t, step)

FinishTakes(t) ==
    /\ Take(t, "read")
    /\ \E e \in Expected : expected' = [expected EXCEPT ![t] = e]
    /\ UNCHANGED <<setting, started, remote, chunkVars, read, touched>>

\* Mutant of AbortTakes: the entry is left to be discarded at the end.
AbortLooks(t) ==
    /\ pc[t] = "idle"
    /\ bytes # None
    /\ Goto(t, "remove")
    /\ UNCHANGED <<setting, bytes, started, remote, chunkVars, finishVars, history>>

AbortTakes(t) ==
    /\ Take(t, "remove")
    /\ UNCHANGED <<setting, started, remote, chunkVars, finishVars, touched>>

CloserUnknown(t) ==
    /\ pc[t] = "idle"
    /\ started
    /\ bytes = None
    /\ Goto(t, "unknown")
    /\ UNCHANGED <<setting, bytes, started, remote, chunkVars, finishVars, history>>

\* No credential: the entry is gone, the temporary stays.
CloserGivesUp(t) ==
    /\ pc[t] \in {"read", "remove"}
    /\ Goto(t, "error")
    /\ UNCHANGED <<setting, bytes, started, remote, chunkVars, finishVars, history>>

Verified(t) == read[t] = expected[t]

\* Mutant of AfterVerification: only mode create looks at the comparison.
AfterVerificationOfCreate(t, verified) ==
    Goto(t, IF mode = "create" THEN IF verified THEN "exists" ELSE "drop"
            ELSE IF mode = "overwrite" THEN "rename"
            ELSE "put")

\* Mutant of AfterVerification: mode create is taken for append.
AfterVerificationDefault(t, verified) ==
    Goto(t, IF ~verified THEN "drop"
            ELSE IF mode = "overwrite" THEN "rename"
            ELSE "put")

\* What follows the comparison of the hashes.
AfterVerification(t, verified) ==
    Goto(t, IF ~verified THEN "drop"
            ELSE IF mode = "create" THEN "exists"
            ELSE IF mode = "overwrite" THEN "rename"
            ELSE "put")

\* The whole temporary is read and its sha256 compared.
FinishReads(t) ==
    /\ pc[t] = "read"
    /\ temp # None
    /\ read' = [read EXCEPT ![t] = data[temp]]
    /\ AfterVerification(t, data[temp] = expected[t])
    /\ UNCHANGED <<setting, bytes, started, remote, chunkVars, expected, history>>

\* remote_remove of the temporary, which the server may or may not carry out.
RemoveTemp(t, step) ==
    /\ temp' \in {temp, None}
    /\ Goto(t, step)
    /\ UNCHANGED <<setting, bytes, started, dest, data, chunkVars, finishVars,
                   history>>

FinishDrops(t) == pc[t] = "drop" /\ RemoveTemp(t, "mismatch")

AbortRemoves(t) == pc[t] = "remove" /\ RemoveTemp(t, "aborted")

\* remote_exists: any error of the server, not only "no such file", is a no; a
\* yes, a timeout or a connection that fails end the finish.
FinishChecks(t) ==
    /\ pc[t] = "exists"
    /\ \E step \in {"failed", "rename"} : Goto(t, step)
    /\ UNCHANGED <<setting, bytes, started, remote, chunkVars, finishVars, history>>

Renamable == temp # None /\ (dest = None \/ replaces)

Rename(t) ==
    /\ Renamable
    /\ dest' = temp
    /\ temp' = None
    /\ UNCHANGED data
    /\ touched' = touched \cup {t}

\* Performed, and answered in time or not.
FinishRenames(t) ==
    /\ pc[t] = "rename"
    /\ Rename(t)
    /\ \/ Goto(t, IF mode = "create" THEN "created" ELSE "overwritten")
       \/ Goto(t, "failed")
    /\ UNCHANGED <<setting, bytes, started, chunkVars, finishVars, calm>>

\* Mutant of FinishKeepsTemp: the temporary is cleaned up after a failure.
FinishCleansUp(t) ==
    /\ pc[t] = "rename"
    /\ \/ temp # None /\ ~Renamable /\ Goto(t, "refused")
       \/ Goto(t, "failed")
    /\ temp' = None
    /\ UNCHANGED <<setting, bytes, started, dest, data, chunkVars,
                   finishVars, history>>

\* Refused because of the destination, or not performed for another reason.
FinishKeepsTemp(t) ==
    /\ pc[t] = "rename"
    /\ \/ temp # None /\ ~Renamable /\ Goto(t, "refused")
       \/ Goto(t, "failed")
    /\ UNCHANGED <<setting, bytes, started, remote, chunkVars, finishVars, history>>

\* file_put_mode(Append) of the bytes verified, creating a missing destination.
PutAtDest(t, s) ==
    LET file == IF dest = None THEN NewFile ELSE dest
    IN  /\ dest' = file
        /\ data' = [data EXCEPT
                      ![file] = (IF dest = None THEN <<>> ELSE @) \o s]
        /\ touched' = touched \cup {t}
        /\ UNCHANGED temp

FinishPuts(t) ==
    /\ pc[t] = "put"
    /\ PutAtDest(t, read[t])
    /\ Goto(t, "unlink")
    /\ UNCHANGED <<setting, bytes, started, chunkVars, finishVars, calm>>

FinishPutFails(t) ==
    /\ pc[t] = "put"
    /\ \/ \E s \in Landed(read[t]) : PutAtDest(t, s)
       \/ UNCHANGED <<remote, touched>>
    /\ Goto(t, "failed")
    /\ UNCHANGED <<setting, bytes, started, chunkVars, finishVars, calm>>

FinishUnlinks(t) ==
    /\ pc[t] = "unlink"
    /\ \/ temp' = None /\ Goto(t, "extended")
       \/ temp' \in {temp, None} /\ Goto(t, "failed")
    /\ UNCHANGED <<setting, bytes, started, dest, data, chunkVars, finishVars,
                   history>>

------------------------------------------------------------------------------
(* Another program of the host creates the destination. *)
OtherCreates ==
    /\ dest = None
    /\ dest' = NewFile
    /\ data' = [data EXCEPT ![NewFile] = <<"old">>]
    /\ UNCHANGED <<setting, bytes, started, temp, pc, chunkVars, finishVars,
                   history>>

------------------------------------------------------------------------------
Chunk(c) ==
    \/ ChunkOpen(c) \/ ChunkOpenFails(c)
    \/ ChunkWrite(c) \/ ChunkWriteFails(c)
    \/ ChunkCount(c)

Closer(t) ==
    \/ CloserGivesUp(t)
    \/ FinishReads(t) \/ FinishDrops(t)
    \/ FinishChecks(t) \/ FinishRenames(t) \/ FinishKeepsTemp(t)
    \/ FinishPuts(t) \/ FinishPutFails(t) \/ FinishUnlinks(t)
    \/ AbortRemoves(t)

Next ==
    \/ StartOk \/ StartFails
    \/ \E c \in Chunks : ChunkBegin(c) \/ ChunkUnknown(c) \/ Chunk(c)
    \/ \E t \in Closers :
          FinishTakes(t) \/ AbortTakes(t) \/ CloserUnknown(t) \/ Closer(t)
    \/ OtherCreates

Spec == Init /\ [][Next]_vars

------------------------------------------------------------------------------
(* Properties *)

Owners == {t \in Closers : pc[t] \notin {"idle", "unknown"}}

\* The entry leaves the map under its lock: of all the finishes and aborts that
\* race, one acts on the temporary (server.rs:1517-1520, 1716-1719).
OneOwner == \A t, u \in Owners : t = u

\* "O destino final só é tocado no upload_finish, após verificação de sha256"
\* (server.rs:47-48): a finish that changes the destination has read, in the
\* temporary, the very content it was told to expect.
OnlyVerifiedTouches == \A t \in touched \cap Closers : Verified(t)

\* "O destino nunca é tocado" (server.rs:1706) by an upload that was aborted,
\* whatever chunks and finishes were on their way.
AbortLeavesDest ==
    (\E t \in Closers : pc[t] \in {"remove", "aborted"}) => touched = {}

\* bytes_total never promises more than the temporary holds.
TotalWithinTemp == bytes # None => temp # None /\ bytes <= Len(data[temp])

\* A finish that starts when no chunk is on its way delivers what it was told
\* to expect: the whole destination, or all of it but what the
\* host had, in mode append.
QuietDelivery ==
    \A t \in Closers :
        calm =>
            /\ pc[t] \in {"created", "overwritten"} => data[dest] = expected[t]
            /\ pc[t] = "extended" =>
                  data[dest] \in {expected[t], <<"old">> \o expected[t]}

\* "O destino final só é tocado no finish" (tools-reference.md:148), but for a
\* chunk that was on its way when the upload was closed: no chunk that begins
\* later finds the upload, and none before knows the destination.
OnlyStragglersTouch == touched \cap Chunks # {} => ~calm

\* s stands in content behind its first k pieces.
StandsBehind(s, k, content) ==
    /\ k + Len(s) <= Len(content)
    /\ \A i \in 1..Len(s) : content[k + i] = s[i]

\* The content that t has verified is still where the temporary's name points to.
InTemporary(t) == temp # None /\ StandsBehind(read[t], 0, data[temp])

\* Or whole in the destination, with what the host had before it.
AtDestination(t) ==
    /\ dest # None
    /\ \E k \in 0..Len(data[dest]) : StandsBehind(read[t], k, data[dest])

\* "falha na finalização (temporário preservado em ..)" (server.rs:1695-1698): a
\* finish that was refused has preserved it.  After one that failed in another
\* way, perhaps having worked, the note may be false; what was verified is then
\* whole at the destination, whatever chunks wrote behind it.
FailureLosesNothing ==
    \A t \in Closers :
        /\ pc[t] = "refused" => InTemporary(t)
        /\ pc[t] = "failed" => InTemporary(t) \/ AtDestination(t)

\* "create falha se o destino existir" (tools-reference.md:156): on a server
\* that does not rename over a file, no call in mode create replaces or changes
\* the file the destination names, whenever it appeared.
CreateKeepsDest ==
    [][(mode = "create" /\ dest # None /\ ~replaces)
         => dest' = dest /\ (data[dest] = <<"old">> => data'[dest] = data[dest])]_vars
=============================================================================
