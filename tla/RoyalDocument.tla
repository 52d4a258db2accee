---------------------------- MODULE RoyalDocument ----------------------------
(***************************************************************************)
(* How the vault daemon, src/ps/vault-daemon.ps1, keeps its copy of the    *)
(* Royal document in step with the file, which Royal TS locks, saves and   *)
(* releases at any moment.  Before each resolve the daemon compares the    *)
(* file's mtime with the one it noted at its last opening, and opens it    *)
(* again when they differ.                                                 *)
(*                                                                         *)
(* Versions of the document are numbered from 1.  Every version has the    *)
(* host that is asked for, with another password.  The daemon's document   *)
(* is null only before its first opening, which the client's requests wait *)
(* for (src/src/vault.rs:176-187): the branch for null is never taken.     *)
(***************************************************************************)
EXTENDS Naturals

CONSTANT MaxMtime   \* bound: the last mtime

ASSUME TimeAssumption == MaxMtime \in Nat \ {0}

VARIABLES
    disk,      \* the version in the file
    diskTime,  \* LastWriteTimeUtc of the file
    locked,    \* another program has the file locked
    store,     \* the version in $script:store, 0 when it is empty
    mtime,     \* $script:mtime, 0 when null
    pc,        \* where the daemon is
    request,   \* what it is doing
    attempts,  \* $attempts
    stale,     \* what Ensure-Fresh returned
    answer,    \* what the last request was answered
    asked,     \* history: the version in the file when the request was read
    raced,     \* history: mtime was noted of a later version than the store's
    lostBy     \* history: the request whose failed opening emptied the store

file == <<disk, diskTime, locked>>
history == <<asked, raced, lostBy>>
docVars == <<file, store, mtime, pc, request, attempts, stale, answer, history>>

Attempts == 3

DocRequests == {"start", "resolve", "reload"}
NoAnswer == [kind |-> "none", version |-> 0, stale |-> FALSE]

DocTypeOK ==
    /\ disk \in Nat \ {0}
    /\ diskTime \in Nat \ {0}
    /\ locked \in BOOLEAN
    /\ store \in Nat
    /\ mtime \in Nat
    /\ pc \in {"down", "loop", "compare", "open", "note", "look"}
    /\ request \in DocRequests
    /\ attempts \in 0..(Attempts - 1)
    /\ stale \in BOOLEAN
    /\ answer \in [kind : {"none", "found", "notfound", "reloaded", "error"},
                   version : Nat, stale : BOOLEAN]
    /\ asked \in Nat
    /\ raced \in BOOLEAN
    /\ lostBy \in DocRequests

DocInit ==
    /\ disk = 1
    /\ diskTime = 1
    /\ locked = FALSE
    /\ store = 0
    /\ mtime = 0
    /\ pc = "down"
    /\ request = "start"
    /\ attempts = 0
    /\ stale = FALSE
    /\ answer = NoAnswer
    /\ asked = 0
    /\ raced = FALSE
    /\ lostBy = "start"

------------------------------------------------------------------------------
(* The client *)

\* A new process opens the document before it says that it is ready.
Start ==
    /\ pc = "down"
    /\ pc' = "open"
    /\ request' = "start"
    /\ store' = 0
    /\ mtime' = 0
    /\ attempts' = 0
    /\ answer' = NoAnswer
    /\ asked' = disk
    /\ raced' = FALSE
    /\ lostBy' = "start"
    /\ UNCHANGED <<file, stale>>

\* The client discards the daemon, or it dies.
Kill ==
    /\ pc # "down"
    /\ pc' = "down"
    /\ UNCHANGED <<file, store, mtime, request, attempts, stale, answer, history>>

\* A line is read from the standard input.
Read(r) ==
    /\ pc = "loop"
    /\ request' = r
    /\ pc' = IF r = "resolve" THEN "compare" ELSE "open"
    /\ attempts' = 0
    /\ answer' = NoAnswer
    /\ asked' = disk
    /\ UNCHANGED <<file, store, mtime, stale, raced, lostBy>>

------------------------------------------------------------------------------
(* The daemon *)

Reply(kind, version, old) ==
    /\ answer' = [kind |-> kind, version |-> version, stale |-> old]
    /\ pc' = "loop"

\* Mutant of Compare: the file is taken for the one that was opened.
CompareNothing ==
    /\ pc = "compare"
    /\ pc' = "look"
    /\ stale' = FALSE
    /\ UNCHANGED <<file, store, mtime, request, attempts, answer, history>>

\* Ensure-Fresh reads the mtime of the file.
Compare ==
    /\ pc = "compare"
    /\ IF diskTime = mtime
       THEN pc' = "look" /\ stale' = FALSE
       ELSE pc' = "open" /\ UNCHANGED stale
    /\ UNCHANGED <<file, store, mtime, request, attempts, answer, history>>

\* The file is not there, or its directory cannot be reached.
CompareFails ==
    /\ pc = "compare"
    /\ Reply("error", 0, FALSE)
    /\ UNCHANGED <<file, store, mtime, request, attempts, stale, history>>

\* Open-Doc, until Open-RoyalDocument returns.
OpenOk ==
    /\ pc = "open"
    /\ ~locked
    /\ store' = disk
    /\ pc' = "note"
    /\ UNCHANGED <<file, mtime, request, attempts, stale, answer, history>>

\* Mutant of AttemptFails: the attempts are not counted.
AttemptForgotten ==
    /\ UNCHANGED attempts
    /\ \/ request = "start" /\ pc' = "down" /\ UNCHANGED <<stale, answer>>
       \/ request # "start" /\ pc' = "open" /\ UNCHANGED <<stale, answer>>

\* An attempt has failed: there is only one at the start, and three otherwise,
\* after which a resolve goes on with what the store has and reload gives up.
AttemptFails ==
    LET last == attempts + 1 = Attempts
    IN  /\ attempts' = IF last THEN 0 ELSE attempts + 1
        /\ \/ request = "start" /\ pc' = "down" /\ UNCHANGED <<stale, answer>>
           \/ /\ request # "start" /\ ~last
              /\ pc' = "open"
              /\ UNCHANGED <<stale, answer>>
           \/ /\ request = "resolve" /\ last
              /\ pc' = "look"
              /\ stale' = TRUE
              /\ UNCHANGED answer
           \/ /\ request = "reload" /\ last
              /\ Reply("error", 0, FALSE)
              /\ UNCHANGED stale

\* Mutant of OpenFails: the mtime is noted before the document is opened.
OpenFailsNoted ==
    /\ pc = "open"
    /\ store' = 0
    /\ mtime' = diskTime
    /\ lostBy' = request
    /\ AttemptFails
    /\ UNCHANGED <<file, request, asked, raced>>

\* The new store has taken the place of the old one already.
OpenFails ==
    /\ pc = "open"
    /\ store' = 0
    /\ lostBy' = request
    /\ AttemptFails
    /\ UNCHANGED <<file, mtime, request, asked, raced>>

\* The rest of Open-Doc: the mtime is read after the document.
Note ==
    /\ pc = "note"
    /\ mtime' = diskTime
    /\ raced' = (store # disk)
    /\ attempts' = 0
    /\ \/ request = "start" /\ pc' = "loop" /\ UNCHANGED <<stale, answer>>
       \/ /\ request = "resolve"
          /\ pc' = "look"
          /\ stale' = FALSE
          /\ UNCHANGED answer
       \/ request = "reload" /\ Reply("reloaded", store, FALSE) /\ UNCHANGED stale
    /\ UNCHANGED <<file, store, request, asked, lostBy>>

NoteFails ==
    /\ pc = "note"
    /\ AttemptFails
    /\ UNCHANGED <<file, store, mtime, request, history>>

\* Resolve-Host looks the host up in the store.
Look ==
    /\ pc = "look"
    /\ IF store = 0
       THEN Reply("notfound", 0, FALSE)
       ELSE Reply("found", store, stale)
    /\ UNCHANGED <<file, store, mtime, request, attempts, stale, history>>

------------------------------------------------------------------------------
(* Royal TS, backups, synchronizers: whoever locks the file or writes it *)

Lock ==
    /\ ~locked
    /\ locked' = TRUE
    /\ diskTime' \in {diskTime, diskTime + 1}
    /\ diskTime' <= MaxMtime
    /\ UNCHANGED <<disk, store, mtime, pc, request, attempts, stale, answer,
                   history>>

Unlock ==
    /\ locked
    /\ locked' = FALSE
    /\ \/ UNCHANGED <<disk, diskTime>>
       \/ /\ diskTime < MaxMtime
          /\ diskTime' = diskTime + 1
          /\ disk' = disk + 1
    /\ UNCHANGED <<store, mtime, pc, request, attempts, stale, answer, history>>

------------------------------------------------------------------------------
Daemon ==
    \/ Compare \/ CompareFails
    \/ OpenOk \/ OpenFails
    \/ Note \/ NoteFails
    \/ Look

DocNext ==
    \/ Start \/ Kill
    \/ \E r \in {"resolve", "reload"} : Read(r)
    \/ Daemon
    \/ Lock \/ Unlock

DocSpec == DocInit /\ [][DocNext]_docVars

\* The daemon goes on running; nothing is asked of the client or of Royal TS.
FairDocSpec == DocSpec /\ WF_docVars(Daemon)

------------------------------------------------------------------------------
(* Properties *)

\* A password that was rotated is seen by the next resolve (ADR-0002), or the
\* answer says that it is stale: an answer without that mark has the version
\* that was in the file when the request was read, or a later one.  The code
\* keeps this but for a save between the opening and the reading of the mtime,
\* which hides that version until the next one.  A reload keeps it always.
FreshUnlessRaced ==
    pc = "loop" =>
        /\ (answer.kind = "found" /\ ~answer.stale /\ ~raced)
              => answer.version >= asked
        /\ answer.kind = "reloaded" => answer.version >= asked

\* A resolve that loses the document, because it could not be opened again,
\* leaves an mtime that makes the next resolve try again.  Not so a reload.
ResolveTriesAgain ==
    (store = 0 /\ lostBy = "resolve") => mtime # diskTime

\* However the file is locked, the daemon returns to its loop, or is killed.
RequestsEnd == pc \notin {"loop", "down"} ~> pc \in {"loop", "down"}

\* "Se o Royal TS estiver salvando (lock), atende com o documento anterior +
\* stale=true" (vault-daemon.ps1:14-15): once the document has been open, its
\* hosts are found.
PreviousDocumentServed == answer.kind # "notfound"
==============================================================================
