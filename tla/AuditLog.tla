------------------------------ MODULE AuditLog ------------------------------
(***************************************************************************)
(* The audit log of src/src/audit.rs: a file of JSON lines chained by      *)
(* hashes, appended to by the servers that are running and reopened when   *)
(* one starts.                                                             *)
(*                                                                         *)
(* A line is written with several write(2) calls (writeln! of a Value on   *)
(* an unbuffered file), so an append that fails, or a server that dies in  *)
(* one, may leave a line without its end.  The next append continues that  *)
(* line.  When a server starts it finds the last hash by reading the last  *)
(* TAIL_READ bytes of the file as UTF-8 text.                              *)
(*                                                                         *)
(* Hashes are record numbers: each record hashes its own timestamp and     *)
(* contents with the previous hash.                                        *)
(***************************************************************************)
EXTENDS Naturals, Sequences

CONSTANTS
    Servers,     \* server processes that log to this file
    TailLines,   \* how many short lines TAIL_READ bytes hold
    MaxRecords   \* bound: records tried in a behaviour

ASSUME AuditAssumption == TailLines \in Nat \ {0} /\ MaxRecords \in Nat

GENESIS == 0

VARIABLES
    file,          \* the lines of the file, the last one maybe unterminated
    unterminated,  \* the last line has no newline yet
    records,       \* number of records tried so far, in any server
    up,            \* the servers that are running
    lastHash,      \* ChainState.last_hash of each server
    freshChain,    \* the servers with ChainState.fresh_chain
    appendFailed   \* the servers with ChainState.append_failed

chain == <<lastHash, freshChain, appendFailed>>
vars == <<file, unterminated, records, up, chain>>

\* A line that parses as an entry, or one that does not.  A long line does not
\* fit in TAIL_READ bytes; a wide one holds characters of several bytes.
Entries == [parses: {TRUE}, hash: Nat \ {GENESIS}, prev: Nat, restart: BOOLEAN,
            failed: BOOLEAN, long: BOOLEAN, wide: BOOLEAN]
Garbage == [parses: {FALSE}, long: BOOLEAN, wide: BOOLEAN]
Lines == Entries \cup Garbage

TypeOK ==
    /\ file \in Seq(Lines)
    /\ unterminated \in BOOLEAN
    /\ records \in Nat
    /\ up \subseteq Servers
    /\ lastHash \in [Servers -> Nat]
    /\ freshChain \subseteq Servers
    /\ appendFailed \subseteq Servers

Init ==
    /\ file = <<>>
    /\ unterminated = FALSE
    /\ records = 0
    /\ up = {}
    /\ lastHash = [s \in Servers |-> GENESIS]
    /\ freshChain = {}
    /\ appendFailed = {}

------------------------------------------------------------------------------
(* Opening: read_last_hash *)

\* The line that holds the first byte of the tail that is read: the last one
\* that is long, or that has TailLines lines after it.
CutLines == {i \in 1..Len(file) : file[i].long \/ Len(file) - i >= TailLines}
IsCut(i) == i \in CutLines /\ \A j \in CutLines : j <= i

\* The tail is no text, and read_to_string refuses all of it: it begins inside
\* a character, or a line in it was torn inside one.
MayMissTail ==
    \E i \in 1..Len(file) :
        /\ file[i].wide
        /\ IsCut(i) \/ (~file[i].parses /\ \A j \in CutLines : j < i)

LastLine == file[Len(file)]

\* The last line is read whole and parses.
TailParses == file # <<>> /\ LastLine.parses /\ ~LastLine.long

\* Mutant of Open: the start of a chain is not remembered.
OpenUnmarked(s) ==
    /\ s \notin up
    /\ up' = up \cup {s}
    /\ appendFailed' = appendFailed \ {s}
    /\ lastHash' = [lastHash EXCEPT ![s] =
                       IF TailParses THEN LastLine.hash ELSE GENESIS]
    /\ freshChain' = freshChain \ {s}
    /\ UNCHANGED <<file, unterminated, records>>

\* AuditLog::open: a new server continues the chain, or starts one.
Open(s) ==
    /\ s \notin up
    /\ up' = up \cup {s}
    /\ appendFailed' = appendFailed \ {s}
    /\ \/ /\ TailParses
          /\ lastHash' = [lastHash EXCEPT ![s] = LastLine.hash]
          /\ freshChain' = freshChain \ {s}
       \/ /\ ~TailParses \/ MayMissTail
          /\ lastHash' = [lastHash EXCEPT ![s] = GENESIS]
          /\ freshChain' = freshChain \cup {s}
    /\ UNCHANGED <<file, unterminated, records>>

------------------------------------------------------------------------------
(* Recording *)

\* The entry server s builds, with the record number as its hash.
Entry(s, long, wide) ==
    [parses |-> TRUE, hash |-> records + 1, prev |-> lastHash[s],
     restart |-> s \in freshChain, failed |-> s \in appendFailed,
     long |-> long, wide |-> wide]

Broken(long, wide) == [parses |-> FALSE, long |-> long, wide |-> wide]

\* Bytes are appended: to a line of their own, or to the unterminated one,
\* which then holds two texts and parses as none.
AppendBytes(line) ==
    file' = IF unterminated
            THEN [file EXCEPT ![Len(file)] =
                     Broken(@.long \/ line.long, @.wide \/ line.wide)]
            ELSE Append(file, line)

\* Mutant of RecordOk: the chain does not advance.
RecordOkForgotten(s) ==
    /\ s \in up
    /\ records < MaxRecords
    /\ records' = records + 1
    /\ \E long, wide \in BOOLEAN : AppendBytes(Entry(s, long, wide))
    /\ unterminated' = FALSE
    /\ freshChain' = freshChain \ {s}
    /\ appendFailed' = appendFailed \ {s}
    /\ UNCHANGED <<up, lastHash>>

\* append_line returns Ok: the chain advances.
RecordOk(s) ==
    /\ s \in up
    /\ records < MaxRecords
    /\ records' = records + 1
    /\ \E long, wide \in BOOLEAN : AppendBytes(Entry(s, long, wide))
    /\ unterminated' = FALSE
    /\ lastHash' = [lastHash EXCEPT ![s] = records + 1]
    /\ freshChain' = freshChain \ {s}
    /\ appendFailed' = appendFailed \ {s}
    /\ UNCHANGED up

\* What an append that does not end well leaves in the file: nothing, a part of
\* the line, or all of it but the newline.
PartialAppend(s) ==
    \/ UNCHANGED <<file, unterminated>>
    \/ \E long, wide \in BOOLEAN :
          /\ \/ AppendBytes(Broken(long, wide))
             \/ AppendBytes(Entry(s, long, wide))
          /\ unterminated' = TRUE

\* Mutant of RecordFails: the chain advances all the same.
RecordFailsAdvancing(s) ==
    /\ s \in up
    /\ records < MaxRecords
    /\ records' = records + 1
    /\ PartialAppend(s)
    /\ lastHash' = [lastHash EXCEPT ![s] = records + 1]
    /\ freshChain' = freshChain \ {s}
    /\ appendFailed' = appendFailed \cup {s}
    /\ UNCHANGED up

\* append_line returns an error: the chain does not advance.
RecordFails(s) ==
    /\ s \in up
    /\ records < MaxRecords
    /\ records' = records + 1
    /\ PartialAppend(s)
    /\ appendFailed' = appendFailed \cup {s}
    /\ UNCHANGED <<up, lastHash, freshChain>>

\* The server is killed while it appends.
CrashInAppend(s) ==
    /\ s \in up
    /\ records < MaxRecords
    /\ records' = records + 1
    /\ PartialAppend(s)
    /\ up' = up \ {s}
    /\ UNCHANGED chain

\* The client closes the session, or the server is killed between two records.
Exit(s) ==
    /\ s \in up
    /\ up' = up \ {s}
    /\ UNCHANGED <<file, unterminated, records, chain>>

\* The file is deleted or rotated away under the servers.
Erase ==
    /\ file # <<>>
    /\ file' = <<>>
    /\ unterminated' = FALSE
    /\ UNCHANGED <<records, up, chain>>

------------------------------------------------------------------------------
Next ==
    \/ \E s \in Servers :
          \/ Open(s)
          \/ RecordOk(s)
          \/ RecordFails(s)
          \/ CrashInAppend(s)
          \/ Exit(s)
    \/ Erase

Spec == Init /\ [][Next]_vars

------------------------------------------------------------------------------
(* Properties *)

\* "Cada linha carrega o hash da anterior" (audit.rs:1): of two neighbouring
\* lines that parse, the second names the first, or says that the chain starts
\* again.  Failed appends, torn lines, crashes and reopenings never produce a
\* pair that looks like tampering.
ChainLinked ==
    \A i \in 1..(Len(file) - 1) :
        file[i].parses /\ file[i + 1].parses
        => file[i + 1].prev = file[i].hash \/ file[i + 1].restart

\* "Um rastro apagado não parece válido" (audit.rs:9-10): a line hangs from
\* GENESIS exactly when it says that it starts a chain, so a file whose
\* beginning was erased does not begin like a whole one.
ErasedTrailVisible ==
    \A i \in 1..Len(file) :
        file[i].parses => (file[i].prev = GENESIS <=> file[i].restart)

\* What a lone server remembers is what the file ends with, or it is going to
\* say that it starts again: this is why the chain stays linked.
TipKnown ==
    \A s \in up :
        /\ lastHash[s] = GENESIS <=> s \in freshChain
        /\ (file # <<>> /\ ~unterminated /\ LastLine.parses)
           => (lastHash[s] = LastLine.hash \/ s \in freshChain)
=============================================================================
