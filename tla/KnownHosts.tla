----------------------------- MODULE KnownHosts -----------------------------
(***************************************************************************)
(* Trust on first use of src/src/ssh.rs: check_server_key, over the file   *)
(* known_hosts that every server process of the machine appends to.  The   *)
(* mutex KNOWN_HOSTS_LOCK orders the checks of one process; nothing orders *)
(* those of two.  A pin is written by writeln! on a bare file, that is in  *)
(* four writes: label, blank, fingerprint, end of line.                    *)
(*                                                                         *)
(* A line is the sequence of what was written between two ends of line.    *)
(***************************************************************************)
EXTENDS Naturals, Sequences, SequencesExt

CONSTANTS
    Checks,       \* key exchanges, each of which runs check_server_key once
    Processes,    \* server processes that share the file
    Hosts,        \* labels "addr:port"
    Keys,         \* fingerprints of the keys that hosts may present
    ProcessOf,    \* the process of each check
    HostOf,       \* the host of each check
    None,         \* no check
    MaxFaults     \* bound: unreadable files, torn appends and operator's edits

\* What a write may leave: a blank, or a part of a label or fingerprint.
Blank == "blank"
Part == "part"
EndOfLine == "eol"
Tokens == Hosts \cup Keys \cup {Blank, Part}

ASSUME KnownHostsAssumption ==
    /\ ProcessOf \in [Checks -> Processes]
    /\ HostOf \in [Checks -> Hosts]
    /\ None \notin Checks
    /\ Hosts \cap Keys = {}
    /\ (Hosts \cup Keys) \cap {Blank, Part, EndOfLine} = {}
    /\ MaxFaults \in Nat

VARIABLES
    lines,      \* the complete lines of known_hosts
    open,       \* what follows the last end of line
    lock,       \* KNOWN_HOSTS_LOCK of each process: the check that holds it
    pc,         \* where each check is, and how it ended
    key,        \* the key that the host presented to each check
    written,    \* how many of the four writes each check has done
    accepted,   \* history: the keys accepted of each host since it was forgotten
    calm,       \* history: no unreadable file, torn or overlapping append yet
    faults      \* bound: faults so far

file == <<lines, open>>
history == <<accepted, calm, faults>>
vars == <<file, lock, pc, key, written, history>>

TypeOK ==
    /\ lines \in Seq(Seq(Tokens))
    /\ open \in Seq(Tokens)
    /\ lock \in [Processes -> Checks \cup {None}]
    /\ pc \in [Checks -> {"idle", "append", "accepted", "refused"}]
    /\ key \in [Checks -> Keys]
    /\ written \in [Checks -> 0..3]
    /\ accepted \in [Hosts -> SUBSET Keys]
    /\ calm \in BOOLEAN
    /\ faults \in Nat
    /\ \A c \in Checks : pc[c] = "append" <=> lock[ProcessOf[c]] = c

Init ==
    /\ lines = <<>>
    /\ open = <<>>
    /\ lock = [p \in Processes |-> None]
    /\ pc = [c \in Checks |-> "idle"]
    /\ key \in [Checks -> Keys]
    /\ written = [c \in Checks |-> 0]
    /\ accepted = [h \in Hosts |-> {}]
    /\ calm = TRUE
    /\ faults = 0

------------------------------------------------------------------------------
(* known_hosts_lookup *)

\* A trimmed line whose label, up to its first blank, is h.
IsFor(line, h) ==
    \E i \in DOMAIN line :
        /\ \A j \in 1..(i - 1) : line[j] = Blank
        /\ line[i] = h
        /\ i < Len(line) /\ line[i + 1] = Blank
        /\ \E j \in (i + 2)..Len(line) : line[j] # Blank

\* Such a line that says k, and nothing else, behind the blank.
IsPin(line, h, k) ==
    \E i, j \in DOMAIN line :
        /\ i + 1 < j
        /\ line[i] = h /\ line[j] = k
        /\ \A m \in DOMAIN line \ {i, j} : line[m] = Blank

\* What str::lines yields of the file.
Content == IF open = <<>> THEN lines ELSE Append(lines, open)

\* Mutant of PinIn: the last line of a host counts.
PinInLast(text, h, k) ==
    \E i \in DOMAIN text :
        /\ IsPin(text[i], h, k)
        /\ \A j \in (i + 1)..Len(text) : ~IsFor(text[j], h)

\* The first line of a host counts.
PinIn(text, h, k) ==
    \E i \in DOMAIN text :
        /\ IsPin(text[i], h, k)
        /\ \A j \in 1..(i - 1) : ~IsFor(text[j], h)

Known(h) == \E i \in DOMAIN Content : IsFor(Content[i], h)

------------------------------------------------------------------------------
(* check_server_key *)

Free(c) == lock[ProcessOf[c]] = None

\* The host's pin is found and compared: no await, no write.
Compare(c) ==
    /\ pc[c] = "idle" /\ Free(c)
    /\ Known(HostOf[c])
    /\ IF PinIn(Content, HostOf[c], key[c])
       THEN /\ pc' = [pc EXCEPT ![c] = "accepted"]
            /\ accepted' = [accepted EXCEPT ![HostOf[c]] = @ \cup {key[c]}]
       ELSE /\ pc' = [pc EXCEPT ![c] = "refused"]
            /\ UNCHANGED accepted
    /\ UNCHANGED <<file, lock, key, written, calm, faults>>

Appending == {c \in Checks : pc[c] = "append"}

\* Mutant of BeginAppend: the mutex is not held across the append.
BeginUnlocked(c) ==
    /\ pc[c] = "idle" /\ Free(c)
    /\ pc' = [pc EXCEPT ![c] = "append"]
    /\ UNCHANGED lock

\* The mutex stays locked until the append returns.
BeginAppend(c) ==
    /\ pc[c] = "idle" /\ Free(c)
    /\ pc' = [pc EXCEPT ![c] = "append"]
    /\ lock' = [lock EXCEPT ![ProcessOf[c]] = c]

\* Appends that run beside one of another process disturb the calm.
FirstUse(c) ==
    /\ ~Known(HostOf[c])
    /\ BeginAppend(c)
    /\ calm' = (calm /\ \A d \in Appending : ProcessOf[d] = ProcessOf[c])
    /\ UNCHANGED <<file, key, written, accepted, faults>>

\* A file that cannot be read, or is not UTF-8, has no pins.
FirstUseBlind(c) ==
    /\ faults < MaxFaults
    /\ faults' = faults + 1
    /\ BeginAppend(c)
    /\ calm' = FALSE
    /\ UNCHANGED <<file, key, written, accepted>>

------------------------------------------------------------------------------
(* known_hosts_append *)

Pieces(c) == <<HostOf[c], Blank, key[c], EndOfLine>>

\* The file is opened with O_APPEND: a write lands behind everything.
Put(token) ==
    IF token = EndOfLine
    THEN lines' = Append(lines, open) /\ open' = <<>>
    ELSE open' = Append(open, token) /\ UNCHANGED lines

Release(c) == lock' = [lock EXCEPT ![ProcessOf[c]] = None]

Write(c) ==
    /\ pc[c] = "append" /\ written[c] < 3
    /\ Put(Pieces(c)[written[c] + 1])
    /\ written' = [written EXCEPT ![c] = @ + 1]
    /\ UNCHANGED <<lock, pc, key, history>>

WriteLast(c) ==
    /\ pc[c] = "append" /\ written[c] = 3
    /\ Put(EndOfLine)
    /\ pc' = [pc EXCEPT ![c] = "accepted"]
    /\ accepted' = [accepted EXCEPT ![HostOf[c]] = @ \cup {key[c]}]
    /\ Release(c)
    /\ UNCHANGED <<key, written, calm, faults>>

\* No pin, no connection.
AfterFailure(c) ==
    /\ pc' = [pc EXCEPT ![c] = "refused"]
    /\ UNCHANGED accepted

\* The file cannot be opened: nothing is written.
OpenFails(c) ==
    /\ pc[c] = "append" /\ written[c] = 0
    /\ AfterFailure(c)
    /\ Release(c)
    /\ UNCHANGED <<file, key, written, calm, faults>>

\* A write fails, perhaps after a part of its text.
WriteFails(c) ==
    /\ pc[c] = "append"
    /\ faults < MaxFaults
    /\ faults' = faults + 1
    /\ UNCHANGED file \/ (written[c] < 3 /\ Put(Part))
    /\ AfterFailure(c)
    /\ Release(c)
    /\ calm' = (calm /\ file' = file /\ written[c] = 0)
    /\ UNCHANGED <<key, written>>

\* The process dies, perhaps in an append; a new one takes its place.
Crash(p) ==
    /\ faults < MaxFaults
    /\ faults' = faults + 1
    /\ LET dead == {c \in Appending : ProcessOf[c] = p}
       IN  /\ pc' = [c \in Checks |-> IF c \in dead THEN "refused" ELSE pc[c]]
           /\ calm' = (calm /\ \A c \in dead : written[c] = 0)
    /\ lock' = [lock EXCEPT ![p] = None]
    /\ UNCHANGED <<file, key, written, accepted>>

------------------------------------------------------------------------------
\* "Delete a linha do known_hosts para re-pinar" (setup-guide.md:141).
Forget(h) ==
    /\ faults < MaxFaults
    /\ faults' = faults + 1
    /\ \E i \in DOMAIN lines : IsFor(lines[i], h) /\ lines' = RemoveAt(lines, i)
    /\ accepted' = [accepted EXCEPT ![h] = {}]
    /\ UNCHANGED <<open, lock, pc, key, written, calm>>

Next ==
    \/ \E c \in Checks :
          \/ Compare(c) \/ FirstUse(c) \/ FirstUseBlind(c)
          \/ Write(c) \/ WriteLast(c) \/ OpenFails(c) \/ WriteFails(c)
    \/ \E p \in Processes : Crash(p)
    \/ \E h \in Hosts : Forget(h)

Spec == Init /\ [][Next]_vars

------------------------------------------------------------------------------
(* Properties *)

\* "persistent TOFU pinning refuses connections when a known host key changes
\* and fails closed if the pin cannot be saved" (README.md:17): while the file
\* can be read and appends neither tear nor overlap, every connection that was
\* accepted used the key that the file gives its host now.  So any number of
\* first connections of one process, at once, end with one key.
AcceptedIsPinned ==
    calm => \A h \in Hosts : \A k \in accepted[h] : PinIn(Content, h, k)

\* Whatever tears, overlaps or dies: a pin whose line is complete is the one
\* that counts until the operator deletes it.
CompletePinStays ==
    [][\A h \in Hosts, k \in Keys :
         PinIn(lines, h, k) => PinIn(lines', h, k) \/ Forget(h)]_vars
=============================================================================
