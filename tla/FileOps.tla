------------------------------ MODULE FileOps ------------------------------
(***************************************************************************)
(* file_edit and file_put of src/src/server.rs on one remote path, over    *)
(* the SFTP operations of src/src/ssh.rs.  The handlers run concurrently   *)
(* with each other and with what the host's other programs do to the file: *)
(* nothing locks a remote path.                                            *)
(*                                                                         *)
(* A file is a sequence of texts.  An edit replaces one text by its own, a *)
(* put brings one text, and every call is known by the text it writes.     *)
(***************************************************************************)
EXTENDS Naturals, Sequences, FiniteSets

CONSTANTS
    Edits,      \* file_edit calls, by their new_string
    Puts,       \* file_put calls, by their content
    Texts,      \* texts of the host, candidates for old_string
    Foreign,    \* contents the host's other programs give the file
    None,       \* the content of a missing file
    MaxOther    \* bound: changes made by other programs

Calls == Edits \cup Puts
Contents == Seq(Texts \cup Calls)

ASSUME FileAssumption ==
    /\ Edits \cap Puts = {}
    /\ Foreign \subseteq Contents \cup {None}
    /\ None \notin Contents
    /\ MaxOther \in Nat

VARIABLES
    file,        \* the content at the path
    pc,          \* where each call is, and how it ended
    mode,        \* the mode of each put
    target,      \* the old_string of each edit
    snapshot,    \* the content each edit read first, validated, had approved
    detached,    \* calls whose open file no longer has the path's name
    others,      \* changes made by other programs
    serial,      \* history: the file, had each call acted at once at its end
    overlapped   \* history: a write began while another was under way

args == <<mode, target>>
vars == <<file, pc, args, snapshot, detached, others, serial, overlapped>>

Modes == {"create", "overwrite", "append"}
EditSteps == {"idle", "approve", "reread", "open", "write",
              "denied", "error", "edited"}
PutSteps == {"idle", "write", "denied", "error", "put"}

------------------------------------------------------------------------------
(* Contents *)

Occurrences(x, s) == Cardinality({i \in 1..Len(s) : s[i] = x})

\* current.replacen(&old_string, &new_string, 1), with one occurrence.
Replaced(s, t) == [i \in 1..Len(s) |-> IF s[i] = target[t] THEN t ELSE s[i]]

\* Writing s from the beginning of a file that holds old.
Overlay(s, old) == s \o SubSeq(old, Len(s) + 1, Len(old))

\* What an interrupted write of s may have sent.
Prefixes(s) == {SubSeq(s, 1, n) : n \in 0..Len(s)}

Existing(s) == IF s = None THEN <<>> ELSE s

------------------------------------------------------------------------------
(* States *)

TypeOK ==
    /\ file \in Contents \cup {None}
    /\ pc \in [Calls -> EditSteps \cup PutSteps]
    /\ mode \in [Puts -> Modes]
    /\ target \in [Edits -> Texts]
    /\ snapshot \in [Edits -> Contents]
    /\ detached \subseteq Calls
    /\ others \in 0..MaxOther
    /\ serial \in Contents \cup {None}
    /\ overlapped \in BOOLEAN
    /\ \A t \in Edits : pc[t] \in {"approve", "reread", "open", "write"}
                         => Occurrences(target[t], snapshot[t]) = 1

Init ==
    /\ file \in Foreign
    /\ pc = [c \in Calls |-> "idle"]
    /\ mode \in [Puts -> Modes]
    /\ target \in [Edits -> Texts]
    /\ snapshot = [t \in Edits |-> <<>>]
    /\ detached = {}
    /\ others = 0
    /\ serial = file
    /\ overlapped = FALSE

------------------------------------------------------------------------------
(* Writes in progress *)

\* From the last look at the file to the end of the write.
Writing == {c \in Calls : pc[c] \in {"open", "write"}}

Goto(c, step) == pc' = [pc EXCEPT ![c] = step]

\* c ends, its writes having had the effect whole as a single step.
Ends(c, step, whole) ==
    /\ Goto(c, step)
    /\ serial' = whole
    /\ detached' = detached \ {c}
    /\ UNCHANGED <<args, snapshot, others, overlapped>>

\* c ends in success or, after having changed the file or not, in error.
Succeeds(c, step, whole) == Ends(c, step, whole)
Fails(c) == Ends(c, "error", file')

\* The write goes to the file that was opened.
Lands(c, new) == file' = IF c \in detached THEN file ELSE new

------------------------------------------------------------------------------
(* file_edit *)

\* Out of scope, over the limits, no credential, too large, not UTF-8.
EditRefused(t) ==
    /\ pc[t] = "idle"
    /\ \E step \in {"denied", "error"} : Goto(t, step)
    /\ UNCHANGED <<file, args, snapshot, detached, others, serial, overlapped>>

\* Mutant of EditReads: an ambiguous old_string is accepted.
EditReadsAny(t) ==
    /\ pc[t] = "idle"
    /\ file # None
    /\ IF Occurrences(target[t], file) > 0
       THEN snapshot' = [snapshot EXCEPT ![t] = file] /\ Goto(t, "approve")
       ELSE UNCHANGED snapshot /\ Goto(t, "denied")
    /\ UNCHANGED <<file, args, detached, others, serial, overlapped>>

EditReads(t) ==
    /\ pc[t] = "idle"
    /\ file # None
    /\ IF Occurrences(target[t], file) = 1
       THEN snapshot' = [snapshot EXCEPT ![t] = file] /\ Goto(t, "approve")
       ELSE UNCHANGED snapshot /\ Goto(t, "denied")
    /\ UNCHANGED <<file, args, detached, others, serial, overlapped>>

EditAnswered(t) ==
    /\ pc[t] = "approve"
    /\ \E step \in {"reread", "denied"} : Goto(t, step)
    /\ UNCHANGED <<file, args, snapshot, detached, others, serial, overlapped>>

\* Mutant of EditRereads: what was read is not compared.
EditRereadsOnly(t) ==
    /\ pc[t] = "reread"
    /\ Goto(t, "open")
    /\ overlapped' = (overlapped \/ Writing # {})
    /\ UNCHANGED <<file, args, snapshot, detached, others, serial>>

\* "Revalida logo antes de gravar": the sha256 of the content again.
EditRereads(t) ==
    /\ pc[t] = "reread"
    /\ IF file = snapshot[t]
       THEN Goto(t, "open") /\ overlapped' = (overlapped \/ Writing # {})
       ELSE Goto(t, "denied") /\ UNCHANGED overlapped
    /\ UNCHANGED <<file, args, snapshot, detached, others, serial>>

EditRereadFails(t) ==
    /\ pc[t] = "reread"
    /\ Goto(t, "error")
    /\ UNCHANGED <<file, args, snapshot, detached, others, serial, overlapped>>

\* file_overwrite: open with CREATE and TRUNCATE, then write.
EditOpens(t) ==
    /\ pc[t] = "open"
    /\ file' = <<>>
    /\ Goto(t, "write")
    /\ UNCHANGED <<args, snapshot, detached, others, serial, overlapped>>

EditOpenFails(t) ==
    /\ pc[t] = "open"
    /\ file' \in {file, <<>>}
    /\ Fails(t)

EditWrites(t) ==
    /\ pc[t] = "write"
    /\ Lands(t, Overlay(Replaced(snapshot[t], t), Existing(file)))
    /\ Succeeds(t, "edited",
                IF t \in detached THEN serial ELSE Replaced(Existing(serial), t))

EditWriteFails(t) ==
    /\ pc[t] = "write"
    /\ \E s \in Prefixes(Replaced(snapshot[t], t)) :
          Lands(t, Overlay(s, Existing(file)))
    /\ Fails(t)

------------------------------------------------------------------------------
(* file_put *)

\* Refused, not approved, or without a credential or a connection.
PutRefused(p) ==
    /\ pc[p] = "idle"
    /\ \E step \in {"denied", "error"} : Goto(p, step)
    /\ UNCHANGED <<file, args, snapshot, detached, others, serial, overlapped>>

\* CREATE with EXCLUDE, with TRUNCATE or with APPEND.
Opened(p) == IF mode[p] = "append" THEN Existing(file) ELSE <<>>

MayOpen(p) == mode[p] = "create" => file = None

PutOpens(p) ==
    /\ pc[p] = "idle"
    /\ MayOpen(p)
    /\ file' = Opened(p)
    /\ Goto(p, "write")
    /\ overlapped' = (overlapped \/ Writing # {})
    /\ UNCHANGED <<args, snapshot, detached, others, serial>>

\* The file exists, or the answer of an open that was carried out is late.
PutOpenFails(p) ==
    /\ pc[p] = "idle"
    /\ overlapped' = (overlapped \/ Writing # {})
    /\ \/ UNCHANGED file
       \/ MayOpen(p) /\ file' = Opened(p)
    /\ Goto(p, "error")
    /\ serial' = file'
    /\ UNCHANGED <<args, snapshot, detached, others>>

\* The file after p sends s.
Sent(p, s) ==
    IF mode[p] = "append" THEN Existing(file) \o s ELSE Overlay(s, Existing(file))

\* What the mode promises.
PutWhole(p) ==
    CASE mode[p] = "append" -> Existing(serial) \o <<p>>
      [] mode[p] = "overwrite" -> <<p>>
      [] mode[p] = "create" -> IF serial = None THEN <<p>> ELSE serial

PutWrites(p) ==
    /\ pc[p] = "write"
    /\ Lands(p, Sent(p, <<p>>))
    /\ Succeeds(p, "put", IF p \in detached THEN serial ELSE PutWhole(p))

PutWriteFails(p) ==
    /\ pc[p] = "write"
    /\ \E s \in Prefixes(<<p>>) : Lands(p, Sent(p, s))
    /\ Fails(p)

------------------------------------------------------------------------------
\* Another program removes the file or puts another in its place.
OtherChanges ==
    /\ others < MaxOther
    /\ others' = others + 1
    /\ file' \in Foreign \ {file}
    /\ serial' = file'
    /\ detached' = detached \cup {c \in Calls : pc[c] = "write"}
    /\ overlapped' = (overlapped \/ Writing # {})
    /\ UNCHANGED <<pc, args, snapshot>>

------------------------------------------------------------------------------
Edit(t) ==
    \/ EditRefused(t) \/ EditReads(t) \/ EditAnswered(t)
    \/ EditRereads(t) \/ EditRereadFails(t)
    \/ EditOpens(t) \/ EditOpenFails(t)
    \/ EditWrites(t) \/ EditWriteFails(t)

Put(p) ==
    \/ PutRefused(p)
    \/ PutOpens(p) \/ PutOpenFails(p)
    \/ PutWrites(p) \/ PutWriteFails(p)

Next ==
    \/ \E t \in Edits : Edit(t)
    \/ \E p \in Puts : Put(p)
    \/ OtherChanges

Spec == Init /\ [][Next]_vars

------------------------------------------------------------------------------
(* Properties *)

\* While no write begins during another, edits and puts are serializable: the
\* file is what the calls would have made of it one at a time, although each
\* edit decided on a content it read long before it wrote.  In particular no
\* update that was reported is lost.
SerialWhenDisjoint ==
    (~overlapped /\ Writing = {}) => file = serial
=============================================================================
