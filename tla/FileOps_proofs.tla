---------------------------- MODULE FileOps_proofs ----------------------------
(***************************************************************************)
(* TLAPS proofs about FileOps: types, and that edits and puts act one at a *)
(* time as long as no write begins during another.                         *)
(***************************************************************************)
EXTENDS FileOps, SequenceTheorems, TLAPS

------------------------------------------------------------------------------
(* Contents *)

LEMMA NoFile == \A s \in Contents : s # None
BY FileAssumption

LEMMA ExistingIsContent ==
    ASSUME NEW s \in Contents \cup {None}
    PROVE  Existing(s) \in Contents
BY DEF Existing, Contents

\* Replacing a text by another one moves nothing.
LEMMA ReplacedIsContent ==
    ASSUME TypeOK, NEW t \in Edits, NEW s \in Contents
    PROVE  Replaced(s, t) \in Contents
<1>1. s \in Seq(Texts \cup Calls) /\ Len(s) \in Nat
  BY DEF Contents
<1>2. t \in Texts \cup Calls
  BY DEF Calls
<1>3. \A i \in 1..Len(s) :
         (IF s[i] = target[t] THEN t ELSE s[i]) \in Texts \cup Calls
  BY <1>1, <1>2
<1> QED
  BY <1>1, <1>3 DEF Replaced, Contents

\* A text written over a file keeps what it does not cover, so it is all that
\* an empty file has afterwards.
LEMMA OverlayIsContent ==
    ASSUME NEW s \in Contents, NEW old \in Contents
    PROVE  /\ Overlay(s, old) \in Contents
           /\ Overlay(s, <<>>) = s
<1>1. /\ s \in Seq(Texts \cup Calls) /\ Len(s) \in Nat
      /\ old \in Seq(Texts \cup Calls) /\ Len(old) \in Nat
  BY DEF Contents
<1>2. SubSeq(old, Len(s) + 1, Len(old)) \in Seq(Texts \cup Calls)
  <2>1. \A i \in (Len(s) + 1)..Len(old) : old[i] \in Texts \cup Calls
    BY <1>1
  <2> QED
    BY <1>1, <2>1, SubSeqProperties
<1>3. Overlay(s, old) \in Contents
  BY <1>1, <1>2, ConcatProperties DEF Overlay, Contents
<1>4. SubSeq(<<>>, Len(s) + 1, 0) = <<>>
  BY <1>1, SubSeqEmpty
<1>5. Overlay(s, <<>>) = s \o <<>>
  BY <1>4 DEF Overlay
<1> QED
  BY <1>1, <1>3, <1>5, ConcatEmptySeq

LEMMA PrefixIsContent ==
    ASSUME NEW s \in Contents, NEW part \in Prefixes(s)
    PROVE  part \in Contents
<1>1. s \in Seq(Texts \cup Calls) /\ Len(s) \in Nat
  BY DEF Contents
<1>2. PICK n \in 0..Len(s) : part = SubSeq(s, 1, n)
  BY DEF Prefixes
<1>3. \A i \in 1..n : s[i] \in Texts \cup Calls
  BY <1>1
<1> QED
  BY <1>1, <1>2, <1>3, SubSeqProperties DEF Contents

LEMMA PutIsContent ==
    ASSUME NEW p \in Puts
    PROVE  <<p>> \in Contents
BY DEF Contents, Calls

LEMMA SentIsContent ==
    ASSUME TypeOK, NEW p \in Puts, NEW s \in Contents
    PROVE  Sent(p, s) \in Contents
<1>1. Existing(file) \in Contents
  BY ExistingIsContent DEF TypeOK
<1>2. Existing(file) \o s \in Contents
  BY <1>1, ConcatProperties DEF Contents
<1> QED
  BY <1>1, <1>2, OverlayIsContent DEF Sent

LEMMA PutWholeIsContent ==
    ASSUME TypeOK, NEW p \in Puts
    PROVE  PutWhole(p) \in Contents \cup {None}
<1>1. Existing(serial) \in Contents /\ <<p>> \in Contents
  BY ExistingIsContent, PutIsContent DEF TypeOK
<1>2. Existing(serial) \o <<p>> \in Contents
  BY <1>1, ConcatProperties DEF Contents
<1>3. mode[p] \in {"append", "overwrite", "create"}
  BY DEF TypeOK, Modes
<1> QED
  BY <1>1, <1>2, <1>3 DEF PutWhole, TypeOK

------------------------------------------------------------------------------
(* Types *)

LEMMA Went ==
    ASSUME TypeOK, NEW c \in Calls, NEW step \in EditSteps \cup PutSteps,
           Goto(c, step)
    PROVE  /\ pc' \in [Calls -> EditSteps \cup PutSteps]
           /\ pc'[c] = step
           /\ \A d \in Calls \ {c} : pc'[d] = pc[d]
           /\ Writing' = IF step \in {"open", "write"}
                         THEN Writing \cup {c} ELSE Writing \ {c}
BY DEF TypeOK, Goto, Writing

\* A call that ends, however it does, leaves the others where they are.
LEMMA EndTyped ==
    ASSUME TypeOK, NEW c \in Calls, NEW step \in {"edited", "put", "error"},
           NEW whole \in Contents \cup {None}, Ends(c, step, whole),
           file' \in Contents \cup {None}
    PROVE  TypeOK'
<1>1. step \in EditSteps \cup PutSteps
  BY DEF EditSteps, PutSteps
<1>2. /\ pc' \in [Calls -> EditSteps \cup PutSteps]
      /\ pc'[c] = step
      /\ \A d \in Calls \ {c} : pc'[d] = pc[d]
  BY <1>1, Went DEF Ends
<1> QED
  BY <1>2 DEF Ends, args, TypeOK, Calls, Occurrences

LEMMA EditTyped ==
    ASSUME TypeOK, NEW t \in Edits, Edit(t)
    PROVE  TypeOK'
<1>0. t \in Calls /\ EditSteps \subseteq EditSteps \cup PutSteps
  BY DEF Calls
<1>1. CASE EditRefused(t)
  BY <1>0, <1>1, Went DEF EditRefused, EditSteps, TypeOK, args, Calls, Occurrences
<1>2. CASE EditReads(t)
  <2>1. file \in Contents
    BY <1>2 DEF EditReads, TypeOK
  <2>2. CASE Occurrences(target[t], file) = 1
    <3>1. snapshot' = [snapshot EXCEPT ![t] = file] /\ Goto(t, "approve")
      BY <1>2, <2>2 DEF EditReads
    <3>2. /\ snapshot' \in [Edits -> Contents]
          /\ snapshot'[t] = file
          /\ \A u \in Edits \ {t} : snapshot'[u] = snapshot[u]
      BY <2>1, <3>1 DEF TypeOK
    <3>3. /\ pc' \in [Calls -> EditSteps \cup PutSteps]
          /\ \A d \in Calls \ {t} : pc'[d] = pc[d]
      BY <1>0, <3>1, Went DEF EditSteps
    <3>4. \A u \in Edits : pc'[u] \in {"approve", "reread", "open", "write"}
                           => Occurrences(target[u], snapshot'[u]) = 1
      BY <2>2, <3>2, <3>3 DEF TypeOK, Calls
    <3> QED
      BY <1>2, <3>2, <3>3, <3>4 DEF EditReads, TypeOK, args, Occurrences
  <2>3. CASE Occurrences(target[t], file) # 1
    <3>1. Goto(t, "denied") /\ UNCHANGED snapshot
      BY <1>2, <2>3 DEF EditReads
    <3> QED
      BY <1>0, <1>2, <3>1, Went
      DEF EditReads, EditSteps, TypeOK, args, Calls, Occurrences
  <2> QED BY <2>2, <2>3
<1>3. CASE EditAnswered(t)
  BY <1>0, <1>3, Went DEF EditAnswered, EditSteps, TypeOK, args, Calls, Occurrences
<1>4. CASE EditRereads(t)
  <2>1. overlapped' \in BOOLEAN
    BY <1>4 DEF EditRereads, TypeOK
  <2>2. PICK step \in {"open", "denied"} : Goto(t, step)
    BY <1>4 DEF EditRereads
  <2> QED
    BY <1>0, <1>4, <2>1, <2>2, Went
    DEF EditRereads, EditSteps, TypeOK, args, Calls, Occurrences
<1>5. CASE EditRereadFails(t)
  BY <1>0, <1>5, Went DEF EditRereadFails, EditSteps, TypeOK, args, Calls, Occurrences
<1>6. CASE EditOpens(t)
  <2>1. file' \in Contents
    BY <1>6 DEF EditOpens, Contents
  <2> QED
    BY <1>0, <1>6, <2>1, Went DEF EditOpens, EditSteps, TypeOK, args, Calls, Occurrences
<1>7. CASE EditOpenFails(t)
  <2>1. file' \in Contents \cup {None}
    <3>1. <<>> \in Contents
      BY DEF Contents
    <3> QED BY <1>7, <3>1 DEF EditOpenFails, TypeOK
  <2> QED
    BY <1>0, <1>7, <2>1, EndTyped DEF EditOpenFails, Fails
<1>8. CASE EditWrites(t)
  <2>1. /\ Replaced(snapshot[t], t) \in Contents /\ Existing(file) \in Contents
        /\ Replaced(Existing(serial), t) \in Contents
    BY ReplacedIsContent, ExistingIsContent DEF TypeOK
  <2>2. file' \in Contents \cup {None}
    BY <1>8, <2>1, OverlayIsContent DEF EditWrites, Lands, TypeOK
  <2> QED
    BY <1>0, <1>8, <2>1, <2>2, EndTyped DEF EditWrites, Succeeds, TypeOK
<1>9. CASE EditWriteFails(t)
  <2>1. PICK s \in Prefixes(Replaced(snapshot[t], t)) :
               Lands(t, Overlay(s, Existing(file)))
    BY <1>9 DEF EditWriteFails
  <2>2. s \in Contents /\ Existing(file) \in Contents
    BY ReplacedIsContent, PrefixIsContent, ExistingIsContent DEF TypeOK
  <2>3. file' \in Contents \cup {None}
    BY <2>1, <2>2, OverlayIsContent DEF Lands, TypeOK
  <2> QED
    BY <1>0, <1>9, <2>3, EndTyped DEF EditWriteFails, Fails
<1> QED
  BY <1>1, <1>2, <1>3, <1>4, <1>5, <1>6, <1>7, <1>8, <1>9 DEF Edit

LEMMA PutTyped ==
    ASSUME TypeOK, NEW p \in Puts, Put(p)
    PROVE  TypeOK'
<1>0. p \in Calls /\ p \notin Edits
  BY FileAssumption DEF Calls
<1>1. CASE PutRefused(p)
  BY <1>0, <1>1, Went DEF PutRefused, PutSteps, TypeOK, args, Calls, Occurrences
<1>2. Opened(p) \in Contents
  BY ExistingIsContent DEF Opened, TypeOK, Contents
<1>3. CASE PutOpens(p)
  BY <1>0, <1>2, <1>3, Went DEF PutOpens, PutSteps, TypeOK, args, Calls, Occurrences
<1>4. CASE PutOpenFails(p)
  <2>1. file' \in Contents \cup {None} /\ serial' = file'
    BY <1>2, <1>4 DEF PutOpenFails, TypeOK
  <2>2. overlapped' \in BOOLEAN /\ Goto(p, "error")
    BY <1>4 DEF PutOpenFails, TypeOK
  <2> QED
    BY <1>0, <1>4, <2>1, <2>2, Went
    DEF PutOpenFails, PutSteps, TypeOK, args, Calls, Occurrences
<1>5. CASE PutWrites(p)
  <2>1. file' \in Contents \cup {None}
    BY <1>5, PutIsContent, SentIsContent DEF PutWrites, Lands, TypeOK
  <2> QED
    BY <1>0, <1>5, <2>1, PutWholeIsContent, EndTyped
    DEF PutWrites, Succeeds, TypeOK
<1>6. CASE PutWriteFails(p)
  <2>1. PICK s \in Prefixes(<<p>>) : Lands(p, Sent(p, s))
    BY <1>6 DEF PutWriteFails
  <2>2. file' \in Contents \cup {None}
    BY <2>1, PutIsContent, PrefixIsContent, SentIsContent DEF Lands, TypeOK
  <2> QED
    BY <1>0, <1>6, <2>2, EndTyped DEF PutWriteFails, Fails
<1> QED
  BY <1>1, <1>3, <1>4, <1>5, <1>6 DEF Put

LEMMA OtherTyped ==
    ASSUME TypeOK, OtherChanges
    PROVE  TypeOK'
<1>1. file' \in Contents \cup {None} /\ serial' = file'
  BY FileAssumption DEF OtherChanges
<1>2. others' \in 0..MaxOther /\ detached' \subseteq Calls /\ overlapped' \in BOOLEAN
  BY FileAssumption DEF OtherChanges, TypeOK
<1> QED
  BY <1>1, <1>2 DEF OtherChanges, TypeOK, args, Occurrences

LEMMA InitTyped == Init => TypeOK
<1> SUFFICES ASSUME Init PROVE TypeOK
  OBVIOUS
<1>1. file \in Contents \cup {None} /\ others \in 0..MaxOther
  BY FileAssumption DEF Init
<1>2. snapshot \in [Edits -> Contents]
  BY DEF Init, Contents
<1>3. pc \in [Calls -> EditSteps \cup PutSteps]
  BY DEF Init, EditSteps
<1>4. \A t \in Edits : pc[t] = "idle"
  BY DEF Init, Calls
<1> QED
  BY <1>1, <1>2, <1>3, <1>4 DEF Init, TypeOK

LEMMA NextTyped == TypeOK /\ [Next]_vars => TypeOK'
<1>1. TypeOK /\ UNCHANGED vars => TypeOK'
  BY DEF TypeOK, vars, args, Occurrences
<1> QED
  BY <1>1, EditTyped, PutTyped, OtherTyped DEF Next

\* Every variable keeps its type, and an edit that goes on towards its write
\* has read a content with its text in it exactly once.
THEOREM TypeCorrect == Spec => []TypeOK
BY InitTyped, NextTyped, PTL DEF Spec

------------------------------------------------------------------------------
(* One write at a time *)

\* Until a write has begun during another, there is one at most, and no other
\* program has touched the path since it began: the history is still at the
\* content its call has seen, and the file at it or, once open, cut as the
\* call's mode says.
Disjoint ==
    ~overlapped =>
        /\ detached = {}
        /\ \A c, d \in Writing : c = d
        /\ Writing = {} => file = serial
        /\ \A t \in Edits \cap Writing :
              /\ serial = snapshot[t]
              /\ file = IF pc[t] = "open" THEN snapshot[t] ELSE <<>>
        /\ \A p \in Puts \cap Writing :
              /\ file = IF mode[p] = "append" THEN Existing(serial) ELSE <<>>
              /\ mode[p] = "create" => serial = None

\* A step that moves no call into or out of a write, and leaves the file alone.
LEMMA AsideDisjoint ==
    ASSUME TypeOK, Disjoint, Writing' = Writing,
           UNCHANGED <<file, mode, serial, detached, overlapped>>,
           \A c \in Writing : pc'[c] = pc[c],
           \A t \in Edits \cap Writing : snapshot'[t] = snapshot[t]
    PROVE  Disjoint'
BY DEF Disjoint, Existing

\* A call that ends, having been the only one that wrote, in a file that is as
\* if it had acted at once.
LEMMA EndDisjoint ==
    ASSUME TypeOK, Disjoint, NEW c \in Writing, NEW step \in {"edited", "put", "error"},
           NEW whole, Ends(c, step, whole), ~overlapped => file' = whole
    PROVE  Disjoint'
<1>1. c \in Calls /\ step \in EditSteps \cup PutSteps
  BY DEF Writing, EditSteps, PutSteps
<1>2. Writing' = Writing \ {c}
  BY <1>1, Went DEF Ends
<1>3. ~overlapped => Writing' = {}
  BY <1>2 DEF Disjoint
<1> QED
  BY <1>3 DEF Ends, Disjoint

\* What an edit that was the only one to write leaves is what it would have
\* made of the content that the history has.
LEMMA EditWhole ==
    ASSUME TypeOK, Disjoint, ~overlapped, NEW t \in Edits, EditWrites(t)
    PROVE  file' = Replaced(Existing(serial), t) /\ t \notin detached
<1>1. t \in Writing /\ t \notin detached
  BY DEF EditWrites, Writing, Calls, Disjoint
<1>2. file = <<>> /\ serial = snapshot[t] /\ snapshot[t] \in Contents
  BY <1>1 DEF EditWrites, Disjoint, TypeOK
<1>3. Existing(file) = <<>> /\ Existing(serial) = snapshot[t]
  <2>1. <<>> \in Contents
    BY DEF Contents
  <2> QED BY <1>2, <2>1, NoFile DEF Existing
<1>4. Overlay(Replaced(snapshot[t], t), <<>>) = Replaced(snapshot[t], t)
  BY <1>2, ReplacedIsContent, OverlayIsContent
<1> QED
  BY <1>1, <1>3, <1>4 DEF EditWrites, Lands

\* And a put leaves what its mode promises.
LEMMA PutWholeFile ==
    ASSUME TypeOK, Disjoint, ~overlapped, NEW p \in Puts, PutWrites(p)
    PROVE  file' = PutWhole(p) /\ p \notin detached
<1>1. p \in Writing /\ p \notin detached
  BY DEF PutWrites, Writing, Calls, Disjoint
<1>2. /\ file = IF mode[p] = "append" THEN Existing(serial) ELSE <<>>
      /\ mode[p] = "create" => serial = None
      /\ Existing(serial) \in Contents
  BY <1>1, ExistingIsContent DEF Disjoint, TypeOK
<1>3. <<>> \in Contents /\ <<p>> \in Contents
  BY PutIsContent DEF Contents
<1>4. file' = Sent(p, <<p>>)
  BY <1>1 DEF PutWrites, Lands
<1>5. Existing(file) = file
  BY <1>2, <1>3, NoFile DEF Existing
<1>6. CASE mode[p] = "append"
  BY <1>1, <1>2, <1>4, <1>5, <1>6 DEF Sent, PutWhole
<1>7. CASE mode[p] # "append"
  <2>1. file' = <<p>>
    BY <1>2, <1>3, <1>4, <1>5, <1>7, OverlayIsContent DEF Sent
  <2>2. mode[p] \in {"overwrite", "create"}
    BY <1>7 DEF TypeOK, Modes
  <2> QED
    BY <1>1, <1>2, <2>1, <2>2 DEF PutWhole
<1> QED
  BY <1>6, <1>7

LEMMA EditDisjoint ==
    ASSUME TypeOK, Disjoint, NEW t \in Edits, Edit(t)
    PROVE  Disjoint'
<1>0. t \in Calls /\ t \notin Puts /\ EditSteps \subseteq EditSteps \cup PutSteps
  BY FileAssumption DEF Calls
<1>1. ASSUME NEW step \in {"approve", "reread", "denied", "error"}, Goto(t, step),
             pc[t] \in {"idle", "approve", "reread"},
             UNCHANGED <<file, mode, serial, detached, overlapped>>,
             \A u \in Edits \ {t} : snapshot'[u] = snapshot[u]
      PROVE  Disjoint'
  <2>1. t \notin Writing /\ step \in EditSteps
    BY <1>1 DEF Writing, EditSteps
  <2>2. Writing' = Writing /\ \A c \in Writing : pc'[c] = pc[c]
    BY <1>0, <1>1, <2>1, Went DEF Writing
  <2> QED
    BY <1>1, <2>1, <2>2, AsideDisjoint
<1>2. CASE EditRefused(t) \/ EditAnswered(t) \/ EditRereadFails(t)
  BY <1>1, <1>2 DEF EditRefused, EditAnswered, EditRereadFails, args
<1>3. CASE EditReads(t)
  <2>1. \A u \in Edits \ {t} : snapshot'[u] = snapshot[u]
    BY <1>3 DEF EditReads, TypeOK
  <2> QED
    BY <1>1, <1>3, <2>1 DEF EditReads, args
<1>4. CASE EditRereads(t)
  <2>1. CASE file = snapshot[t]
    <3>1. /\ Goto(t, "open") /\ overlapped' = (overlapped \/ Writing # {})
          /\ UNCHANGED <<file, snapshot, serial, detached>>
      BY <1>4, <2>1 DEF EditRereads
    <3>2. Writing' = Writing \cup {t} /\ pc'[t] = "open"
      BY <1>0, <3>1, Went DEF EditSteps
    <3>3. ~overlapped' => /\ ~overlapped /\ Writing' = {t}
                          /\ file = serial /\ detached = {}
      BY <3>1, <3>2 DEF Disjoint
    <3> QED
      BY <1>0, <2>1, <3>1, <3>2, <3>3 DEF Disjoint
  <2>2. CASE file # snapshot[t]
    BY <1>1, <1>4, <2>2 DEF EditRereads, args
  <2> QED BY <2>1, <2>2
<1>5. CASE EditOpens(t)
  <2>1. /\ t \in Writing /\ Writing' = Writing /\ pc'[t] = "write"
    BY <1>0, <1>5, Went DEF EditOpens, Writing, EditSteps
  <2>2. ~overlapped => Writing' = {t} /\ serial = snapshot[t]
    BY <2>1 DEF Disjoint
  <2> QED
    BY <1>0, <1>5, <2>1, <2>2 DEF EditOpens, Disjoint
<1>6. CASE EditOpenFails(t)
  BY <1>0, <1>6, EndDisjoint DEF EditOpenFails, Fails, Writing
<1>7. CASE EditWrites(t)
  <2>1. t \in Writing
    BY <1>0, <1>7 DEF EditWrites, Writing
  <2> QED
    BY <1>7, <2>1, EditWhole, EndDisjoint DEF EditWrites, Succeeds
<1>8. CASE EditWriteFails(t)
  BY <1>0, <1>8, EndDisjoint DEF EditWriteFails, Fails, Writing
<1> QED
  BY <1>2, <1>3, <1>4, <1>5, <1>6, <1>7, <1>8 DEF Edit

LEMMA PutDisjoint ==
    ASSUME TypeOK, Disjoint, NEW p \in Puts, Put(p)
    PROVE  Disjoint'
<1>0. p \in Calls /\ p \notin Edits
  BY FileAssumption DEF Calls
<1>1. CASE PutRefused(p)
  <2>1. Writing' = Writing /\ \A c \in Writing : pc'[c] = pc[c]
    BY <1>0, <1>1, Went DEF PutRefused, Writing, PutSteps
  <2> QED
    BY <1>1, <2>1, AsideDisjoint DEF PutRefused, args
<1>2. CASE PutOpens(p)
  <2>1. Writing' = Writing \cup {p} /\ overlapped' = (overlapped \/ Writing # {})
    BY <1>0, <1>2, Went DEF PutOpens, PutSteps
  <2>2. ~overlapped' => /\ ~overlapped /\ Writing' = {p}
                        /\ file = serial /\ detached = {}
    BY <2>1 DEF Disjoint
  <2>3. /\ file' = IF mode[p] = "append" THEN Existing(file) ELSE <<>>
        /\ mode[p] = "create" => file = None
        /\ UNCHANGED <<mode, serial, detached>>
    BY <1>2 DEF PutOpens, Opened, MayOpen, args
  <2> QED
    BY <1>0, <2>2, <2>3 DEF Disjoint, Existing
<1>3. CASE PutOpenFails(p)
  <2>1. Writing' = Writing
    BY <1>0, <1>3, Went DEF PutOpenFails, Writing, PutSteps
  <2>2. ~overlapped' => ~overlapped /\ Writing' = {} /\ detached = {}
    BY <1>3, <2>1 DEF PutOpenFails, Disjoint
  <2> QED
    BY <1>3, <2>2 DEF PutOpenFails, Disjoint
<1>4. CASE PutWrites(p)
  <2>1. p \in Writing
    BY <1>0, <1>4 DEF PutWrites, Writing
  <2> QED
    BY <1>4, <2>1, PutWholeFile, EndDisjoint DEF PutWrites, Succeeds
<1>5. CASE PutWriteFails(p)
  BY <1>0, <1>5, EndDisjoint DEF PutWriteFails, Fails, Writing
<1> QED
  BY <1>1, <1>2, <1>3, <1>4, <1>5 DEF Put

LEMMA OtherDisjoint ==
    ASSUME TypeOK, Disjoint, OtherChanges
    PROVE  Disjoint'
<1>1. Writing' = Writing /\ overlapped' = (overlapped \/ Writing # {})
  BY DEF OtherChanges, Writing
<1>2. ~overlapped' => ~overlapped /\ Writing' = {} /\ detached' = {}
  BY <1>1 DEF OtherChanges, Disjoint, Writing
<1> QED
  BY <1>2 DEF OtherChanges, Disjoint

\* The invariant, for any number of calls, contents and foreign changes.
THEOREM Invariant == Spec => [](TypeOK /\ Disjoint)
<1>1. Init => Disjoint
  BY DEF Init, Disjoint, Writing
<1>2. TypeOK /\ Disjoint /\ UNCHANGED vars => Disjoint'
  BY DEF Disjoint, Writing, Existing, vars, args
<1>3. TypeOK /\ Disjoint /\ [Next]_vars => Disjoint'
  BY <1>2, EditDisjoint, PutDisjoint, OtherDisjoint DEF Next
<1> QED
  BY <1>1, <1>3, InitTyped, NextTyped, PTL DEF Spec

\* While no write begins during another, edits and puts are serializable.
THEOREM Serializable == Spec => []SerialWhenDisjoint
<1>1. Disjoint => SerialWhenDisjoint
  BY DEF Disjoint, SerialWhenDisjoint
<1> QED
  BY <1>1, Invariant, PTL
=============================================================================
