-------------------------- MODULE KnownHosts_proofs --------------------------
(* Proofs about KnownHosts: a complete pin stays whatever tears or         *)
(* overlaps, and while nothing does, accepted keys are pinned.             *)
EXTENDS KnownHosts, TLAPS

------------------------------------------------------------------------------
(* Lines and pins *)

Lines == Seq(Tokens)

\* A line that pins a key of one host is not for another: what split_once
\* finds before the first blank is one label.
LEMMA PinIsForOne ==
    ASSUME NEW line \in Lines, NEW g \in Hosts, NEW h \in Hosts, NEW k,
           g # h, IsFor(line, g), IsPin(line, h, k)
    PROVE  FALSE
<1>1. h # Blank /\ g # Blank
  BY KnownHostsAssumption
<1>2. PICK a \in DOMAIN line : line[a] = g /\ \A j \in 1..(a - 1) : line[j] = Blank
  BY DEF IsFor
<1>3. PICK i \in DOMAIN line, j \in DOMAIN line :
        /\ i + 1 < j /\ line[i] = h
        /\ \A m \in DOMAIN line \ {i, j} : line[m] = Blank
  BY DEF IsPin
<1>4. a = j
  BY <1>1, <1>2, <1>3
<1>5. i \in 1..(a - 1)
  BY <1>3, <1>4 DEF Lines
<1> QED BY <1>1, <1>2, <1>3, <1>5

\* The line that known_hosts_append writes pins its key.
LEMMA WrittenIsPin ==
    ASSUME NEW line \in Lines, NEW h, NEW k,
           Len(line) = 3, line[1] = h, line[2] = Blank, line[3] = k
    PROVE  IsPin(line, h, k)
<1>1. DOMAIN line = 1..3
  BY DEF Lines
<1>2. \A m \in DOMAIN line \ {1, 3} : line[m] = Blank
  BY <1>1
<1> QED BY <1>1, <1>2 DEF IsPin

\* No other key, and no part of that line pins anything.
LEMMA OnlyWrittenIsPin ==
    ASSUME NEW line \in Lines, Len(line) \in 0..3, NEW h, NEW k, IsPin(line, h, k)
    PROVE  Len(line) = 3 /\ line[1] = h /\ line[3] = k
BY DEF IsPin, Lines

\* Whatever is appended to the file, the first line of a host stays the first.
LEMMA PinStaysBefore ==
    ASSUME NEW text \in Seq(Lines), NEW line, NEW h, NEW k, PinIn(text, h, k)
    PROVE  PinIn(Append(text, line), h, k)
<1>1. PICK i \in DOMAIN text :
        IsPin(text[i], h, k) /\ \A j \in 1..(i - 1) : ~IsFor(text[j], h)
  BY DEF PinIn
<1>2. i \in DOMAIN Append(text, line) /\ Append(text, line)[i] = text[i]
  BY <1>1
<1>3. \A j \in 1..(i - 1) : Append(text, line)[j] = text[j]
  BY <1>1
<1> QED BY <1>1, <1>2, <1>3 DEF PinIn

\* The first pin of a host counts.
LEMMA FirstPin ==
    ASSUME NEW text \in Seq(Lines), NEW line, NEW h, NEW k, IsPin(line, h, k),
           \A i \in DOMAIN text : ~IsFor(text[i], h)
    PROVE  PinIn(Append(text, line), h, k)
<1> DEFINE after == Append(text, line)
<1>1. Len(text) + 1 \in DOMAIN after /\ after[Len(text) + 1] = line
  OBVIOUS
<1>2. \A j \in 1..(Len(text) + 1 - 1) : after[j] = text[j] /\ j \in DOMAIN text
  OBVIOUS
<1> QED BY <1>1, <1>2 DEF PinIn

\* Where the elements of a concatenation come from.
LEMMA Joined ==
    ASSUME NEW S, NEW a \in Seq(S), NEW b \in Seq(S),
           NEW j \in 1..(Len(a) + Len(b))
    PROVE  (a \o b)[j] = IF j <= Len(a) THEN a[j] ELSE b[j - Len(a)]
OBVIOUS

\* What is left when a line is deleted.
LEMMA Removed ==
    ASSUME NEW text \in Seq(Lines), NEW i \in DOMAIN text
    PROVE  /\ RemoveAt(text, i) \in Seq(Lines)
           /\ Len(RemoveAt(text, i)) = Len(text) - 1
           /\ \A j \in 1..(Len(text) - 1) :
                 RemoveAt(text, i)[j] = IF j < i THEN text[j] ELSE text[j + 1]
<1>1. i \in 1..Len(text) /\ Len(text) \in Nat
  OBVIOUS
<1> DEFINE before == SubSeq(text, 1, i - 1)
           behind == SubSeq(text, i + 1, Len(text))
<1>2. /\ before \in Seq(Lines) /\ Len(before) = i - 1
      /\ \A j \in 1..(i - 1) : before[j] = text[j]
  BY <1>1
<1>3. /\ behind \in Seq(Lines) /\ Len(behind) = Len(text) - i
      /\ \A j \in 1..(Len(text) - i) : behind[j] = text[j + i]
  BY <1>1
<1> HIDE DEF before, behind
<1>4. /\ before \o behind \in Seq(Lines)
      /\ Len(before \o behind) = Len(text) - 1
  BY <1>1, <1>2, <1>3
<1>5. ASSUME NEW j \in 1..(Len(text) - 1)
      PROVE  (before \o behind)[j] = IF j < i THEN text[j] ELSE text[j + 1]
  <2>1. j \in 1..(Len(before) + Len(behind))
    BY <1>1, <1>2, <1>3
  <2>2. (before \o behind)[j] =
           IF j <= Len(before) THEN before[j] ELSE behind[j - Len(before)]
    BY <2>1, <1>2, <1>3, Joined
  <2>3. CASE j < i
    <3>1. j <= Len(before) /\ j \in 1..(i - 1)
      BY <2>3, <1>1, <1>2
    <3> QED BY <2>2, <2>3, <3>1, <1>2
  <2>4. CASE ~(j < i)
    <3>1. /\ ~(j <= Len(before)) /\ j - Len(before) \in 1..(Len(text) - i)
          /\ j - Len(before) + i = j + 1
      BY <2>4, <1>1, <1>2
    <3> QED BY <2>2, <2>4, <3>1, <1>3
  <2> QED BY <2>3, <2>4
<1>6. RemoveAt(text, i) = before \o behind
  BY DEF RemoveAt, before, behind
<1> QED BY <1>4, <1>5, <1>6

\* The operator's deletion of another host's line leaves a pin in force.
LEMMA PinStaysRemoved ==
    ASSUME NEW text \in Seq(Lines), NEW i \in DOMAIN text,
           NEW g \in Hosts, NEW h \in Hosts, NEW k,
           g # h, IsFor(text[i], g), PinIn(text, h, k)
    PROVE  PinIn(RemoveAt(text, i), h, k)
<1> DEFINE after == RemoveAt(text, i)
<1>1. PICK p \in DOMAIN text :
        IsPin(text[p], h, k) /\ \A j \in 1..(p - 1) : ~IsFor(text[j], h)
  BY DEF PinIn
<1>2. text[p] \in Lines /\ text[i] \in Lines
  OBVIOUS
<1>3. p # i
  BY <1>1, <1>2, PinIsForOne
<1>4. i \in 1..Len(text) /\ p \in 1..Len(text) /\ Len(text) \in Nat
  OBVIOUS
<1>5. after \in Seq(Lines) /\ Len(after) = Len(text) - 1
      /\ \A j \in 1..(Len(text) - 1) :
            after[j] = IF j < i THEN text[j] ELSE text[j + 1]
  BY Removed
<1> DEFINE q == IF p < i THEN p ELSE p - 1
<1>6. q \in 1..Len(after) /\ after[q] = text[p]
  BY <1>3, <1>4, <1>5
<1>7. ASSUME NEW j \in 1..(q - 1) PROVE ~IsFor(after[j], h)
  <2>1. (IF j < i THEN j ELSE j + 1) \in 1..(p - 1) /\ j \in 1..(Len(text) - 1)
    BY <1>3, <1>4
  <2> QED BY <2>1, <1>1, <1>5
<1>8. q \in DOMAIN after
  BY <1>5, <1>6
<1> HIDE DEF q, after
<1>9. PinIn(after, h, k)
  BY <1>1, <1>6, <1>7, <1>8 DEF PinIn
<1> QED BY <1>9 DEF after

------------------------------------------------------------------------------
(* Types, and who holds the mutex *)

LEMMA PiecesType ==
    ASSUME NEW c \in Checks, key \in [Checks -> Keys]
    PROVE  /\ HostOf[c] \in Tokens /\ Blank \in Tokens /\ key[c] \in Tokens
           /\ Part \in Tokens
           /\ HostOf[c] # EndOfLine /\ Blank # EndOfLine /\ key[c] # EndOfLine
           /\ Part # EndOfLine
           /\ ProcessOf[c] \in Processes /\ HostOf[c] \in Hosts /\ c # None
BY KnownHostsAssumption DEF Tokens, Blank, Part, EndOfLine

\* A write before the last one lengthens the open line, and nothing else.
LEMMA WriteLengthens ==
    ASSUME NEW c \in Checks, TypeOK, Write(c)
    PROVE  /\ lines' = lines
           /\ written[c] \in 0..2
           /\ open' = Append(open, <<HostOf[c], Blank, key[c]>>[written[c] + 1])
           /\ <<HostOf[c], Blank, key[c]>>[written[c] + 1] \in Tokens
<1>1. written[c] \in 0..2
  BY DEF TypeOK, Write
<1>2. key \in [Checks -> Keys]
  BY DEF TypeOK
<1> DEFINE token == Pieces(c)[written[c] + 1]
<1>3. /\ token = <<HostOf[c], Blank, key[c]>>[written[c] + 1]
      /\ token \in Tokens /\ token # EndOfLine
  BY <1>1, <1>2, PiecesType DEF Pieces
<1>4. Put(token)
  BY DEF Write
<1> QED BY <1>1, <1>3, <1>4 DEF Put

\* Types, and that a check is in its append exactly while it holds the mutex.
LEMMA TypeStep == TypeOK /\ [Next]_vars => TypeOK'
<1> SUFFICES ASSUME TypeOK, [Next]_vars PROVE TypeOK'
  OBVIOUS
<1> USE DEF TypeOK
<1>1. ASSUME NEW c \in Checks, Compare(c) PROVE TypeOK'
  <2>1. key[c] \in Keys /\ HostOf[c] \in Hosts /\ ProcessOf[c] \in Processes /\ c # None
    BY KnownHostsAssumption
  <2>2. UNCHANGED <<lines, open, lock, key, written, calm, faults>> /\ pc[c] = "idle"
    BY <1>1 DEF Compare, file
  <2>3. /\ accepted' \in [Hosts -> SUBSET Keys]
        /\ \E e \in {"accepted", "refused"} : pc' = [pc EXCEPT ![c] = e]
    BY <1>1, <2>1 DEF Compare
  <2>4. \A d \in Checks : pc'[d] = "append" <=> pc[d] = "append"
    BY <2>2, <2>3
  <2> QED BY <2>2, <2>3, <2>4
<1>2. ASSUME NEW c \in Checks, BeginAppend(c), UNCHANGED <<file, key, written, accepted>>,
             faults' \in Nat, calm' \in BOOLEAN
      PROVE  TypeOK'
  <2>1. /\ ProcessOf \in [Checks -> Processes] /\ None \notin Checks
        /\ pc[c] = "idle" /\ lock[ProcessOf[c]] = None
        /\ pc' = [pc EXCEPT ![c] = "append"]
        /\ lock' = [lock EXCEPT ![ProcessOf[c]] = c]
    BY <1>2, KnownHostsAssumption DEF BeginAppend, Free
  <2>2. UNCHANGED <<lines, open, key, written, accepted>>
    BY <1>2 DEF file
  <2>3. \A d \in Checks : pc'[d] = "append" <=> lock'[ProcessOf[d]] = d
    BY <2>1
  <2> QED BY <1>2, <2>1, <2>2, <2>3
<1>3. ASSUME NEW c \in Checks, Write(c) PROVE TypeOK'
  <2> DEFINE token == <<HostOf[c], Blank, key[c]>>[written[c] + 1]
  <2>0. lines' = lines /\ written[c] \in 0..2 /\ token \in Tokens
        /\ open' = Append(open, token)
    BY <1>3, WriteLengthens
  <2> HIDE DEF token
  <2>1. open' \in Seq(Tokens) /\ lines' = lines /\ written[c] \in 0..2
    BY <2>0
  <2>2. written' = [written EXCEPT ![c] = @ + 1]
        /\ UNCHANGED <<lock, pc, key, accepted, calm, faults>>
    BY <1>3 DEF Write, history
  <2>3. written' \in [Checks -> 0..3]
    BY <2>1, <2>2
  <2> QED BY <2>1, <2>2, <2>3
<1>4. ASSUME NEW c \in Checks, pc[c] = "append", Release(c),
             \E e \in {"accepted", "refused"} : pc' = [pc EXCEPT ![c] = e],
             UNCHANGED <<key, written>>, lines' \in Seq(Lines), open' \in Seq(Tokens),
             accepted' \in [Hosts -> SUBSET Keys], calm' \in BOOLEAN, faults' \in Nat
      PROVE  TypeOK'
  <2>1. ProcessOf \in [Checks -> Processes] /\ None \notin Checks
        /\ lock' = [lock EXCEPT ![ProcessOf[c]] = None]
        /\ lock[ProcessOf[c]] = c
    BY <1>4, KnownHostsAssumption DEF Release
  <2>2. \A d \in Checks : pc'[d] = "append" <=> lock'[ProcessOf[d]] = d
    BY <1>4, <2>1
  <2> QED BY <1>4, <2>1, <2>2 DEF Lines
<1>5. ASSUME NEW c \in Checks, WriteLast(c) PROVE TypeOK'
  <2>1. lines' \in Seq(Lines) /\ open' \in Seq(Tokens)
    <3>1. lines' = Append(lines, open) /\ open' = <<>>
      BY <1>5 DEF WriteLast, Put
    <3> QED BY <3>1 DEF Lines
  <2>2. HostOf[c] \in Hosts /\ key[c] \in Keys
    BY KnownHostsAssumption
  <2>3. accepted' \in [Hosts -> SUBSET Keys]
    BY <1>5, <2>2 DEF WriteLast
  <2> QED BY <1>4, <1>5, <2>1, <2>3 DEF WriteLast
<1>6. ASSUME NEW c \in Checks, OpenFails(c) PROVE TypeOK'
  <2>1. UNCHANGED <<lines, open, accepted, calm, faults>>
    BY <1>6 DEF OpenFails, AfterFailure, file
  <2> QED BY <1>4, <1>6, <2>1 DEF OpenFails, AfterFailure, Lines
<1>7. ASSUME NEW c \in Checks, WriteFails(c) PROVE TypeOK'
  <2>1. Part \in Tokens /\ Part # EndOfLine
    BY PiecesType
  <2>2. lines' \in Seq(Lines) /\ open' \in Seq(Tokens)
    <3>1. UNCHANGED file \/ Put(Part)
      BY <1>7 DEF WriteFails
    <3>2. CASE UNCHANGED file
      BY <3>2 DEF file, Lines
    <3>3. CASE Put(Part)
      <4>1. open' = Append(open, Part) /\ lines' = lines
        BY <3>3, <2>1 DEF Put
      <4> QED BY <4>1, <2>1 DEF Lines
    <3> QED BY <3>1, <3>2, <3>3
  <2>3. faults' \in Nat /\ UNCHANGED accepted
    BY <1>7 DEF WriteFails, AfterFailure
  <2>4. calm' \in BOOLEAN
    BY <1>7 DEF WriteFails
  <2> QED BY <1>4, <1>7, <2>2, <2>3, <2>4 DEF WriteFails, AfterFailure
<1>8. ASSUME NEW p \in Processes, Crash(p) PROVE TypeOK'
  <2> DEFINE dead == {c \in Appending : ProcessOf[c] = p}
  <2>1. /\ ProcessOf \in [Checks -> Processes] /\ None \notin Checks
        /\ pc' = [c \in Checks |-> IF c \in dead THEN "refused" ELSE pc[c]]
        /\ lock' = [lock EXCEPT ![p] = None]
        /\ UNCHANGED <<lines, open, key, written, accepted>>
    BY <1>8, KnownHostsAssumption DEF Crash, file
  <2>2. faults' \in Nat
    BY <1>8 DEF Crash
  <2>3. calm' \in BOOLEAN
    BY <1>8 DEF Crash
  <2>4. \A d \in Checks : pc'[d] = "append" <=> lock'[ProcessOf[d]] = d
    BY <2>1 DEF Appending
  <2> QED BY <2>1, <2>2, <2>3, <2>4
<1>9. ASSUME NEW h \in Hosts, Forget(h) PROVE TypeOK'
  <2>1. lines' \in Seq(Lines)
    BY <1>9, Removed DEF Forget, Lines
  <2>2. accepted' \in [Hosts -> SUBSET Keys] /\ faults' \in Nat
    BY <1>9 DEF Forget
  <2> QED BY <1>9, <2>1, <2>2 DEF Forget, Lines
<1>10. CASE UNCHANGED vars
  BY <1>10 DEF vars, file, history
<1>11. ASSUME NEW c \in Checks, FirstUse(c) PROVE TypeOK'
  <2>1. calm' \in BOOLEAN /\ faults' \in Nat
    BY <1>11 DEF FirstUse
  <2> QED BY <1>2, <1>11, <2>1 DEF FirstUse
<1>12. ASSUME NEW c \in Checks, FirstUseBlind(c) PROVE TypeOK'
  <2>1. calm' \in BOOLEAN
    BY <1>12 DEF FirstUseBlind
  <2>2. faults' \in Nat
    BY <1>12 DEF FirstUseBlind
  <2> QED BY <1>2, <1>12, <2>1, <2>2 DEF FirstUseBlind
<1> QED
  BY <1>1, <1>3, <1>5, <1>6, <1>7, <1>8, <1>9, <1>10, <1>11, <1>12 DEF Next

\* Types, and that a check is in its append exactly while it holds the mutex of
\* its process.
THEOREM TypeCorrect == Spec => []TypeOK
<1>1. Init => TypeOK
  BY KnownHostsAssumption DEF Init, TypeOK
<1> QED BY <1>1, TypeStep, PTL DEF Spec

------------------------------------------------------------------------------
(* A complete pin stays *)

\* The steps that the file is changed by, as the readers of known_hosts see
\* them: a line is completed, or the operator deletes one.
LEMMA FileStep ==
    ASSUME TypeOK, [Next]_vars
    PROVE  \/ UNCHANGED lines
           \/ lines' = Append(lines, open)
           \/ \E g \in Hosts : Forget(g)
<1>1. ASSUME NEW c \in Checks, Write(c) PROVE UNCHANGED lines
  BY <1>1, WriteLengthens
<1>2. ASSUME NEW c \in Checks, WriteFails(c) PROVE UNCHANGED lines
  BY <1>2, PiecesType DEF WriteFails, Put, file, TypeOK
<1>3. ASSUME NEW c \in Checks, WriteLast(c) PROVE lines' = Append(lines, open)
  BY <1>3 DEF WriteLast, Put
<1>4. CASE UNCHANGED vars
  BY <1>4 DEF vars, file
<1>5. ASSUME NEW c \in Checks,
             Compare(c) \/ FirstUse(c) \/ FirstUseBlind(c) \/ OpenFails(c)
      PROVE  UNCHANGED lines
  BY <1>5 DEF Compare, FirstUse, FirstUseBlind, OpenFails, file
<1>6. ASSUME NEW p \in Processes, Crash(p) PROVE UNCHANGED lines
  BY <1>6 DEF Crash, file
<1> QED BY <1>1, <1>2, <1>3, <1>4, <1>5, <1>6 DEF Next

\* Torn appends, appends of other processes, files that cannot be read and
\* processes that die never take a complete pin out of force.
THEOREM PinsStay == Spec => CompletePinStays
<1> DEFINE Stays == \A h \in Hosts, k \in Keys :
                       PinIn(lines, h, k) => PinIn(lines', h, k) \/ Forget(h)
<1>1. TypeOK /\ [Next]_vars => Stays
  <2> SUFFICES ASSUME TypeOK, [Next]_vars, NEW h \in Hosts, NEW k \in Keys,
                      PinIn(lines, h, k), ~Forget(h)
               PROVE  PinIn(lines', h, k)
    OBVIOUS
  <2>1. lines \in Seq(Lines)
    BY DEF TypeOK, Lines
  <2>2. CASE UNCHANGED lines
    BY <2>2
  <2>3. CASE lines' = Append(lines, open)
    BY <2>1, <2>3, PinStaysBefore
  <2>4. ASSUME NEW g \in Hosts, Forget(g) PROVE PinIn(lines', h, k)
    <3>1. PICK i \in DOMAIN lines :
            IsFor(lines[i], g) /\ lines' = RemoveAt(lines, i)
      BY <2>4 DEF Forget
    <3>2. g # h
      BY <2>4
    <3> QED BY <2>1, <3>1, <3>2, PinStaysRemoved
  <2> QED BY <2>2, <2>3, <2>4, FileStep
<1>2. TypeOK /\ [Next]_vars => [Stays]_vars
  BY <1>1
<1> QED BY <1>2, TypeCorrect, PTL DEF Spec, CompletePinStays

------------------------------------------------------------------------------
(* While nothing tears or overlaps, accepted keys are pinned *)

\* What c has written of its line is all that is open.
OpenIsOf(c) ==
    /\ Len(open) = written[c]
    /\ \A i \in 1..written[c] : open[i] = <<HostOf[c], Blank, key[c]>>[i]

\* c's line is whole but for its end.
Saying(c, h, k) == pc[c] = "append" /\ written[c] = 3 /\ HostOf[c] = h /\ key[c] = k

OneWriter == \A c, d \in Appending : c = d
NoneOpen == Appending = {} => open = <<>>
WriterFirst ==
    \A c \in Appending :
        OpenIsOf(c) /\ \A i \in DOMAIN lines : ~IsFor(lines[i], HostOf[c])
AcceptedSaid ==
    \A h \in Hosts : \A k \in accepted[h] :
        PinIn(lines, h, k) \/ \E c \in Checks : Saying(c, h, k)

Tidy == OneWriter /\ NoneOpen /\ WriterFirst /\ AcceptedSaid
IdleUnwritten == \A c \in Checks : pc[c] = "idle" => written[c] = 0

Inv == TypeOK /\ IdleUnwritten /\ (calm => Tidy)

\* A pin that a reader finds is in a complete line, or in the one being written.
LEMMA FoundIsSaid ==
    ASSUME TypeOK, Tidy, NEW h \in Hosts, NEW k \in Keys, PinIn(Content, h, k)
    PROVE  PinIn(lines, h, k) \/ \E c \in Checks : Saying(c, h, k)
<1>0. lines \in Seq(Lines) /\ open \in Lines
  BY DEF TypeOK, Lines
<1>1. CASE open = <<>>
  BY <1>1 DEF Content
<1>2. CASE open # <<>>
  <2>1. Content = Append(lines, open)
    BY <1>2 DEF Content
  <2>2. PICK i \in DOMAIN Content :
          IsPin(Content[i], h, k) /\ \A j \in 1..(i - 1) : ~IsFor(Content[j], h)
    BY DEF PinIn
  <2>3. CASE i \in DOMAIN lines
    <3>1. Content[i] = lines[i] /\ \A j \in 1..(i - 1) : Content[j] = lines[j]
      BY <1>0, <2>1, <2>3
    <3> QED BY <2>2, <2>3, <3>1 DEF PinIn
  <2>4. CASE i \notin DOMAIN lines
    <3>1. Content[i] = open
      BY <1>0, <2>1, <2>4
    <3>2. PICK c \in Appending : OpenIsOf(c)
      BY <1>2 DEF Tidy, NoneOpen, WriterFirst
    <3>3. c \in Checks /\ pc[c] = "append" /\ written[c] \in 0..3
      BY <3>2 DEF Appending, TypeOK
    <3>4. Len(open) = written[c]
      BY <3>2 DEF OpenIsOf
    <3>5. Len(open) = 3 /\ open[1] = h /\ open[3] = k
      BY <1>0, <2>2, <3>1, <3>3, <3>4, OnlyWrittenIsPin
    <3>6. open[1] = HostOf[c] /\ open[3] = key[c]
      BY <3>2, <3>4, <3>5 DEF OpenIsOf
    <3> QED BY <3>3, <3>4, <3>5, <3>6 DEF Saying
  <2> QED BY <2>3, <2>4
<1> QED BY <1>1, <1>2

\* The line being written is its host's first pin once it is whole.
LEMMA SaidIsPin ==
    ASSUME TypeOK, Tidy, NEW c \in Checks, NEW h \in Hosts, NEW k \in Keys,
           Saying(c, h, k)
    PROVE  open # <<>> /\ PinIn(Append(lines, open), h, k)
<1>1. lines \in Seq(Lines) /\ open \in Lines
  BY DEF TypeOK, Lines
<1>2. c \in Appending /\ written[c] = 3 /\ HostOf[c] = h /\ key[c] = k
  BY DEF Saying, Appending
<1>3. OpenIsOf(c) /\ \A i \in DOMAIN lines : ~IsFor(lines[i], h)
  BY <1>2 DEF Tidy, WriterFirst
<1>4. Len(open) = 3 /\ open[1] = h /\ open[2] = Blank /\ open[3] = k
  BY <1>2, <1>3 DEF OpenIsOf
<1>5. IsPin(open, h, k)
  BY <1>1, <1>4, WrittenIsPin
<1> QED BY <1>1, <1>3, <1>4, <1>5, FirstPin

\* The accepted keys are then where every later reader finds them.
LEMMA TidyIsPinned ==
    ASSUME TypeOK, Tidy, NEW h \in Hosts, NEW k \in accepted[h]
    PROVE  PinIn(Content, h, k)
<1>1. lines \in Seq(Lines) /\ k \in Keys
  BY DEF TypeOK, Lines
<1>2. CASE PinIn(lines, h, k)
  BY <1>1, <1>2, PinStaysBefore DEF Content
<1>3. CASE \E c \in Checks : Saying(c, h, k)
  BY <1>1, <1>3, SaidIsPin DEF Content
<1> QED BY <1>2, <1>3 DEF Tidy, AcceptedSaid

\* Checks that find the mutex free, with the file calm, find no append begun.
LEMMA CalmFirstUse ==
    ASSUME TypeOK, NEW c \in Checks, FirstUse(c), calm'
    PROVE  Appending = {}
<1>1. lock[ProcessOf[c]] = None
  BY DEF FirstUse, BeginAppend, Free
<1>2. \A d \in Appending : ProcessOf[d] = ProcessOf[c]
  BY DEF FirstUse
<1>3. \A d \in Appending : d \in Checks /\ lock[ProcessOf[d]] = d
  BY DEF Appending, TypeOK
<1> QED BY <1>1, <1>2, <1>3, KnownHostsAssumption

LEMMA UnwrittenStep == Inv /\ [Next]_vars => IdleUnwritten'
<1> SUFFICES ASSUME Inv, [Next]_vars PROVE IdleUnwritten'
  OBVIOUS
<1>0. pc \in [Checks -> {"idle", "append", "accepted", "refused"}]
      /\ written \in [Checks -> 0..3] /\ \A c \in Checks : pc[c] = "idle" => written[c] = 0
  BY DEF Inv, TypeOK, IdleUnwritten
<1>1. ASSUME NEW c \in Checks, Write(c) PROVE IdleUnwritten'
  <2>1. pc[c] = "append" /\ pc' = pc /\ written' = [written EXCEPT ![c] = @ + 1]
    BY <1>1 DEF Write
  <2> QED BY <1>0, <2>1 DEF IdleUnwritten
<1>2. CASE UNCHANGED <<pc, written>>
  BY <1>0, <1>2 DEF IdleUnwritten
<1>3. ASSUME NEW c \in Checks, NEW e \in {"append", "accepted", "refused"},
             pc' = [pc EXCEPT ![c] = e], written' = written
      PROVE  IdleUnwritten'
  BY <1>0, <1>3 DEF IdleUnwritten
<1>4. ASSUME NEW c \in Checks,
             \/ Compare(c) \/ FirstUse(c) \/ FirstUseBlind(c)
             \/ WriteLast(c) \/ OpenFails(c) \/ WriteFails(c)
      PROVE  IdleUnwritten'
  <2>1. \E e \in {"append", "accepted", "refused"} :
           pc' = [pc EXCEPT ![c] = e] /\ written' = written
    BY <1>4 DEF Compare, FirstUse, FirstUseBlind, BeginAppend, WriteLast,
               OpenFails, WriteFails, AfterFailure
  <2> QED BY <1>3, <2>1
<1>5. ASSUME NEW p \in Processes, Crash(p) PROVE IdleUnwritten'
  BY <1>0, <1>5 DEF Crash, IdleUnwritten
<1>6. CASE UNCHANGED vars
  BY <1>2, <1>6 DEF vars
<1>7. ASSUME NEW h \in Hosts, Forget(h) PROVE IdleUnwritten'
  BY <1>2, <1>7 DEF Forget
<1> QED BY <1>1, <1>4, <1>5, <1>6, <1>7 DEF Next

\* Steps that leave the file and the appends alone.
LEMMA QuietStep ==
    ASSUME TypeOK, Tidy, Appending' = Appending,
           UNCHANGED <<lines, open, key>>,
           \A c \in Appending : pc'[c] = pc[c] /\ written'[c] = written[c],
           \A h \in Hosts : \A k \in accepted'[h] :
               k \in accepted[h] \/ (PinIn(Content, h, k) /\ k \in Keys)
    PROVE  Tidy'
<1>1. OneWriter' /\ NoneOpen'
  BY DEF Tidy, OneWriter, NoneOpen
<1>2. WriterFirst'
  BY DEF Tidy, WriterFirst, OpenIsOf
<1>3. ASSUME NEW h \in Hosts, NEW k \in accepted'[h]
      PROVE  PinIn(lines, h, k) \/ \E c \in Checks : Saying(c, h, k)
  BY <1>3, FoundIsSaid DEF Tidy, AcceptedSaid
<1>4. \A c \in Checks, h \in Hosts : \A k : Saying(c, h, k) => Saying(c, h, k)'
  BY DEF Saying, Appending
<1>5. AcceptedSaid'
  BY <1>3, <1>4 DEF AcceptedSaid
<1> QED BY <1>1, <1>2, <1>5 DEF Tidy

LEMMA BeginKeepsTidy ==
    ASSUME TypeOK, IdleUnwritten, Tidy, NEW c \in Checks, FirstUse(c), calm'
    PROVE  Tidy'
<1>1. Appending = {}
  BY CalmFirstUse
<1>2. /\ UNCHANGED <<lines, open, key, written, accepted>>
      /\ pc[c] = "idle" /\ pc' = [pc EXCEPT ![c] = "append"]
  BY DEF FirstUse, BeginAppend, file
<1>3. Appending' = {c}
  BY <1>1, <1>2 DEF Appending, TypeOK
<1>4. open = <<>> /\ written[c] = 0
  BY <1>1, <1>2 DEF Tidy, NoneOpen, IdleUnwritten
<1>5. OpenIsOf(c)'
  BY <1>2, <1>4 DEF OpenIsOf
<1>6. Content = lines
  BY <1>4 DEF Content
<1>7. \A i \in DOMAIN lines : ~IsFor(lines[i], HostOf[c])
  BY <1>6 DEF FirstUse, Known
<1>8. OneWriter' /\ NoneOpen' /\ WriterFirst'
  BY <1>2, <1>3, <1>5, <1>7 DEF OneWriter, NoneOpen, WriterFirst
<1>9. \A d \in Checks, h \in Hosts : \A k : ~Saying(d, h, k)
  BY <1>1 DEF Saying, Appending
<1>10. AcceptedSaid'
  BY <1>2, <1>9 DEF Tidy, AcceptedSaid
<1> QED BY <1>8, <1>10 DEF Tidy

LEMMA WriteKeepsTidy ==
    ASSUME TypeOK, Tidy, NEW c \in Checks, Write(c)
    PROVE  Tidy'
<1> DEFINE token == <<HostOf[c], Blank, key[c]>>[written[c] + 1]
<1>1. /\ lines' = lines /\ written[c] \in 0..2
      /\ open' = Append(open, token) /\ open \in Seq(Tokens)
  BY WriteLengthens DEF TypeOK
<1>2. /\ pc[c] = "append" /\ UNCHANGED <<pc, key, accepted>>
      /\ written' = [written EXCEPT ![c] = @ + 1] /\ written \in [Checks -> 0..3]
  BY DEF Write, history, TypeOK
<1>3. c \in Appending /\ Appending' = Appending
  BY <1>2 DEF Appending
<1>4. \A d \in Appending : d = c
  BY <1>3 DEF Tidy, OneWriter
<1>5. OpenIsOf(c) /\ \A i \in DOMAIN lines : ~IsFor(lines[i], HostOf[c])
  BY <1>3 DEF Tidy, WriterFirst
<1>6. OpenIsOf(c)'
  <2>1. written'[c] = written[c] + 1 /\ Len(open') = written[c] + 1
    BY <1>1, <1>2, <1>5 DEF OpenIsOf
  <2>2. open'[written[c] + 1] = token
    BY <1>1, <1>5 DEF OpenIsOf
  <2>3. \A i \in 1..written[c] : open'[i] = <<HostOf[c], Blank, key[c]>>[i]
    BY <1>1, <1>5 DEF OpenIsOf
  <2>4. \A i \in 1..(written[c] + 1) : i = written[c] + 1 \/ i \in 1..written[c]
    BY <1>1
  <2>5. \A i \in 1..(written[c] + 1) : open'[i] = <<HostOf[c], Blank, key[c]>>[i]
    BY <2>2, <2>3, <2>4
  <2> QED BY <1>2, <2>1, <2>5 DEF OpenIsOf
<1>7. OneWriter' /\ NoneOpen'
  BY <1>3, <1>4 DEF OneWriter, NoneOpen
<1>8. WriterFirst'
  BY <1>1, <1>3, <1>4, <1>5, <1>6 DEF WriterFirst
<1>9. \A d \in Checks, h \in Hosts : \A k : ~Saying(d, h, k)
  BY <1>1, <1>4 DEF Saying, Appending
<1>10. AcceptedSaid'
  BY <1>1, <1>2, <1>9 DEF Tidy, AcceptedSaid
<1> QED BY <1>7, <1>8, <1>10 DEF Tidy

LEMMA LastKeepsTidy ==
    ASSUME TypeOK, Tidy, NEW c \in Checks, WriteLast(c)
    PROVE  Tidy'
<1>0. /\ pc[c] = "append" /\ written[c] = 3 /\ pc' = [pc EXCEPT ![c] = "accepted"]
      /\ lines' = Append(lines, open) /\ open' = <<>>
      /\ accepted' = [accepted EXCEPT ![HostOf[c]] = @ \cup {key[c]}]
  BY DEF WriteLast, Put
<1>1. /\ lines \in Seq(Lines) /\ HostOf[c] \in Hosts /\ key[c] \in Keys
      /\ accepted \in [Hosts -> SUBSET Keys]
  BY KnownHostsAssumption DEF TypeOK, Lines
<1>2. c \in Appending
  BY <1>0 DEF Appending
<1>3. \A d \in Appending : d = c
  BY <1>2 DEF Tidy, OneWriter
<1>4. Appending' = {}
  BY <1>0, <1>3 DEF Appending, TypeOK
<1>5. Saying(c, HostOf[c], key[c])
  BY <1>0 DEF Saying
<1>6. PinIn(Append(lines, open), HostOf[c], key[c])
  BY <1>1, <1>5, SaidIsPin
<1>7. ASSUME NEW h \in Hosts, NEW k \in accepted[h] PROVE PinIn(Append(lines, open), h, k)
  <2>1. CASE PinIn(lines, h, k)
    BY <1>1, <2>1, PinStaysBefore
  <2>2. CASE \E d \in Checks : Saying(d, h, k)
    BY <1>1, <2>2, SaidIsPin
  <2> QED BY <2>1, <2>2 DEF Tidy, AcceptedSaid
<1>8. \A h \in Hosts : \A k \in accepted'[h] :
         k \in accepted[h] \/ (h = HostOf[c] /\ k = key[c])
  BY <1>0, <1>1
<1>9. AcceptedSaid'
  BY <1>0, <1>6, <1>7, <1>8 DEF AcceptedSaid
<1>10. OneWriter' /\ NoneOpen' /\ WriterFirst'
  BY <1>0, <1>4 DEF OneWriter, NoneOpen, WriterFirst
<1> QED BY <1>9, <1>10 DEF Tidy

\* An append that ends before its first write leaves nothing open.
LEMMA LeaveKeepsTidy ==
    ASSUME TypeOK, Tidy, NEW c \in Appending, written[c] = 0,
           UNCHANGED <<lines, open, accepted>>, Appending' = {}
    PROVE  Tidy'
<1>1. \A d \in Appending : d = c
  BY DEF Tidy, OneWriter
<1>2. OpenIsOf(c) /\ open \in Seq(Tokens)
  BY DEF Tidy, WriterFirst, TypeOK
<1>3. open = <<>>
  BY <1>2 DEF OpenIsOf
<1>4. \A d \in Checks, h \in Hosts : \A k : ~Saying(d, h, k)
  BY <1>1 DEF Saying, Appending
<1>5. AcceptedSaid'
  BY <1>4 DEF Tidy, AcceptedSaid
<1>6. OneWriter' /\ NoneOpen' /\ WriterFirst'
  BY <1>3 DEF OneWriter, NoneOpen, WriterFirst
<1> QED BY <1>5, <1>6 DEF Tidy

LEMMA ForgetKeepsTidy ==
    ASSUME TypeOK, Tidy, NEW g \in Hosts, Forget(g)
    PROVE  Tidy'
<1>0. lines \in Seq(Lines) /\ accepted \in [Hosts -> SUBSET Keys]
  BY DEF TypeOK, Lines
<1>1. UNCHANGED <<open, pc, key, written>>
      /\ accepted' = [accepted EXCEPT ![g] = {}]
  BY DEF Forget
<1>2. PICK i \in DOMAIN lines : IsFor(lines[i], g) /\ lines' = RemoveAt(lines, i)
  BY DEF Forget
<1>3. lines' \in Seq(Lines) /\ \A j \in DOMAIN lines' : \E m \in DOMAIN lines : lines'[j] = lines[m]
  <2>1. /\ lines' \in Seq(Lines) /\ Len(lines') = Len(lines) - 1
        /\ \A j \in 1..(Len(lines) - 1) :
              lines'[j] = IF j < i THEN lines[j] ELSE lines[j + 1]
    BY <1>0, <1>2, Removed
  <2>2. ASSUME NEW j \in DOMAIN lines' PROVE \E m \in DOMAIN lines : lines'[j] = lines[m]
    <3>1. j \in 1..(Len(lines) - 1) /\ Len(lines) \in Nat
      BY <1>0, <2>1
    <3>2. (IF j < i THEN j ELSE j + 1) \in DOMAIN lines
      BY <1>0, <3>1
    <3> QED BY <2>1, <3>1, <3>2
  <2> QED BY <2>1, <2>2
<1>4. Appending' = Appending
  BY <1>1 DEF Appending
<1>5. OneWriter' /\ NoneOpen'
  BY <1>1, <1>4 DEF Tidy, OneWriter, NoneOpen
<1>6. WriterFirst'
  BY <1>1, <1>3, <1>4 DEF Tidy, WriterFirst, OpenIsOf
<1>7. ASSUME NEW h \in Hosts, NEW k \in accepted'[h]
      PROVE  PinIn(lines', h, k) \/ \E c \in Checks : Saying(c, h, k)'
  <2>1. h # g /\ k \in accepted[h]
    BY <1>0, <1>1, <1>7
  <2>2. CASE PinIn(lines, h, k)
    BY <1>0, <1>2, <2>1, <2>2, PinStaysRemoved
  <2>3. CASE \E c \in Checks : Saying(c, h, k)
    BY <1>1, <2>3 DEF Saying
  <2> QED BY <2>1, <2>2, <2>3 DEF Tidy, AcceptedSaid
<1> QED BY <1>5, <1>6, <1>7 DEF Tidy, AcceptedSaid

LEMMA TidyStep ==
    ASSUME Inv, [Next]_vars, calm'
    PROVE  calm /\ Tidy'
<1>0. TypeOK /\ IdleUnwritten /\ (calm => Tidy) /\ calm \in BOOLEAN
  BY DEF Inv, TypeOK
<1>1. ASSUME NEW c \in Checks, Compare(c) PROVE calm /\ Tidy'
  <2>1. /\ pc[c] = "idle" /\ UNCHANGED <<lines, open, key, written, calm>>
        /\ \E e \in {"accepted", "refused"} : pc' = [pc EXCEPT ![c] = e]
    BY <1>1 DEF Compare, file
  <2>2. Appending' = Appending /\ c \notin Appending
    BY <1>0, <2>1 DEF Appending, TypeOK
  <2>3. \A d \in Appending : pc'[d] = pc[d] /\ written'[d] = written[d]
    BY <1>0, <2>1, <2>2 DEF Appending, TypeOK
  <2>4. \A h \in Hosts : \A k \in accepted'[h] :
           k \in accepted[h] \/ (PinIn(Content, h, k) /\ k \in Keys)
    <3>1. key[c] \in Keys /\ accepted \in [Hosts -> SUBSET Keys]
      BY <1>0 DEF TypeOK
    <3>2. CASE PinIn(Content, HostOf[c], key[c])
      BY <1>1, <3>1, <3>2 DEF Compare
    <3>3. CASE ~PinIn(Content, HostOf[c], key[c])
      <4>1. accepted' = accepted
        BY <1>1, <3>3 DEF Compare
      <4> QED BY <4>1
    <3> QED BY <3>2, <3>3
  <2> QED BY <1>0, <2>1, <2>2, <2>3, <2>4, QuietStep
<1>2. ASSUME NEW c \in Checks, FirstUse(c) PROVE calm /\ Tidy'
  <2>1. calm
    BY <1>2 DEF FirstUse
  <2> QED BY <1>0, <1>2, <2>1, BeginKeepsTidy
<1>3. ASSUME NEW c \in Checks, FirstUseBlind(c) PROVE FALSE
  BY <1>3 DEF FirstUseBlind
<1>4. ASSUME NEW c \in Checks, Write(c) PROVE calm /\ Tidy'
  <2>1. calm
    BY <1>4 DEF Write, history
  <2> QED BY <1>0, <1>4, <2>1, WriteKeepsTidy
<1>5. ASSUME NEW c \in Checks, WriteLast(c) PROVE calm /\ Tidy'
  <2>1. calm
    BY <1>5 DEF WriteLast
  <2> QED BY <1>0, <1>5, <2>1, LastKeepsTidy
<1>6. ASSUME NEW c \in Checks, OpenFails(c) \/ WriteFails(c) PROVE calm /\ Tidy'
  <2>1. /\ pc[c] = "append" /\ pc' = [pc EXCEPT ![c] = "refused"]
        /\ UNCHANGED accepted
    BY <1>6 DEF OpenFails, WriteFails, AfterFailure
  <2>2. calm /\ written[c] = 0 /\ UNCHANGED <<lines, open>>
    BY <1>6 DEF OpenFails, WriteFails, file
  <2>3. c \in Appending
    BY <2>1 DEF Appending
  <2>4. \A d \in Appending : d = c
    BY <1>0, <2>2, <2>3 DEF Tidy, OneWriter
  <2>5. Appending' = {}
    BY <1>0, <2>1, <2>4 DEF Appending, TypeOK
  <2> QED BY <1>0, <2>1, <2>2, <2>3, <2>5, LeaveKeepsTidy
<1>7. ASSUME NEW p \in Processes, Crash(p) PROVE calm /\ Tidy'
  <2> DEFINE dead == {c \in Appending : ProcessOf[c] = p}
  <2>1. /\ pc' = [c \in Checks |-> IF c \in dead THEN "refused" ELSE pc[c]]
        /\ UNCHANGED <<lines, open, key, written, accepted>>
        /\ calm /\ \A c \in dead : written[c] = 0
    BY <1>7 DEF Crash, file
  <2>2. CASE dead = {}
    <3>1. pc' = pc
      BY <1>0, <2>1, <2>2 DEF TypeOK
    <3>2. Appending' = Appending
      BY <3>1 DEF Appending
    <3>3. \A c \in Appending : pc'[c] = pc[c] /\ written'[c] = written[c]
      BY <2>1, <3>1
    <3>4. \A h \in Hosts : \A k \in accepted'[h] :
             k \in accepted[h] \/ (PinIn(Content, h, k) /\ k \in Keys)
      BY <2>1
    <3> QED BY <1>0, <2>1, <3>2, <3>3, <3>4, QuietStep
  <2>3. CASE dead # {}
    <3>1. PICK c \in Appending : c \in dead
      BY <2>3
    <3>2. \A d \in Appending : d = c
      BY <1>0, <2>1 DEF Tidy, OneWriter
    <3>3. Appending' = {}
      BY <2>1, <3>1, <3>2 DEF Appending
    <3> QED BY <1>0, <2>1, <3>1, <3>3, LeaveKeepsTidy
  <2> QED BY <2>2, <2>3
<1>8. ASSUME NEW g \in Hosts, Forget(g) PROVE calm /\ Tidy'
  <2>1. calm
    BY <1>8 DEF Forget
  <2> QED BY <1>0, <1>8, <2>1, ForgetKeepsTidy
<1>9. CASE UNCHANGED vars
  <2>1. UNCHANGED <<lines, open, pc, key, written, accepted, calm>>
    BY <1>9 DEF vars, file, history
  <2>2. Appending' = Appending /\ \A c \in Appending : pc'[c] = pc[c] /\ written'[c] = written[c]
    BY <2>1 DEF Appending
  <2>3. \A h \in Hosts : \A k \in accepted'[h] :
           k \in accepted[h] \/ (PinIn(Content, h, k) /\ k \in Keys)
    BY <2>1
  <2> QED BY <1>0, <2>1, <2>2, <2>3, QuietStep
<1> QED BY <1>1, <1>2, <1>3, <1>4, <1>5, <1>6, <1>7, <1>8, <1>9 DEF Next

\* While the file can be read and no append tears or overlaps one of another
\* process, the key of every accepted connection is the one in force: first
\* connections at once, however many, end with one key.
THEOREM AcceptedPinned == Spec => []AcceptedIsPinned
<1>1. Init => Inv
  <2>1. Init => TypeOK
    BY KnownHostsAssumption DEF Init, TypeOK
  <2>2. Init => IdleUnwritten /\ Tidy
    BY DEF Init, IdleUnwritten, Tidy, OneWriter, NoneOpen, WriterFirst,
           AcceptedSaid, Appending
  <2> QED BY <2>1, <2>2 DEF Inv
<1>2. Inv /\ [Next]_vars => Inv'
  <2> SUFFICES ASSUME Inv, [Next]_vars PROVE Inv'
    OBVIOUS
  <2>1. TypeOK'
    BY TypeStep DEF Inv
  <2>2. IdleUnwritten'
    BY UnwrittenStep
  <2>3. calm' => Tidy'
    BY TidyStep
  <2> QED BY <2>1, <2>2, <2>3 DEF Inv
<1>3. Inv => AcceptedIsPinned
  BY TidyIsPinned DEF Inv, AcceptedIsPinned
<1> QED BY <1>1, <1>2, <1>3, PTL DEF Spec
=============================================================================
