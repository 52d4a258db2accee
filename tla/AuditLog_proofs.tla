-------------------------- MODULE AuditLog_proofs --------------------------
(***************************************************************************)
(* TLAPS proofs about AuditLog: types, the mark of a chain's beginning for *)
(* any number of servers, and the linked chain for a server that has the   *)
(* file to itself.                                                         *)
(***************************************************************************)
EXTENDS AuditLog, TLAPS

\* What an append does to the file, for a line that is an entry or garbage.
LEMMA AppendTyped ==
    ASSUME TypeOK, NEW line \in Lines, AppendBytes(line),
           unterminated => file # <<>>
    PROVE  /\ file' \in Seq(Lines)
           /\ file' # <<>>
           /\ unterminated =>
                /\ Len(file') = Len(file)
                /\ \A i \in 1..(Len(file) - 1) : file'[i] = file[i]
                /\ ~file'[Len(file')].parses
           /\ ~unterminated =>
                /\ Len(file') = Len(file) + 1
                /\ \A i \in 1..Len(file) : file'[i] = file[i]
                /\ file'[Len(file')] = line
<1>1. file \in Seq(Lines) /\ Len(file) \in Nat
  BY DEF TypeOK
<1>2. CASE unterminated
  <2> DEFINE n == Len(file)
             last == Broken(file[n].long \/ line.long, file[n].wide \/ line.wide)
  <2>1. file' = [file EXCEPT ![n] = last] /\ n \in 1..n
    BY <1>1, <1>2 DEF AppendBytes
  <2>2. last \in Garbage /\ ~last.parses
    BY DEF Broken, Garbage
  <2>3. last \in Lines
    BY <2>2 DEF Lines
  <2> HIDE DEF last
  <2>4. file' \in Seq(Lines) /\ Len(file') = n
    BY <1>1, <2>1, <2>3
  <2>5. file'[n] = last /\ \A i \in 1..(n - 1) : file'[i] = file[i]
    BY <1>1, <2>1
  <2>6. file' # <<>>
    BY <2>1, <2>4
  <2> QED
    BY <1>2, <2>2, <2>4, <2>5, <2>6
<1>3. CASE ~unterminated
  <2>1. file' = Append(file, line)
    BY <1>3 DEF AppendBytes
  <2> QED
    BY <1>1, <1>3, <2>1
<1> QED
  BY <1>2, <1>3

LEMMA EntryTyped ==
    ASSUME TypeOK, NEW s \in Servers, NEW long \in BOOLEAN, NEW wide \in BOOLEAN
    PROVE  /\ Entry(s, long, wide) \in Lines
           /\ Entry(s, long, wide).parses
           /\ Entry(s, long, wide).hash = records + 1
           /\ Entry(s, long, wide).prev = lastHash[s]
           /\ Entry(s, long, wide).restart = (s \in freshChain)
BY DEF Entry, Entries, Lines, TypeOK, GENESIS

LEMMA BrokenTyped ==
    ASSUME NEW long \in BOOLEAN, NEW wide \in BOOLEAN
    PROVE  Broken(long, wide) \in Lines /\ ~Broken(long, wide).parses
BY DEF Broken, Garbage, Lines

\* Types; the line without a newline is a line of the file; and a running
\* server starts from GENESIS exactly when it is to mark a new chain.
Typed ==
    /\ TypeOK
    /\ unterminated => file # <<>>
    /\ \A s \in up : lastHash[s] = GENESIS <=> s \in freshChain

\* The link between two neighbouring lines.
Linked(a, b) == a.parses /\ b.parses => b.prev = a.hash \/ b.restart

\* A line that some running server may append, or a broken one.
Appendable(line) ==
    /\ line \in Lines
    /\ line.parses => \E s \in up :
          /\ line.prev = lastHash[s]
          /\ line.restart = (s \in freshChain)

LEMMA PartialAppends ==
    ASSUME Typed, NEW s \in up, PartialAppend(s)
    PROVE  \/ UNCHANGED <<file, unterminated>>
           \/ /\ unterminated'
              /\ \E line : Appendable(line) /\ AppendBytes(line)
<1>1. s \in Servers
  BY DEF Typed, TypeOK
<1>2. ASSUME NEW long \in BOOLEAN, NEW wide \in BOOLEAN
      PROVE  Appendable(Entry(s, long, wide)) /\ Appendable(Broken(long, wide))
  BY <1>1, <1>2, EntryTyped, BrokenTyped DEF Appendable, Typed
<1>3. CASE UNCHANGED <<file, unterminated>>
  BY <1>3
<1>4. ASSUME NEW long \in BOOLEAN, NEW wide \in BOOLEAN, unterminated' = TRUE,
             AppendBytes(Broken(long, wide)) \/ AppendBytes(Entry(s, long, wide))
      PROVE  unterminated' /\ \E line : Appendable(line) /\ AppendBytes(line)
  BY <1>2, <1>4, Zenon
<1> QED
  BY <1>3, <1>4 DEF PartialAppend

LEMMA OkAppends ==
    ASSUME Typed, NEW s \in Servers, RecordOk(s)
    PROVE  \E line : /\ Appendable(line) /\ AppendBytes(line)
                     /\ line.parses /\ line.hash = records + 1
<1>1. PICK long \in BOOLEAN, wide \in BOOLEAN : AppendBytes(Entry(s, long, wide))
  BY DEF RecordOk
<1>2. Appendable(Entry(s, long, wide))
  BY EntryTyped DEF Appendable, Typed, RecordOk
<1> QED
  BY <1>1, <1>2, EntryTyped DEF Typed

LEMMA InitTyped == Init => Typed
<1> SUFFICES ASSUME Init PROVE Typed
  OBVIOUS
<1>1. file \in Seq(Lines) /\ records \in Nat
  BY DEF Init
<1>2. lastHash \in [Servers -> Nat]
  BY DEF Init, GENESIS
<1> QED
  BY <1>1, <1>2 DEF Init, Typed, TypeOK

LEMMA NextTyped == Typed /\ [Next]_vars => Typed'
<1> SUFFICES ASSUME Typed, [Next]_vars PROVE Typed'
  OBVIOUS
<1> USE DEF Typed, TypeOK
<1>1. ASSUME NEW s \in Servers, Open(s) PROVE Typed'
  <2>1. CASE TailParses
    <3>1. LastLine \in Lines /\ LastLine.parses
      BY <2>1 DEF TailParses, LastLine
    <3>2. LastLine.hash \in Nat \ {GENESIS}
      BY <3>1 DEF Lines, Entries, Garbage
    <3> QED
      BY <1>1, <3>2 DEF Open, GENESIS
  <2>2. CASE ~TailParses
    BY <1>1, <2>2 DEF Open, GENESIS
  <2> QED
    BY <2>1, <2>2
<1>2. ASSUME NEW s \in Servers, RecordOk(s) PROVE Typed'
  <2>1. file' \in Seq(Lines)
    BY <1>2, OkAppends, AppendTyped DEF Appendable
  <2>2. lastHash' \in [Servers -> Nat] /\ records' \in Nat
    BY <1>2 DEF RecordOk
  <2>3. \A u \in up' : lastHash'[u] = GENESIS <=> u \in freshChain'
    BY <1>2 DEF RecordOk, GENESIS
  <2> QED
    BY <1>2, <2>1, <2>2, <2>3 DEF RecordOk
<1>3. ASSUME NEW s \in up, PartialAppend(s)
      PROVE  /\ file' \in Seq(Lines)
             /\ unterminated' \in BOOLEAN
             /\ unterminated' => file' # <<>>
  BY <1>3, PartialAppends, AppendTyped DEF Appendable
<1>4. ASSUME NEW s \in Servers, RecordFails(s) PROVE Typed'
  BY <1>3, <1>4 DEF RecordFails
<1>5. ASSUME NEW s \in Servers, CrashInAppend(s) PROVE Typed'
  BY <1>3, <1>5 DEF CrashInAppend, chain
<1>6. ASSUME NEW s \in Servers, Exit(s) PROVE Typed'
  BY <1>6 DEF Exit, chain
<1>7. CASE Erase
  <2>1. file' \in Seq(Lines)
    BY <1>7 DEF Erase
  <2> QED
    BY <1>7, <2>1 DEF Erase, chain
<1>8. CASE UNCHANGED vars
  BY <1>8 DEF vars, chain
<1> QED
  BY <1>1, <1>2, <1>4, <1>5, <1>6, <1>7, <1>8 DEF Next

LEMMA TypedAlways == Spec => []Typed
BY InitTyped, NextTyped, PTL DEF Spec

\* Every variable keeps its type, for any number of servers and records.
THEOREM TypeCorrect == Spec => []TypeOK
BY TypedAlways, PTL DEF Typed

------------------------------------------------------------------------------
(* The beginning of a chain *)

\* Appending keeps the lines there were, and adds one that is broken or that a
\* running server would write.
LEMMA AppendKeepsMarks ==
    ASSUME Typed, ErasedTrailVisible, NEW line, Appendable(line),
           AppendBytes(line)
    PROVE  ErasedTrailVisible'
<1>1. line.parses => (line.prev = GENESIS <=> line.restart)
  BY DEF Appendable, Typed
<1>2. line \in Lines
  BY DEF Appendable
<1>3. CASE unterminated
  BY <1>2, <1>3, AppendTyped DEF ErasedTrailVisible, Typed, TypeOK
<1>4. CASE ~unterminated
  <2>1. /\ Len(file') = Len(file) + 1 /\ Len(file) \in Nat
        /\ \A i \in 1..Len(file) : file'[i] = file[i]
        /\ file'[Len(file) + 1] = line
    BY <1>2, <1>4, AppendTyped DEF Typed, TypeOK
  <2> QED
    BY <1>1, <2>1 DEF ErasedTrailVisible
<1> QED
  BY <1>3, <1>4

\* A file whose beginning was erased never begins like a whole one, for any
\* number of servers.
THEOREM BeginningMarked == Spec => []ErasedTrailVisible
<1>1. Init => ErasedTrailVisible
  BY DEF Init, ErasedTrailVisible
<1>2. ASSUME Typed, ErasedTrailVisible, [Next]_vars PROVE ErasedTrailVisible'
  <2>1. CASE UNCHANGED file
    BY <1>2, <2>1 DEF ErasedTrailVisible
  <2>2. ASSUME NEW s \in Servers, RecordOk(s) PROVE ErasedTrailVisible'
    BY <1>2, <2>2, OkAppends, AppendKeepsMarks
  <2>3. ASSUME NEW s \in up, PartialAppend(s) PROVE ErasedTrailVisible'
    BY <1>2, <2>1, <2>3, PartialAppends, AppendKeepsMarks
  <2>4. CASE Erase
    BY <2>4 DEF Erase, ErasedTrailVisible
  <2> QED
    BY <1>2, <2>1, <2>2, <2>3, <2>4
    DEF Next, Open, RecordFails, CrashInAppend, Exit, vars
<1> QED
  BY <1>1, <1>2, TypedAlways, PTL DEF Spec

------------------------------------------------------------------------------
(* The chain of a lone server *)

LinkInv == ChainLinked /\ TipKnown

\* A lone server appends after the line it remembers, unless it starts again.
LEMMA AppendKeepsLinks ==
    ASSUME Typed, LinkInv, NEW s, Servers = {s},
           NEW line, Appendable(line), AppendBytes(line)
    PROVE  ChainLinked'
<1>1. line \in Lines /\ Len(file) \in Nat
  BY DEF Appendable, Typed, TypeOK
<1>2. CASE unterminated
  BY <1>1, <1>2, AppendTyped DEF LinkInv, ChainLinked, Typed, TypeOK
<1>3. CASE ~unterminated
  <2>1. /\ Len(file') = Len(file) + 1
        /\ \A i \in 1..Len(file) : file'[i] = file[i]
        /\ file'[Len(file) + 1] = line
    BY <1>1, <1>3, AppendTyped DEF Typed
  <2>2. ASSUME file # <<>>, file[Len(file)].parses, line.parses
        PROVE  line.prev = file[Len(file)].hash \/ line.restart
    <3>1. s \in up /\ line.prev = lastHash[s] /\ line.restart = (s \in freshChain)
      BY <2>2 DEF Appendable, Typed, TypeOK
    <3>2. lastHash[s] = file[Len(file)].hash \/ s \in freshChain
      BY <1>3, <2>2, <3>1 DEF LinkInv, TipKnown, LastLine
    <3> QED
      BY <3>1, <3>2
  <2>3. file # <<>> <=> Len(file) > 0
    BY <1>1 DEF Typed, TypeOK
  <2> SUFFICES ASSUME NEW i \in 1..Len(file), file'[i].parses,
                      file'[i + 1].parses
               PROVE  file'[i + 1].prev = file'[i].hash \/ file'[i + 1].restart
    BY <1>1, <2>1 DEF ChainLinked
  <2>4. CASE i = Len(file)
    BY <1>1, <2>1, <2>2, <2>3, <2>4
  <2>5. CASE i < Len(file)
    BY <1>1, <2>1, <2>5 DEF LinkInv, ChainLinked
  <2> QED
    BY <1>1, <2>4, <2>5
<1> QED
  BY <1>2, <1>3

\* After a complete line the server remembers it.
LEMMA OkKeepsTip ==
    ASSUME Typed, LinkInv, NEW s, Servers = {s}, RecordOk(s)
    PROVE  TipKnown'
<1>1. PICK line : /\ Appendable(line) /\ AppendBytes(line)
                  /\ line.parses /\ line.hash = records + 1
  BY OkAppends
<1>2. s \in up /\ up' = up /\ up \subseteq {s}
  BY DEF RecordOk, Typed, TypeOK
<1>3. lastHash'[s] = records + 1 /\ s \notin freshChain' /\ records \in Nat
  BY DEF RecordOk, Typed, TypeOK
<1>4. CASE unterminated
  <2>1. ~file'[Len(file')].parses
    BY <1>1, <1>4, AppendTyped DEF Appendable, Typed
  <2> QED
    BY <1>2, <1>3, <2>1 DEF TipKnown, LastLine, GENESIS
<1>5. CASE ~unterminated
  <2>1. file'[Len(file')] = line
    BY <1>1, <1>5, AppendTyped DEF Appendable, Typed
  <2> QED
    BY <1>1, <1>2, <1>3, <2>1 DEF TipKnown, LastLine, GENESIS
<1> QED
  BY <1>4, <1>5

\* An append that does not end well leaves a line without an end, or nothing.
LEMMA PartialKeepsLinks ==
    ASSUME Typed, LinkInv, NEW s, Servers = {s}, s \in up, PartialAppend(s),
           up' \subseteq up, UNCHANGED <<lastHash, freshChain>>
    PROVE  LinkInv'
<1>1. CASE UNCHANGED <<file, unterminated>>
  BY <1>1 DEF LinkInv, ChainLinked, TipKnown, LastLine
<1>2. ASSUME unterminated', NEW line, Appendable(line), AppendBytes(line)
      PROVE  LinkInv'
  <2>1. ChainLinked'
    BY <1>2, AppendKeepsLinks
  <2>2. TipKnown'
    BY <1>2 DEF LinkInv, TipKnown
  <2> QED
    BY <2>1, <2>2 DEF LinkInv
<1> QED
  BY <1>1, <1>2, PartialAppends

LEMMA NextKeepsLinks ==
    ASSUME NEW s, Servers = {s}, Typed, LinkInv, [Next]_vars
    PROVE  LinkInv'
<1>1. CASE Open(s)
  <2>1. ChainLinked'
    BY <1>1 DEF Open, LinkInv, ChainLinked
  <2>2. up' \subseteq {s} /\ file' = file /\ unterminated' = unterminated
    BY <1>1 DEF Open, Typed, TypeOK
  <2>3. CASE s \in freshChain' /\ lastHash'[s] = GENESIS
    BY <2>1, <2>2, <2>3 DEF LinkInv, TipKnown, GENESIS
  <2>4. CASE TailParses /\ lastHash'[s] = LastLine.hash /\ s \notin freshChain'
    <3>1. LastLine \in Lines /\ LastLine.parses
      BY <2>4 DEF TailParses, LastLine, Typed, TypeOK
    <3>2. LastLine.hash # GENESIS
      BY <3>1 DEF Lines, Entries, Garbage
    <3> QED
      BY <2>1, <2>2, <2>4, <3>2 DEF LinkInv, TipKnown, LastLine, GENESIS
  <2>5. \/ s \in freshChain' /\ lastHash'[s] = GENESIS
        \/ /\ TailParses /\ lastHash'[s] = LastLine.hash
           /\ s \notin freshChain'
    BY <1>1 DEF Open, Typed, TypeOK
  <2> QED
    BY <2>3, <2>4, <2>5
<1>2. CASE RecordOk(s)
  <2>1. ChainLinked'
    BY <1>2, OkAppends, AppendKeepsLinks
  <2> QED
    BY <1>2, <2>1, OkKeepsTip DEF LinkInv
<1>3. CASE RecordFails(s)
  BY <1>3, PartialKeepsLinks DEF RecordFails
<1>4. CASE CrashInAppend(s)
  BY <1>4, PartialKeepsLinks DEF CrashInAppend, chain
<1>5. CASE Exit(s)
  BY <1>5 DEF Exit, chain, LinkInv, ChainLinked, TipKnown, LastLine
<1>6. CASE Erase
  BY <1>6 DEF Erase, chain, LinkInv, ChainLinked, TipKnown, LastLine
<1>7. CASE UNCHANGED vars
  BY <1>7 DEF vars, chain, LinkInv, ChainLinked, TipKnown, LastLine
<1> QED
  BY <1>1, <1>2, <1>3, <1>4, <1>5, <1>6, <1>7 DEF Next

\* A server that has the file to itself never writes a line that does not
\* follow the one before it, however its appends fail and whenever it dies.
THEOREM LoneServerLinked ==
    ASSUME NEW s, Servers = {s}
    PROVE  Spec => [](ChainLinked /\ TipKnown)
<1>1. Init => LinkInv
  BY DEF Init, LinkInv, ChainLinked, TipKnown
<1>2. Typed /\ LinkInv /\ [Next]_vars => LinkInv'
  BY NextKeepsLinks
<1> QED
  BY <1>1, <1>2, TypedAlways, PTL DEF Spec, LinkInv

\* That server always knows the last line of the file, or is going to say that
\* it starts again.
THEOREM LoneServerKnowsTip ==
    ASSUME NEW s, Servers = {s}
    PROVE  Spec => []TipKnown
BY LoneServerLinked, PTL
=============================================================================
