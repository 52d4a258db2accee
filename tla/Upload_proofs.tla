--------------------------- MODULE Upload_proofs ---------------------------
(* Proofs about Upload: one owner of an upload, what touches the           *)
(* destination, and what a failure or an abort leaves of it.               *)
EXTENDS Upload, FiniteSetTheorems, TLAPS

------------------------------------------------------------------------------
(* There is always a file that nothing refers to *)

\* f is a file that no name and no handle refers to.
Unused(f) ==
    /\ f \in Files
    /\ f \notin {temp, dest, None}
    /\ \A c \in Chunks : fd[c] # f

\* One of the names is missing whenever a file is created, so that the other
\* name and the handles are fewer than the files.
LEMMA FreshFile ==
    ASSUME TypeOK, temp = None \/ dest = None
    PROVE  Unused(NewFile)
<1> DEFINE open == {fd[c] : c \in Chunks}
           named == IF temp = None THEN dest ELSE temp
<1>1. fd \in [Chunks -> Files \cup {None}] /\ None \notin Files
  BY UploadAssumption DEF TypeOK
<1>2. fd \in Surjection(Chunks, open)
  BY <1>1 DEF Surjection
<1>3. /\ IsFiniteSet(open)
      /\ Cardinality(open) <= Cardinality(Chunks)
  BY <1>2, FS_Surjection, UploadAssumption
<1>4. /\ IsFiniteSet(open \cup {named})
      /\ Cardinality(open \cup {named}) <= Cardinality(open) + 1
  <2>1. Cardinality(open) \in Nat
    BY <1>3, FS_CardinalityType
  <2>2. /\ IsFiniteSet(open \cup {named})
        /\ Cardinality(open \cup {named}) =
              IF named \in open THEN Cardinality(open) ELSE Cardinality(open) + 1
    BY <1>3, FS_AddElement
  <2> QED BY <2>1, <2>2
<1>5. ~ Files \subseteq open \cup {named}
  <2>1. SUFFICES ASSUME Files \subseteq open \cup {named} PROVE FALSE
    OBVIOUS
  <2>2. Cardinality(Files) <= Cardinality(open \cup {named})
    BY <1>4, <2>1, FS_Subset
  <2>3. /\ Cardinality(Files) \in Nat /\ Cardinality(Chunks) \in Nat
        /\ Cardinality(open) \in Nat /\ Cardinality(open \cup {named}) \in Nat
    BY <1>3, <1>4, FS_CardinalityType, UploadAssumption
  <2> HIDE DEF open, named
  <2> QED BY <1>3, <1>4, <2>2, <2>3, UploadAssumption
<1>6. \E f \in Files : f \notin {temp, dest} \cup {fd[c] : c \in Chunks}
  BY <1>1, <1>5
<1>7. NewFile \in Files /\ NewFile \notin {temp, dest} \cup {fd[c] : c \in Chunks}
  BY <1>6 DEF NewFile
<1> QED BY <1>1, <1>7 DEF Unused

------------------------------------------------------------------------------
(* The inductive invariant *)

\* Nothing happens before upload_start has answered.
Unstarted ==
    ~started =>
        /\ bytes = None /\ temp = None /\ touched = {} /\ calm
        /\ \A x \in Chunks \cup Closers : pc[x] = "idle"

\* Whoever took the entry is alone, and the map has it no more.
Owned == OneOwner /\ (bytes # None => Owners = {})

AfterTheHash == {"exists", "rename", "put", "refused", "unlink", "created",
                 "overwritten", "extended", "failed"}
MayHaveTouched == {"unlink", "created", "overwritten", "extended", "failed"}

\* A finish goes past the comparison, and changes the destination, only with
\* what it was told to expect.
Checked ==
    \A t \in Closers :
        /\ pc[t] \in AfterTheHash => Verified(t)
        /\ t \in touched => pc[t] \in MayHaveTouched

\* Until a finish changes it, the destination is no file of the upload.
Apart ==
    touched \cap Closers = {} =>
        /\ touched = {}
        /\ dest # None => temp # dest /\ \A c \in Chunks : fd[c] # dest

\* What each chunk has counted is in the temporary while the entry is there.
Counted ==
    bytes # None =>
        /\ temp # None
        /\ bytes <= Len(data[temp])
        /\ \A c \in Chunks :
              /\ pc[c] = "write" => fd[c] = temp
              /\ pc[c] \in {"open", "write"} => total[c] <= Len(data[temp])
              /\ pc[c] = "count" => total[c] + 1 <= Len(data[temp])

\* What was verified is in the temporary until it is at the destination.
Kept ==
    \A t \in Closers :
        /\ pc[t] \in {"exists", "rename", "put", "refused"} => InTemporary(t)
        /\ pc[t] = "unlink" => AtDestination(t)
        /\ pc[t] = "failed" => InTemporary(t) \/ AtDestination(t)

\* After a quiet close no chunk is on its way any more.
Quiet ==
    calm => touched \cap Chunks = {} /\ (Owners # {} => OnTheirWay = {})

\* What is delivered is what was read.
Delivered ==
    /\ touched = {} /\ dest # None => data[dest] = <<"old">>
    /\ calm =>
          \A t \in Closers :
              /\ pc[t] \in {"exists", "rename", "put"} => data[temp] = read[t]
              /\ pc[t] \in {"created", "overwritten", "unlink", "extended"} => dest # None
              /\ pc[t] \in {"created", "overwritten"} => data[dest] = expected[t]
              /\ pc[t] \in {"unlink", "extended"} =>
                    data[dest] \in {expected[t], <<"old">> \o expected[t]}

NoOld(content) == \A i \in DOMAIN content : content[i] # "old"

\* What the host had is in no file that a chunk may write, and only an append
\* puts something behind it.
Unmixed ==
    /\ temp # None => NoOld(data[temp])
    /\ \A c \in Chunks : fd[c] # None => NoOld(data[fd[c]])
    /\ \A t \in Closers : pc[t] = "put" => mode = "append"

IInv ==
    /\ TypeOK /\ Unstarted /\ Owned /\ Checked /\ Apart
    /\ Counted /\ Kept /\ Quiet /\ Delivered /\ Unmixed

\* Nobody but t closes the upload, or has changed the destination.
Alone(t) ==
    /\ bytes = None
    /\ \A u \in Closers \ {t} : pc[u] \in {"idle", "unknown"} /\ u \notin touched

\* It took the entry.
LEMMA OwnerIsAlone ==
    ASSUME IInv, NEW t \in Closers, pc[t] \notin {"idle", "unknown"}
    PROVE  Alone(t)
BY DEF IInv, TypeOK, Owned, OneOwner, Owners, Checked, MayHaveTouched, Alone

\* While the map has the entry nobody has changed the destination.
LEMMA EntryIsUntouched ==
    ASSUME IInv, bytes # None
    PROVE  Owners = {} /\ touched = {}
BY DEF IInv, TypeOK, Owned, Owners, Checked, MayHaveTouched, Apart

\* While a chunk has a file open, no closer has found the upload at rest; and
\* while nobody has closed it, that file is not the destination.
LEMMA WriterIsKnown ==
    ASSUME IInv, NEW c \in Chunks, pc[c] = "write"
    PROVE  /\ fd[c] \in Files
           /\ touched = {} => fd[c] # dest
           /\ calm => Owners = {} /\ touched = {}
<1>1. fd[c] \in Files
  BY DEF IInv, TypeOK
<1>2. touched = {} => fd[c] # dest
  BY <1>1, UploadAssumption DEF IInv, Apart
<1>3. calm => Owners = {}
  BY DEF IInv, Quiet, OnTheirWay
<1>4. Owners = {} => touched = {}
  BY DEF IInv, TypeOK, Owners, Checked, MayHaveTouched, Apart
<1> QED BY <1>1, <1>2, <1>3, <1>4

\* What a write may leave is a content.
LEMMA LandedContents ==
    ASSUME NEW s \in Contents, NEW l \in Landed(s)
    PROVE  l \in Contents
<1>1. "torn" \in Pieces
  BY DEF Pieces
<1>2. <<"torn">> \in Contents /\ <<>> \in Contents
  BY <1>1 DEF Contents
<1> QED BY <1>2 DEF Landed

\* What a chunk may leave has nothing of the host.
LEMMA LandedChunk ==
    ASSUME NEW c \in Chunks, NEW l \in Landed(<<c>>)
    PROVE  l \in Contents /\ NoOld(l)
<1>1. <<c>> \in Contents /\ NoOld(<<c>>)
  BY UploadAssumption DEF Contents, Pieces, NoOld
<1>2. NoOld(<<"torn">>) /\ NoOld(<<>>)
  BY DEF NoOld
<1> QED BY <1>1, <1>2, LandedContents DEF Landed

\* A content behind another.
LEMMA Joined ==
    ASSUME NEW s \in Contents, NEW l \in Contents
    PROVE  /\ s \o l \in Contents
           /\ Len(s \o l) = Len(s) + Len(l)
           /\ NoOld(s) /\ NoOld(l) => NoOld(s \o l)
BY DEF Contents, NoOld

\* What stands in a content still stands there with more behind it, and a
\* content stands whole behind another.
LEMMA StandsStill ==
    ASSUME NEW s \in Contents, NEW k \in Nat, NEW content \in Contents,
           NEW l \in Contents, StandsBehind(s, k, content)
    PROVE  StandsBehind(s, k, content \o l)
BY DEF Contents, StandsBehind

LEMMA StandsWhole ==
    ASSUME NEW s \in Contents, NEW content \in Contents
    PROVE  /\ StandsBehind(s, 0, s)
           /\ Len(content) \in 0..Len(content \o s)
           /\ StandsBehind(s, Len(content), content \o s)
BY DEF Contents, StandsBehind

\* The temporary a chunk opens, found or created.
LEMMA OpenedTemp ==
    ASSUME TypeOK, NEW c \in Chunks, OpenTemp(c)
    PROVE  /\ temp' \in Files /\ temp' # None
           /\ data' \in [Files -> Contents]
           /\ dest' = dest
           /\ dest # None => data'[dest] = data[dest]
           /\ temp # None => UNCHANGED <<temp, data>>
<1>1. CASE temp = None
  <2>1. Unused(NewFile) /\ temp' = NewFile
    BY <1>1, FreshFile DEF OpenTemp
  <2>2. data' = [data EXCEPT ![NewFile] = <<>>] /\ <<>> \in Contents
    BY <1>1 DEF OpenTemp, Contents
  <2> QED BY <1>1, <2>1, <2>2 DEF TypeOK, Unused, OpenTemp
<1>2. CASE temp # None
  BY <1>2 DEF OpenTemp, TypeOK
<1> QED BY <1>1, <1>2

------------------------------------------------------------------------------
(* Every action keeps the invariant *)

LEMMA StartOkKeeps ==
    ASSUME IInv, StartOk
    PROVE  IInv'
<1>1. temp = None \/ dest = None => Unused(NewFile)
  BY FreshFile DEF IInv
<1>2. /\ ~started /\ bytes = None /\ temp = None /\ touched = {} /\ calm
      /\ \A x \in Chunks \cup Closers : pc[x] = "idle"
  BY DEF IInv, Unstarted, StartOk
<1> USE UploadAssumption DEF IInv, TypeOK, StartOk, Goto, Unused, setting,
       remote, chunkVars, finishVars, history
<1>3. TypeOK'
  BY <1>1, <1>2 DEF Contents, Pieces, Modes, ChunkSteps, CloserSteps
<1>4. Unstarted' /\ Owned' /\ Checked'
  BY <1>1, <1>2 DEF Unstarted, Owned, OneOwner, Owners, Checked, AfterTheHash,
      MayHaveTouched, Verified
<1>5. Apart' /\ Counted' /\ Kept'
  BY <1>1, <1>2 DEF Apart, Counted, Kept, InTemporary, AtDestination
<1>6. Quiet'
  BY <1>1, <1>2 DEF Quiet, Owners, OnTheirWay
<1>7. Delivered'
  BY <1>1, <1>2 DEF Delivered, Checked, AfterTheHash, Verified, Quiet, Owners,
      OnTheirWay
<1>8. Unmixed'
  BY <1>1, <1>2 DEF Unmixed, NoOld, Apart
<1> QED BY <1>3, <1>4, <1>5, <1>6, <1>7, <1>8

LEMMA StartFailsKeeps ==
    ASSUME IInv, StartFails
    PROVE  IInv'
<1>fresh. TypeOK /\ (temp = None \/ dest = None => Unused(NewFile))
  BY FreshFile DEF IInv
<1>unstarted. /\ ~started /\ bytes = None /\ temp = None /\ touched = {} /\ calm
              /\ \A x \in Chunks \cup Closers : pc[x] = "idle"
  BY DEF IInv, Unstarted, StartFails
<1>typed. temp' \in Files \cup {None} /\ data' \in [Files -> Contents]
  <2>1. CASE UNCHANGED remote
    BY <1>fresh, <2>1 DEF remote, TypeOK
  <2>2. CASE temp' = NewFile /\ data' = [data EXCEPT ![NewFile] = <<>>]
    <3>1. <<>> \in Contents
      BY DEF Contents
    <3> QED BY <1>fresh, <1>unstarted, <2>2, <3>1 DEF TypeOK, Unused
  <2> QED BY <2>1, <2>2 DEF StartFails
<1> USE UploadAssumption DEF IInv, TypeOK, StartFails, Goto, Unused,
       setting, remote, chunkVars, finishVars, history
<1>1. TypeOK'
  BY <1>fresh, <1>unstarted, <1>typed DEF Contents, Pieces, Modes, ChunkSteps,
      CloserSteps
<1>2. Unstarted' /\ Owned' /\ Checked'
  BY <1>fresh, <1>unstarted, <1>typed DEF Unstarted, Owned, OneOwner, Owners,
      Checked,
      AfterTheHash, MayHaveTouched, Verified
<1>5. Apart' /\ Counted' /\ Kept'
  BY <1>fresh, <1>unstarted, <1>typed DEF Apart, Counted, Kept, InTemporary, AtDestination
<1>8. Quiet'
  BY <1>fresh, <1>unstarted, <1>typed DEF Quiet, Owners, OnTheirWay
<1>9. Delivered'
  BY <1>fresh, <1>unstarted, <1>typed DEF Delivered, Checked, AfterTheHash,
      Verified, Quiet, Owners, OnTheirWay
<1>10. Unmixed'
  BY <1>fresh, <1>unstarted, <1>typed DEF Unmixed, NoOld, Apart
<1> QED BY <1>1, <1>2, <1>5, <1>8, <1>9, <1>10

LEMMA ChunkBeginKeeps ==
    ASSUME IInv, NEW c \in Chunks, ChunkBegin(c)
    PROVE  IInv'
<1>1. Owners = {} /\ touched = {} /\ bytes # None
  BY EntryIsUntouched DEF ChunkBegin
<1> USE UploadAssumption DEF IInv, TypeOK, ChunkBegin, Goto, setting, remote,
       chunkVars, finishVars, history
<1>2. TypeOK'
  BY <1>1 DEF Contents, Pieces, Modes, ChunkSteps, CloserSteps
<1>3. Unstarted' /\ Owned' /\ Checked'
  BY <1>1 DEF Unstarted, Owned, OneOwner, Owners, Checked, AfterTheHash,
      MayHaveTouched, Verified
<1>4. Apart' /\ Counted' /\ Kept'
  BY <1>1 DEF Apart, Counted, Kept, InTemporary, AtDestination
<1>5. Quiet'
  BY <1>1 DEF Quiet, Owners, OnTheirWay
<1>6. Delivered'
  BY <1>1 DEF Delivered, Checked, AfterTheHash, Verified, Quiet, Owners,
      OnTheirWay
<1>7. Unmixed'
  BY <1>1 DEF Unmixed, NoOld, Apart
<1> QED BY <1>2, <1>3, <1>4, <1>5, <1>6, <1>7

LEMMA ChunkUnknownKeeps ==
    ASSUME IInv, NEW c \in Chunks, ChunkUnknown(c)
    PROVE  IInv'
<1> USE UploadAssumption DEF IInv, TypeOK, ChunkUnknown, Goto, setting, remote,
       chunkVars, finishVars, history
<1>1. TypeOK'
  BY DEF Contents, Pieces, Modes, ChunkSteps, CloserSteps
<1>2. Unstarted' /\ Owned' /\ Checked'
  BY DEF Unstarted, Owned, OneOwner, Owners, Checked, AfterTheHash,
      MayHaveTouched, Verified
<1>3. Apart' /\ Counted' /\ Kept'
  BY DEF Apart, Counted, Kept, InTemporary, AtDestination
<1>4. Quiet'
  BY DEF Quiet, Owners, OnTheirWay
<1>5. Delivered'
  BY DEF Delivered, Checked, AfterTheHash, Verified, Quiet, Owners, OnTheirWay
<1>6. Unmixed'
  BY DEF Unmixed, NoOld, Apart
<1> QED BY <1>1, <1>2, <1>3, <1>4, <1>5, <1>6

LEMMA ChunkOpenKeeps ==
    ASSUME IInv, NEW c \in Chunks, ChunkOpen(c)
    PROVE  IInv'
<1>1. temp = None \/ dest = None => Unused(NewFile)
  BY FreshFile DEF IInv
<1>2. /\ temp' \in Files /\ temp' # None /\ data' \in [Files -> Contents] /\ dest' = dest
      /\ dest # None => data'[dest] = data[dest]
      /\ temp # None => UNCHANGED <<temp, data>>
  BY OpenedTemp DEF IInv, ChunkOpen
<1> USE UploadAssumption DEF IInv, TypeOK, ChunkOpen, OpenTemp, Goto, Unused,
       setting, remote, chunkVars, finishVars, history
<1>3. TypeOK'
  BY <1>1, <1>2 DEF Contents, Pieces, Modes, ChunkSteps, CloserSteps
<1>4. Unstarted' /\ Owned' /\ Checked'
  BY <1>1, <1>2 DEF Unstarted, Owned, OneOwner, Owners, Checked, AfterTheHash,
      MayHaveTouched, Verified
<1>5. Apart' /\ Counted' /\ Kept'
  BY <1>1, <1>2 DEF Apart, Counted, Kept, InTemporary, AtDestination
<1>6. Quiet'
  BY <1>1, <1>2 DEF Quiet, Owners, OnTheirWay
<1>7. Delivered'
  BY <1>1, <1>2 DEF Delivered, Checked, AfterTheHash, Verified, Quiet, Owners,
      OnTheirWay
<1>8. Unmixed'
  BY <1>1, <1>2 DEF Unmixed, NoOld, Apart
<1> QED BY <1>3, <1>4, <1>5, <1>6, <1>7, <1>8

LEMMA ChunkOpenFailsKeeps ==
    ASSUME IInv, NEW c \in Chunks, ChunkOpenFails(c)
    PROVE  IInv'
<1>1. temp = None \/ dest = None => Unused(NewFile)
  BY FreshFile DEF IInv
<1>2. /\ temp' \in Files \cup {None} /\ data' \in [Files -> Contents] /\ dest' = dest
      /\ dest # None => data'[dest] = data[dest]
      /\ temp # None => UNCHANGED <<temp, data>>
  BY OpenedTemp DEF IInv, TypeOK, ChunkOpenFails, remote
<1> USE UploadAssumption DEF IInv, TypeOK, ChunkOpenFails, OpenTemp, Goto,
       Unused, setting, remote, chunkVars, finishVars, history
<1>3. TypeOK'
  BY <1>1, <1>2 DEF Contents, Pieces, Modes, ChunkSteps, CloserSteps
<1>4. Unstarted' /\ Owned' /\ Checked'
  BY <1>1, <1>2 DEF Unstarted, Owned, OneOwner, Owners, Checked, AfterTheHash,
      MayHaveTouched, Verified
<1>5. Apart' /\ Counted' /\ Kept'
  BY <1>1, <1>2 DEF Apart, Counted, Kept, InTemporary, AtDestination
<1>6. Quiet'
  BY <1>1, <1>2 DEF Quiet, Owners, OnTheirWay
<1>7. Delivered'
  BY <1>1, <1>2 DEF Delivered, Checked, AfterTheHash, Verified, Quiet, Owners,
      OnTheirWay
<1>8. Unmixed'
  BY <1>1, <1>2 DEF Unmixed, NoOld, Apart
<1> QED BY <1>3, <1>4, <1>5, <1>6, <1>7, <1>8

\* A chunk appends l, its data or what a failure leaves of it, to the file it
\* has open.
LEMMA WriteKeeps ==
    ASSUME IInv, NEW c \in Chunks, NEW l \in Contents,
           NEW step \in {"count", "error"},
           NoOld(l), step = "count" => Len(l) = 1,
           pc[c] = "write", WriteOpen(c, l), Goto(c, step),
           UNCHANGED <<setting, bytes, started, total, finishVars, calm>>
    PROVE  IInv'
<1> DEFINE f == fd[c]
           new == data[f] \o l
<1>1. /\ f \in Files
      /\ touched = {} => f # dest
      /\ calm => Owners = {} /\ touched = {}
  BY WriterIsKnown
<1>2. data[f] \in Contents
  BY <1>1 DEF IInv, TypeOK
<1>3. /\ new \in Contents /\ Len(new) = Len(data[f]) + Len(l)
      /\ NoOld(data[f]) => NoOld(new)
  BY <1>2, Joined
<1>4. data' = [data EXCEPT ![f] = new]
  BY DEF WriteOpen
<1>5. Len(data[f]) \in Nat /\ Len(l) \in Nat /\ Len(new) \in Nat
  BY <1>2, <1>3 DEF Contents
<1>6. touched' = touched \/ (touched' = touched \cup {c} /\ f = dest)
  BY DEF WriteOpen
<1>7. /\ fd' = [fd EXCEPT ![c] = None] /\ temp' = temp /\ dest' = dest
      /\ pc' = [pc EXCEPT ![c] = step]
  BY DEF WriteOpen, Goto
<1>8. f = fd[c]
  OBVIOUS
<1> HIDE DEF f, new
<1> USE UploadAssumption DEF IInv, TypeOK, setting, finishVars
<1>11. TypeOK'
  BY <1>1, <1>2, <1>3, <1>4, <1>5, <1>6, <1>7, <1>8 DEF Contents, Pieces,
      Modes, ChunkSteps, CloserSteps
<1>12. Unstarted' /\ Owned' /\ Checked'
  BY <1>1, <1>2, <1>3, <1>4, <1>5, <1>6, <1>7, <1>8 DEF Unstarted, Owned,
      OneOwner, Owners, Checked, AfterTheHash, MayHaveTouched, Verified
<1>15. Apart'
  BY <1>1, <1>2, <1>3, <1>4, <1>5, <1>6, <1>7, <1>8 DEF Apart
<1>17. Kept'
  <2>1. ASSUME NEW t \in Closers, InTemporary(t) PROVE InTemporary(t)'
    <3>1. read[t] \in Contents /\ temp \in Files /\ data[temp] \in Contents
      BY <2>1 DEF InTemporary
    <3>2. data'[temp] = IF temp = f THEN data[temp] \o l ELSE data[temp]
      BY <1>1, <1>4, <3>1 DEF new
    <3>3. StandsBehind(read[t], 0, data'[temp])
      BY <2>1, <3>1, <3>2, StandsStill DEF InTemporary
    <3> QED BY <1>7, <2>1, <3>3 DEF InTemporary
  <2>2. ASSUME NEW t \in Closers, AtDestination(t) PROVE AtDestination(t)'
    <3>1. read[t] \in Contents /\ dest \in Files /\ data[dest] \in Contents
      BY <2>2 DEF AtDestination
    <3>2. PICK k \in 0..Len(data[dest]) : StandsBehind(read[t], k, data[dest])
      BY <2>2 DEF AtDestination
    <3>3. data'[dest] = IF dest = f THEN data[dest] \o l ELSE data[dest]
      BY <1>1, <1>4, <3>1 DEF new
    <3>4. k \in Nat /\ k \in 0..Len(data'[dest])
      BY <3>1, <3>2, <3>3 DEF Contents
    <3>5. StandsBehind(read[t], k, data'[dest])
      BY <3>1, <3>2, <3>3, <3>4, StandsStill
    <3> QED BY <1>7, <2>2, <3>4, <3>5 DEF AtDestination
  <2>3. \A t \in Closers : pc'[t] = pc[t]
    BY <1>7
  <2> QED BY <2>1, <2>2, <2>3 DEF Kept
<1>16. Counted'
  <2>1. SUFFICES ASSUME bytes # None
                 PROVE  /\ temp # None
                        /\ bytes <= Len(data'[temp])
                        /\ \A d \in Chunks :
                              /\ pc'[d] = "write" => fd'[d] = temp
                              /\ pc'[d] \in {"open", "write"} => total[d] <= Len(data'[temp])
                              /\ pc'[d] = "count" => total[d] + 1 <= Len(data'[temp])
    BY <1>7 DEF Counted
  <2>2. /\ f = temp /\ temp # None
        /\ bytes <= Len(data[temp]) /\ total[c] <= Len(data[temp])
    BY <1>8, <2>1 DEF Counted
  <2>3. data'[temp] = new
    BY <1>1, <1>4, <2>2
  <2>4. ASSUME NEW d \in Chunks \ {c}
        PROVE  /\ pc'[d] = "write" => fd'[d] = temp
               /\ pc'[d] \in {"open", "write"} => total[d] <= Len(new)
               /\ pc'[d] = "count" => total[d] + 1 <= Len(new)
    <3>1. pc'[d] = pc[d] /\ fd'[d] = fd[d] /\ total[d] \in Nat
      BY <1>7
    <3>2. /\ pc[d] = "write" => fd[d] = temp
          /\ pc[d] \in {"open", "write"} => total[d] <= Len(data[f])
          /\ pc[d] = "count" => total[d] + 1 <= Len(data[f])
      BY <2>1, <2>2 DEF Counted
    <3> QED BY <1>3, <1>5, <3>1, <3>2
  <2>5. bytes <= Len(new)
    <3>1. bytes \in Nat
      BY <2>1
    <3> QED BY <1>3, <1>5, <2>2, <3>1
  <2>6. /\ pc'[c] = step
        /\ step = "count" => total[c] + 1 <= Len(new)
    <3>1. pc'[c] = step /\ total[c] \in Nat
      BY <1>7
    <3>2. ASSUME step = "count" PROVE total[c] + 1 <= Len(new)
      <4>1. Len(new) = Len(data[f]) + 1 /\ total[c] <= Len(data[f])
        BY <1>3, <2>2, <3>2
      <4>2. Len(data[f]) \in Nat /\ total[c] \in Nat
        BY <1>5, <3>1
      <4> HIDE DEF TypeOK, IInv
      <4> QED BY <4>1, <4>2
    <3> QED BY <3>1, <3>2
  <2> QED BY <2>2, <2>3, <2>4, <2>5, <2>6
<1>18. Quiet'
  BY <1>1, <1>2, <1>3, <1>4, <1>5, <1>6, <1>7, <1>8 DEF Quiet, Owners,
      OnTheirWay
<1>19. Delivered'
  BY <1>1, <1>2, <1>3, <1>4, <1>5, <1>6, <1>7, <1>8 DEF Delivered, Checked,
      AfterTheHash, Verified, Quiet, Owners, OnTheirWay
<1>20. Unmixed'
  BY <1>1, <1>2, <1>3, <1>4, <1>5, <1>6, <1>7, <1>8 DEF Unmixed, NoOld, Apart
<1> QED BY <1>11, <1>12, <1>15, <1>16, <1>17, <1>18, <1>19, <1>20

LEMMA ChunkWriteKeeps ==
    ASSUME IInv, NEW c \in Chunks, ChunkWrite(c)
    PROVE  IInv'
<1>1. <<c>> \in Landed(<<c>>) /\ Len(<<c>>) = 1
  BY DEF Landed
<1> QED BY <1>1, LandedChunk, WriteKeeps DEF ChunkWrite

LEMMA ChunkWriteFailsKeeps ==
    ASSUME IInv, NEW c \in Chunks, ChunkWriteFails(c)
    PROVE  IInv'
<1>1. PICK l \in Landed(<<c>>) : WriteOpen(c, l)
  BY DEF ChunkWriteFails
<1> QED BY <1>1, LandedChunk, WriteKeeps DEF ChunkWriteFails

LEMMA ChunkCountKeeps ==
    ASSUME IInv, NEW c \in Chunks, ChunkCount(c)
    PROVE  IInv'
<1> USE UploadAssumption DEF IInv, TypeOK, ChunkCount, Goto, setting, remote,
       chunkVars, finishVars, history
<1>1. TypeOK'
  BY DEF Contents, Pieces, Modes, ChunkSteps, CloserSteps
<1>2. Unstarted' /\ Owned' /\ Checked'
  BY DEF Unstarted, Owned, OneOwner, Owners, Checked, AfterTheHash,
      MayHaveTouched, Verified
<1>3. Apart' /\ Counted' /\ Kept'
  BY DEF Apart, Counted, Kept, InTemporary, AtDestination
<1>4. Quiet'
  BY DEF Quiet, Owners, OnTheirWay
<1>5. Delivered'
  BY DEF Delivered, Checked, AfterTheHash, Verified, Quiet, Owners, OnTheirWay
<1>6. Unmixed'
  BY DEF Unmixed, NoOld, Apart
<1> QED BY <1>1, <1>2, <1>3, <1>4, <1>5, <1>6

LEMMA FinishTakesKeeps ==
    ASSUME IInv, NEW t \in Closers, FinishTakes(t)
    PROVE  IInv'
<1>1. Owners = {} /\ touched = {} /\ bytes # None
  BY EntryIsUntouched DEF FinishTakes, Take
<1> USE UploadAssumption DEF IInv, TypeOK, FinishTakes, Take, Goto, setting,
       remote, chunkVars, finishVars, history
<1>2. TypeOK'
  BY <1>1 DEF Contents, Pieces, Modes, ChunkSteps, CloserSteps
<1>3. Unstarted' /\ Owned' /\ Checked'
  BY <1>1 DEF Unstarted, Owned, OneOwner, Owners, Checked, AfterTheHash,
      MayHaveTouched, Verified
<1>4. Apart' /\ Counted' /\ Kept'
  BY <1>1 DEF Apart, Counted, Kept, InTemporary, AtDestination
<1>5. Quiet'
  BY <1>1 DEF Quiet, Owners, OnTheirWay
<1>6. Delivered'
  BY <1>1 DEF Delivered, Checked, AfterTheHash, Verified, Quiet, Owners,
      OnTheirWay
<1>7. Unmixed'
  BY <1>1 DEF Unmixed, NoOld, Apart
<1> QED BY <1>2, <1>3, <1>4, <1>5, <1>6, <1>7

LEMMA AbortTakesKeeps ==
    ASSUME IInv, NEW t \in Closers, AbortTakes(t)
    PROVE  IInv'
<1>1. Owners = {} /\ touched = {} /\ bytes # None
  BY EntryIsUntouched DEF AbortTakes, Take
<1> USE UploadAssumption DEF IInv, TypeOK, AbortTakes, Take, Goto, setting,
       remote, chunkVars, finishVars, history
<1>2. TypeOK'
  BY <1>1 DEF Contents, Pieces, Modes, ChunkSteps, CloserSteps
<1>3. Unstarted' /\ Owned' /\ Checked'
  BY <1>1 DEF Unstarted, Owned, OneOwner, Owners, Checked, AfterTheHash,
      MayHaveTouched, Verified
<1>4. Apart' /\ Counted' /\ Kept'
  BY <1>1 DEF Apart, Counted, Kept, InTemporary, AtDestination
<1>5. Quiet'
  BY <1>1 DEF Quiet, Owners, OnTheirWay
<1>6. Delivered'
  BY <1>1 DEF Delivered, Checked, AfterTheHash, Verified, Quiet, Owners,
      OnTheirWay
<1>7. Unmixed'
  BY <1>1 DEF Unmixed, NoOld, Apart
<1> QED BY <1>2, <1>3, <1>4, <1>5, <1>6, <1>7

LEMMA CloserUnknownKeeps ==
    ASSUME IInv, NEW t \in Closers, CloserUnknown(t)
    PROVE  IInv'
<1> USE UploadAssumption DEF IInv, TypeOK, CloserUnknown, Goto, setting,
       remote, chunkVars, finishVars, history
<1>1. TypeOK'
  BY DEF Contents, Pieces, Modes, ChunkSteps, CloserSteps
<1>2. Unstarted' /\ Owned' /\ Checked'
  BY DEF Unstarted, Owned, OneOwner, Owners, Checked, AfterTheHash,
      MayHaveTouched, Verified
<1>3. Apart' /\ Counted' /\ Kept'
  BY DEF Apart, Counted, Kept, InTemporary, AtDestination
<1>4. Quiet'
  BY DEF Quiet, Owners, OnTheirWay
<1>5. Delivered'
  BY DEF Delivered, Checked, AfterTheHash, Verified, Quiet, Owners, OnTheirWay
<1>6. Unmixed'
  BY DEF Unmixed, NoOld, Apart
<1> QED BY <1>1, <1>2, <1>3, <1>4, <1>5, <1>6

LEMMA CloserGivesUpKeeps ==
    ASSUME IInv, NEW t \in Closers, CloserGivesUp(t)
    PROVE  IInv'
<1>1. Alone(t)
  BY OwnerIsAlone DEF CloserGivesUp
<1> USE UploadAssumption DEF IInv, TypeOK, CloserGivesUp, Goto, Alone, setting,
       remote, chunkVars, finishVars, history
<1>2. TypeOK'
  BY <1>1 DEF Contents, Pieces, Modes, ChunkSteps, CloserSteps
<1>3. Unstarted' /\ Owned' /\ Checked'
  BY <1>1 DEF Unstarted, Owned, OneOwner, Owners, Checked, AfterTheHash,
      MayHaveTouched, Verified
<1>4. Apart' /\ Counted' /\ Kept'
  BY <1>1 DEF Apart, Counted, Kept, InTemporary, AtDestination
<1>5. Quiet'
  BY <1>1 DEF Quiet, Owners, OnTheirWay
<1>6. Delivered'
  BY <1>1 DEF Delivered, Checked, AfterTheHash, Verified, Quiet, Owners,
      OnTheirWay
<1>7. Unmixed'
  BY <1>1 DEF Unmixed, NoOld, Apart
<1> QED BY <1>2, <1>3, <1>4, <1>5, <1>6, <1>7

LEMMA FinishReadsKeeps ==
    ASSUME IInv, NEW t \in Closers, FinishReads(t)
    PROVE  IInv'
<1>1. Alone(t)
  BY OwnerIsAlone DEF FinishReads
<1> USE UploadAssumption DEF IInv, TypeOK, FinishReads, AfterVerification,
       Modes, Goto, Alone, setting, remote, chunkVars, finishVars, history
<1>2. TypeOK'
  BY <1>1 DEF Contents, Pieces, Modes, ChunkSteps, CloserSteps
<1>3. Unstarted' /\ Owned' /\ Checked'
  BY <1>1 DEF Unstarted, Owned, OneOwner, Owners, Checked, AfterTheHash,
      MayHaveTouched, Verified
<1>4. Apart' /\ Counted' /\ Kept'
  <2>1. data[temp] \in Contents
    OBVIOUS
  <2>2. StandsBehind(data[temp], 0, data[temp])
    BY <2>1, StandsWhole
  <2> QED BY <1>1, <2>2 DEF Apart, Counted, Kept, InTemporary, AtDestination
<1>5. Quiet'
  BY <1>1 DEF Quiet, Owners, OnTheirWay
<1>6. Delivered'
  BY <1>1 DEF Delivered, Checked, AfterTheHash, Verified, Quiet, Owners,
      OnTheirWay
<1>7. Unmixed'
  BY <1>1 DEF Unmixed, NoOld, Apart
<1> QED BY <1>2, <1>3, <1>4, <1>5, <1>6, <1>7

LEMMA FinishDropsKeeps ==
    ASSUME IInv, NEW t \in Closers, FinishDrops(t)
    PROVE  IInv'
<1>1. Alone(t)
  BY OwnerIsAlone DEF FinishDrops
<1> USE UploadAssumption DEF IInv, TypeOK, FinishDrops, RemoveTemp, Goto,
       Alone, setting, remote, chunkVars, finishVars, history
<1>2. TypeOK'
  BY <1>1 DEF Contents, Pieces, Modes, ChunkSteps, CloserSteps
<1>3. Unstarted' /\ Owned' /\ Checked'
  BY <1>1 DEF Unstarted, Owned, OneOwner, Owners, Checked, AfterTheHash,
      MayHaveTouched, Verified
<1>4. Apart' /\ Counted' /\ Kept'
  BY <1>1 DEF Apart, Counted, Kept, InTemporary, AtDestination
<1>5. Quiet'
  BY <1>1 DEF Quiet, Owners, OnTheirWay
<1>6. Delivered'
  BY <1>1 DEF Delivered, Checked, AfterTheHash, Verified, Quiet, Owners,
      OnTheirWay
<1>7. Unmixed'
  BY <1>1 DEF Unmixed, NoOld, Apart
<1> QED BY <1>2, <1>3, <1>4, <1>5, <1>6, <1>7

LEMMA AbortRemovesKeeps ==
    ASSUME IInv, NEW t \in Closers, AbortRemoves(t)
    PROVE  IInv'
<1>1. Alone(t)
  BY OwnerIsAlone DEF AbortRemoves
<1> USE UploadAssumption DEF IInv, TypeOK, AbortRemoves, RemoveTemp, Goto,
       Alone, setting, remote, chunkVars, finishVars, history
<1>2. TypeOK'
  BY <1>1 DEF Contents, Pieces, Modes, ChunkSteps, CloserSteps
<1>3. Unstarted' /\ Owned' /\ Checked'
  BY <1>1 DEF Unstarted, Owned, OneOwner, Owners, Checked, AfterTheHash,
      MayHaveTouched, Verified
<1>4. Apart' /\ Counted' /\ Kept'
  BY <1>1 DEF Apart, Counted, Kept, InTemporary, AtDestination
<1>5. Quiet'
  BY <1>1 DEF Quiet, Owners, OnTheirWay
<1>6. Delivered'
  BY <1>1 DEF Delivered, Checked, AfterTheHash, Verified, Quiet, Owners,
      OnTheirWay
<1>7. Unmixed'
  BY <1>1 DEF Unmixed, NoOld, Apart
<1> QED BY <1>2, <1>3, <1>4, <1>5, <1>6, <1>7

LEMMA FinishChecksKeeps ==
    ASSUME IInv, NEW t \in Closers, FinishChecks(t)
    PROVE  IInv'
<1>1. Alone(t)
  BY OwnerIsAlone DEF FinishChecks
<1> USE UploadAssumption DEF IInv, TypeOK, FinishChecks, Goto, Alone, setting,
       remote, chunkVars, finishVars, history
<1>2. TypeOK'
  BY <1>1 DEF Contents, Pieces, Modes, ChunkSteps, CloserSteps
<1>3. Unstarted' /\ Owned' /\ Checked'
  BY <1>1 DEF Unstarted, Owned, OneOwner, Owners, Checked, AfterTheHash,
      MayHaveTouched, Verified
<1>4. Apart' /\ Counted' /\ Kept'
  BY <1>1 DEF Apart, Counted, Kept, InTemporary, AtDestination
<1>5. Quiet'
  BY <1>1 DEF Quiet, Owners, OnTheirWay
<1>6. Delivered'
  BY <1>1 DEF Delivered, Checked, AfterTheHash, Verified, Quiet, Owners,
      OnTheirWay
<1>7. Unmixed'
  BY <1>1 DEF Unmixed, NoOld, Apart
<1> QED BY <1>2, <1>3, <1>4, <1>5, <1>6, <1>7

LEMMA FinishRenamesKeeps ==
    ASSUME IInv, NEW t \in Closers, FinishRenames(t)
    PROVE  IInv'
<1>1. Alone(t)
  BY OwnerIsAlone DEF FinishRenames
<1> USE UploadAssumption DEF IInv, TypeOK, FinishRenames, Rename, Renamable,
       Goto, Alone, setting, remote, chunkVars, finishVars, history
<1>2. TypeOK'
  BY <1>1 DEF Contents, Pieces, Modes, ChunkSteps, CloserSteps
<1>3. Unstarted' /\ Owned' /\ Checked'
  BY <1>1 DEF Unstarted, Owned, OneOwner, Owners, Checked, AfterTheHash,
      MayHaveTouched, Verified
<1>4. Apart' /\ Counted' /\ Kept'
  BY <1>1 DEF Apart, Counted, Kept, InTemporary, AtDestination
<1>5. Quiet'
  BY <1>1 DEF Quiet, Owners, OnTheirWay
<1>6. Delivered'
  BY <1>1 DEF Delivered, Checked, AfterTheHash, Verified, Quiet, Owners,
      OnTheirWay
<1>7. Unmixed'
  BY <1>1 DEF Unmixed, NoOld, Apart
<1> QED BY <1>2, <1>3, <1>4, <1>5, <1>6, <1>7

LEMMA FinishKeepsTempKeeps ==
    ASSUME IInv, NEW t \in Closers, FinishKeepsTemp(t)
    PROVE  IInv'
<1>1. Alone(t)
  BY OwnerIsAlone DEF FinishKeepsTemp
<1> USE UploadAssumption DEF IInv, TypeOK, FinishKeepsTemp, Renamable, Goto,
       Alone, setting, remote, chunkVars, finishVars, history
<1>2. TypeOK'
  BY <1>1 DEF Contents, Pieces, Modes, ChunkSteps, CloserSteps
<1>3. Unstarted' /\ Owned' /\ Checked'
  BY <1>1 DEF Unstarted, Owned, OneOwner, Owners, Checked, AfterTheHash,
      MayHaveTouched, Verified
<1>4. Apart' /\ Counted' /\ Kept'
  BY <1>1 DEF Apart, Counted, Kept, InTemporary, AtDestination
<1>5. Quiet'
  BY <1>1 DEF Quiet, Owners, OnTheirWay
<1>6. Delivered'
  BY <1>1 DEF Delivered, Checked, AfterTheHash, Verified, Quiet, Owners,
      OnTheirWay
<1>7. Unmixed'
  BY <1>1 DEF Unmixed, NoOld, Apart
<1> QED BY <1>2, <1>3, <1>4, <1>5, <1>6, <1>7

\* A finish puts l, what it has read or a part of it, behind what the host has.
LEMMA PutKeeps ==
    ASSUME IInv, NEW t \in Closers, NEW l \in Contents,
           NEW step \in {"unlink", "failed"},
           step = "unlink" => l = read[t],
           pc[t] = "put", PutAtDest(t, l), Goto(t, step),
           UNCHANGED <<setting, bytes, started, chunkVars, finishVars, calm>>
    PROVE  IInv'
<1> DEFINE old == IF dest = None THEN <<>> ELSE data[dest]
           f == dest'
<1>1. Alone(t) /\ t \notin touched /\ touched = {}
  BY OwnerIsAlone DEF Alone, IInv, Checked, Apart, MayHaveTouched
<1>2. f \in Files /\ f # temp /\ (\A c \in Chunks : fd[c] # f) /\ temp' = temp
  <2>1. CASE dest = None
    BY <2>1, FreshFile DEF PutAtDest, Unused, IInv
  <2>2. CASE dest # None
    BY <2>2, <1>1 DEF PutAtDest, IInv, TypeOK, Apart
  <2> QED BY <2>1, <2>2
<1>3. old \in Contents /\ old \in {<<>>, <<"old">>}
  BY <1>1 DEF IInv, TypeOK, Delivered, Contents
<1>4. data' = [data EXCEPT ![f] = old \o l]
  <2>1. CASE dest = None
    BY <2>1 DEF PutAtDest
  <2>2. CASE dest # None
    BY <2>2 DEF PutAtDest
  <2> QED BY <2>1, <2>2
<1>5. old \o l \in Contents /\ (old \o l = l \/ old \o l = <<"old">> \o l)
  <2>1. <<>> \o l = l
    BY DEF Contents
  <2> QED BY <1>3, <2>1, Joined
<1>6. touched' = touched \cup {t} /\ pc' = [pc EXCEPT ![t] = step] /\ f = dest'
  BY DEF PutAtDest, Goto
<1>7. temp # None /\ InTemporary(t) /\ Verified(t) /\ mode = "append"
  BY DEF IInv, Kept, InTemporary, Checked, AfterTheHash, Unmixed
<1>8. step = "unlink" => Len(old) \in 0..Len(old \o l) /\ StandsBehind(read[t], Len(old), old \o l)
  BY <1>3, StandsWhole
<1> HIDE DEF old, f
<1> USE UploadAssumption DEF IInv, TypeOK, Alone, setting, chunkVars, finishVars
<1>11. TypeOK'
  BY <1>1, <1>2, <1>4, <1>5, <1>6, <1>7 DEF Contents, Pieces, Modes,
      ChunkSteps, CloserSteps
<1>12. Unstarted' /\ Owned' /\ Checked'
  BY <1>1, <1>2, <1>4, <1>5, <1>6, <1>7 DEF Unstarted, Owned, OneOwner, Owners,
      Checked, AfterTheHash, MayHaveTouched, Verified
<1>15. Apart' /\ Counted'
  BY <1>1, <1>2, <1>4, <1>5, <1>6, <1>7 DEF Apart, Counted
<1>16. Kept'
  <2>1. data'[temp] = data[temp] /\ data'[f] = old \o l /\ f # None
    BY <1>2, <1>4, <1>7
  <2>2. InTemporary(t)'
    BY <1>2, <1>7, <2>1 DEF InTemporary
  <2>3. step = "unlink" => AtDestination(t)'
    <3>1. SUFFICES ASSUME step = "unlink"
                   PROVE  \E k \in 0..Len(data'[f]) : StandsBehind(read'[t], k, data'[f])
      BY <1>6, <2>1 DEF AtDestination
    <3>2. read'[t] = read[t]
      OBVIOUS
    <3> QED BY <1>8, <2>1, <3>1, <3>2
  <2>4. \A u \in Closers \ {t} : pc'[u] \in {"idle", "unknown"}
    BY <1>1, <1>6
  <2> QED BY <1>6, <2>2, <2>3, <2>4 DEF Kept
<1>18. Quiet'
  <2>1. Owners # {}
    BY DEF Owners
  <2>2. \A c \in Chunks : pc'[c] = pc[c] /\ (c \in touched' => c \in touched)
    BY <1>6
  <2> QED BY <2>1, <2>2 DEF Quiet, OnTheirWay
<1>19. Delivered'
  BY <1>1, <1>2, <1>4, <1>5, <1>6, <1>7 DEF Delivered, Checked, AfterTheHash,
      Verified, Quiet, Owners, OnTheirWay
<1>20. Unmixed'
  BY <1>1, <1>2, <1>4, <1>5, <1>6, <1>7 DEF Unmixed, NoOld, Apart
<1> QED BY <1>11, <1>12, <1>15, <1>16, <1>18, <1>19, <1>20

LEMMA FinishPutsKeeps ==
    ASSUME IInv, NEW t \in Closers, FinishPuts(t)
    PROVE  IInv'
<1>1. read[t] \in Contents
  BY DEF IInv, TypeOK
<1> QED BY <1>1, PutKeeps DEF FinishPuts

LEMMA FinishPutFailsKeeps ==
    ASSUME IInv, NEW t \in Closers, FinishPutFails(t)
    PROVE  IInv'
<1>1. CASE \E l \in Landed(read[t]) : PutAtDest(t, l)
  <2>1. PICK l \in Landed(read[t]) : PutAtDest(t, l)
    BY <1>1
  <2>2. read[t] \in Contents
    BY DEF IInv, TypeOK
  <2> QED BY <2>1, <2>2, LandedContents, PutKeeps DEF FinishPutFails
<1>2. CASE UNCHANGED <<remote, touched>>
  <2>a. Alone(t)
    BY OwnerIsAlone DEF FinishPutFails
  <2> USE UploadAssumption DEF IInv, TypeOK, FinishPutFails, Goto, Alone,
         setting, remote, chunkVars, finishVars, history
  <2>1. TypeOK'
    BY <1>2, <2>a DEF Contents, Pieces, Modes, ChunkSteps, CloserSteps
  <2>2. Unstarted' /\ Owned' /\ Checked'
    BY <1>2, <2>a DEF Unstarted, Owned, OneOwner, Owners, Checked,
        AfterTheHash, MayHaveTouched, Verified
  <2>5. Apart' /\ Counted' /\ Kept'
    BY <1>2, <2>a DEF Apart, Counted, Kept, InTemporary, AtDestination
  <2>8. Quiet'
    BY <1>2, <2>a DEF Quiet, Owners, OnTheirWay
  <2>9. Delivered'
    BY <1>2, <2>a DEF Delivered, Checked, AfterTheHash, Verified, Quiet,
        Owners, OnTheirWay
  <2>10. Unmixed'
    BY <1>2, <2>a DEF Unmixed, NoOld, Apart
  <2> QED BY <2>1, <2>2, <2>5, <2>8, <2>9, <2>10
<1> QED BY <1>1, <1>2 DEF FinishPutFails

LEMMA FinishUnlinksKeeps ==
    ASSUME IInv, NEW t \in Closers, FinishUnlinks(t)
    PROVE  IInv'
<1>1. Alone(t)
  BY OwnerIsAlone DEF FinishUnlinks
<1> USE UploadAssumption DEF IInv, TypeOK, FinishUnlinks, Goto, Alone, setting,
       remote, chunkVars, finishVars, history
<1>2. TypeOK'
  BY <1>1 DEF Contents, Pieces, Modes, ChunkSteps, CloserSteps
<1>3. Unstarted' /\ Owned' /\ Checked'
  BY <1>1 DEF Unstarted, Owned, OneOwner, Owners, Checked, AfterTheHash,
      MayHaveTouched, Verified
<1>4. Apart' /\ Counted' /\ Kept'
  BY <1>1 DEF Apart, Counted, Kept, InTemporary, AtDestination
<1>5. Quiet'
  BY <1>1 DEF Quiet, Owners, OnTheirWay
<1>6. Delivered'
  BY <1>1 DEF Delivered, Checked, AfterTheHash, Verified, Quiet, Owners,
      OnTheirWay
<1>7. Unmixed'
  BY <1>1 DEF Unmixed, NoOld, Apart
<1> QED BY <1>2, <1>3, <1>4, <1>5, <1>6, <1>7

LEMMA OtherCreatesKeeps ==
    ASSUME IInv, OtherCreates
    PROVE  IInv'
<1>1. temp = None \/ dest = None => Unused(NewFile)
  BY FreshFile DEF IInv
<1> USE UploadAssumption DEF IInv, TypeOK, OtherCreates, Goto, Unused, setting,
       remote, chunkVars, finishVars, history
<1>2. TypeOK'
  BY <1>1 DEF Contents, Pieces, Modes, ChunkSteps, CloserSteps
<1>3. Unstarted' /\ Owned' /\ Checked'
  BY <1>1 DEF Unstarted, Owned, OneOwner, Owners, Checked, AfterTheHash,
      MayHaveTouched, Verified
<1>4. Apart' /\ Counted' /\ Kept'
  BY <1>1 DEF Apart, Counted, Kept, InTemporary, AtDestination
<1>5. Quiet'
  BY <1>1 DEF Quiet, Owners, OnTheirWay
<1>6. Delivered'
  BY <1>1 DEF Delivered, Checked, AfterTheHash, Verified, Quiet, Owners,
      OnTheirWay
<1>7. Unmixed'
  BY <1>1 DEF Unmixed, NoOld, Apart
<1> QED BY <1>2, <1>3, <1>4, <1>5, <1>6, <1>7

------------------------------------------------------------------------------
(* The invariant holds *)

\* An upload begins in it.
LEMMA InitHolds == Init => IInv
<1> SUFFICES ASSUME Init PROVE IInv
  OBVIOUS
<1>1. Files # {}
  <2>1. SUFFICES ASSUME Files = {} PROVE FALSE
    OBVIOUS
  <2>2. Cardinality(Files) = 0
    BY <2>1, FS_EmptySet
  <2>3. Cardinality(Chunks) \in Nat
    BY FS_CardinalityType, UploadAssumption
  <2> QED BY <2>2, <2>3, UploadAssumption
<1>2. (CHOOSE f \in Files : TRUE) \in Files
  BY <1>1
<1>3. <<"old">> \in Contents /\ <<>> \in Contents
  <2>1. "old" \in Pieces
    BY DEF Pieces
  <2> QED BY <2>1 DEF Contents
<1> USE UploadAssumption DEF Init
<1>4. TypeOK
  BY <1>2, <1>3 DEF TypeOK, ChunkSteps, CloserSteps
<1>5. Unstarted /\ Owned /\ Checked /\ Apart /\ Counted /\ Kept /\ Quiet
  BY DEF Unstarted, Owned, OneOwner, Owners, Checked, AfterTheHash,
      MayHaveTouched, Apart, Counted, Kept, Quiet
<1>6. Delivered /\ Unmixed
  BY <1>2 DEF Delivered, Unmixed
<1> QED BY <1>4, <1>5, <1>6 DEF IInv

\* Every step keeps it.
LEMMA NextKeeps == IInv /\ [Next]_vars => IInv'
<1> SUFFICES ASSUME IInv, [Next]_vars PROVE IInv'
  OBVIOUS
<1>1. CASE StartOk
  BY <1>1, StartOkKeeps
<1>2. CASE StartFails
  BY <1>2, StartFailsKeeps
<1>3. ASSUME NEW c \in Chunks, ChunkBegin(c) \/ ChunkUnknown(c) \/ Chunk(c)
      PROVE  IInv'
  BY <1>3, ChunkBeginKeeps, ChunkUnknownKeeps, ChunkOpenKeeps, ChunkOpenFailsKeeps,
     ChunkWriteKeeps, ChunkWriteFailsKeeps, ChunkCountKeeps DEF Chunk
<1>4. ASSUME NEW t \in Closers, FinishTakes(t) \/ AbortTakes(t) \/ CloserUnknown(t)
      PROVE  IInv'
  BY <1>4, FinishTakesKeeps, AbortTakesKeeps, CloserUnknownKeeps
<1>5. ASSUME NEW t \in Closers, Closer(t)
      PROVE  IInv'
  BY <1>5, CloserGivesUpKeeps, FinishReadsKeeps, FinishDropsKeeps, FinishChecksKeeps,
     FinishRenamesKeeps, FinishKeepsTempKeeps, FinishPutsKeeps, FinishPutFailsKeeps,
     FinishUnlinksKeeps, AbortRemovesKeeps DEF Closer
<1>6. CASE OtherCreates
  BY <1>6, OtherCreatesKeeps
<1>7. CASE UNCHANGED vars
  BY <1>7 DEF vars, setting, remote, chunkVars, finishVars, history, IInv,
      TypeOK,
      Unstarted, Owned, OneOwner, Owners, Checked, Verified, Apart, Counted, Kept,
      InTemporary, AtDestination, Quiet, OnTheirWay, Delivered, Unmixed
<1> QED BY <1>1, <1>2, <1>3, <1>4, <1>5, <1>6, <1>7 DEF Next

\* The inductive invariant holds of every upload, with any number of chunks,
\* finishes and aborts that run side by side.
THEOREM Invariant == Spec => []IInv
BY InitHolds, NextKeeps, PTL DEF Spec

------------------------------------------------------------------------------
(* Theorems *)

\* Every variable of Upload keeps its type.
THEOREM TypeCorrect == Spec => []TypeOK
<1>1. IInv => TypeOK
  BY DEF IInv
<1> QED BY <1>1, Invariant, PTL

\* Of any number of finishes and aborts that race for the entry of the map, one
\* gets it.
THEOREM OwnerIsOne == Spec => []OneOwner
<1>1. IInv => OneOwner
  BY DEF IInv, Owned
<1> QED BY <1>1, Invariant, PTL

\* A finish changes the destination only after it has read, in the temporary,
\* what it was told to expect.
THEOREM TouchesVerified == Spec => []OnlyVerifiedTouches
<1>1. IInv => OnlyVerifiedTouches
  BY DEF IInv, Checked, MayHaveTouched, AfterTheHash, OnlyVerifiedTouches
<1> QED BY <1>1, Invariant, PTL

\* An upload that was aborted has not changed the destination, and never will.
THEOREM AbortTouchesNothing == Spec => []AbortLeavesDest
<1>1. IInv => AbortLeavesDest
  <2> SUFFICES ASSUME IInv, NEW t \in Closers, pc[t] \in {"remove", "aborted"}
               PROVE  touched = {}
    BY DEF AbortLeavesDest
  <2>1. Alone(t)
    BY OwnerIsAlone
  <2>2. t \notin touched
    BY DEF IInv, Checked, MayHaveTouched
  <2> QED BY <2>1, <2>2 DEF Alone, IInv, Apart
<1> QED BY <1>1, Invariant, PTL

\* bytes_total promises no more than the temporary has.
THEOREM TotalsWithin == Spec => []TotalWithinTemp
<1>1. IInv => TotalWithinTemp
  BY DEF IInv, Counted, TotalWithinTemp
<1> QED BY <1>1, Invariant, PTL

\* A finish that starts when no chunk is on its way delivers what it was told
\* to expect.
THEOREM QuietlyDelivered == Spec => []QuietDelivery
<1>1. IInv => QuietDelivery
  BY DEF IInv, Delivered, QuietDelivery
<1> QED BY <1>1, Invariant, PTL

\* No chunk changes the destination but one that was on its way when the upload
\* was closed.
THEOREM StragglersOnly == Spec => []OnlyStragglersTouch
<1>1. IInv => OnlyStragglersTouch
  BY DEF IInv, Quiet, OnlyStragglersTouch
<1> QED BY <1>1, Invariant, PTL

\* What a finish has verified is in the temporary when it was refused; when it
\* failed otherwise it is there, or whole in the destination.
THEOREM NothingLost == Spec => []FailureLosesNothing
<1>1. IInv => FailureLosesNothing
  BY DEF IInv, Kept, FailureLosesNothing
<1> QED BY <1>1, Invariant, PTL

\* In mode create, no step changes what the destination names, or what it holds
\* of the host, unless the server renames over files.
LEMMA CreateStep ==
    ASSUME IInv, Next, mode = "create", dest # None, ~replaces
    PROVE  dest' = dest /\ (data[dest] = <<"old">> => data'[dest] = data[dest])
<1>1. dest \in Files /\ \A t \in Closers : pc[t] # "put"
  BY DEF IInv, TypeOK, Unmixed
<1>2. temp = None => Unused(NewFile)
  BY FreshFile DEF IInv
<1>3. ASSUME data[dest] = <<"old">>
      PROVE  \A c \in Chunks : fd[c] # dest
  <2>1. ~NoOld(<<"old">>)
    BY DEF NoOld
  <2> QED BY <1>1, <1>3, <2>1, UploadAssumption DEF IInv, Unmixed
<1>4. CASE StartOk \/ StartFails
  <2>1. temp = None
    BY <1>4 DEF IInv, Unstarted, StartOk, StartFails
  <2> QED BY <1>1, <1>2, <1>4, <2>1 DEF StartOk, StartFails, remote, IInv, TypeOK, Unused
<1>5. ASSUME NEW c \in Chunks, ChunkBegin(c) \/ ChunkUnknown(c) \/ ChunkCount(c)
      PROVE  UNCHANGED <<dest, data>>
  BY <1>5 DEF ChunkBegin, ChunkUnknown, ChunkCount, remote
<1>6. ASSUME NEW c \in Chunks, ChunkOpen(c) \/ ChunkOpenFails(c)
      PROVE  dest' = dest /\ data'[dest] = data[dest]
  <2>1. CASE temp = None /\ OpenTemp(c)
    BY <1>1, <1>2, <2>1 DEF OpenTemp, IInv, TypeOK, Unused
  <2>2. CASE temp # None /\ OpenTemp(c)
    BY <2>2 DEF OpenTemp
  <2>3. CASE UNCHANGED remote
    BY <2>3 DEF remote
  <2> QED BY <1>6, <2>1, <2>2, <2>3 DEF ChunkOpen, ChunkOpenFails
<1>7. ASSUME NEW c \in Chunks, ChunkWrite(c) \/ ChunkWriteFails(c)
      PROVE  dest' = dest /\ (data[dest] = <<"old">> => data'[dest] = data[dest])
  <2>1. PICK l : WriteOpen(c, l)
    BY <1>7 DEF ChunkWrite, ChunkWriteFails
  <2> QED BY <1>1, <1>3, <2>1 DEF WriteOpen, IInv, TypeOK
<1>8. ASSUME NEW t \in Closers,
             FinishTakes(t) \/ AbortTakes(t) \/ CloserUnknown(t) \/ Closer(t)
      PROVE  UNCHANGED <<dest, data>>
  BY <1>1, <1>8 DEF FinishTakes, AbortTakes, CloserUnknown, Closer,
      CloserGivesUp,
      FinishReads, FinishDrops, AbortRemoves, RemoveTemp, FinishChecks, FinishRenames,
      Rename, Renamable, FinishKeepsTemp, FinishPuts, FinishPutFails, FinishUnlinks,
      remote
<1>9. CASE OtherCreates
  BY <1>9 DEF OtherCreates
<1> QED BY <1>4, <1>5, <1>6, <1>7, <1>8, <1>9 DEF Next, Chunk

\* On a server that does not rename over files, mode create keeps the file the
\* destination names, whenever it appeared and whatever runs beside.
THEOREM CreateKeeps == Spec => CreateKeepsDest
<1>1. IInv /\ [Next]_vars =>
        [(mode = "create" /\ dest # None /\ ~replaces)
           => dest' = dest /\ (data[dest] = <<"old">> => data'[dest] = data[dest])]_vars
  BY CreateStep
<1> QED BY <1>1, Invariant, PTL DEF Spec, CreateKeepsDest

=============================================================================
