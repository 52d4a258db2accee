---------------------------- MODULE Tools_proofs ----------------------------
(* Proofs about Tools: what a call may change is what was approved, it is  *)
(* recorded once, and a refresh is not undone.                             *)
EXTENDS Tools, SequenceTheorems, TLAPS

------------------------------------------------------------------------------
(* Which host is meant *)

\* A reference means a host of the document, and one the agent may see.
LEMMA MeantIsVisible ==
    ASSUME NEW hosts, NEW ref
    PROVE  Meant(hosts, ref) \subseteq Visible(hosts)
BY DEF Meant, First, Query

LEMMA ResolvedIsVisible ==
    ASSUME NEW hosts, NEW ref, NEW h \in Resolved(hosts, ref)
    PROVE  InScope(h) /\ \E i \in DOMAIN hosts : h = hosts[i]
<1>1. PICK i \in Meant(hosts, ref) : h = hosts[i]
  BY DEF Resolved
<1>2. i \in DOMAIN hosts /\ InScope(hosts[i])
  BY MeantIsVisible DEF Visible
<1> QED BY <1>1, <1>2

\* A reference is the id or the name of what it means, or a part of no other
\* visible name.
LEMMA NoGuess ==
    ASSUME NEW hosts, NEW ref, NEW h \in Resolved(hosts, ref),
           NEW p \in Query(hosts, ref, "")
    PROVE  hosts[p] = h \/ h.id = ref \/ SameText(h.name, ref)
<1> DEFINE byId == {i \in Visible(hosts) : hosts[i].id = ref}
           byName == {i \in Visible(hosts) : SameText(hosts[i].name, ref)}
<1>1. PICK i \in Meant(hosts, ref) : h = hosts[i] /\ Meant(hosts, ref) = {i}
  BY DEF Resolved
<1>2. CASE byId # {}
  <2>1. i \in byId
    BY <1>1, <1>2 DEF Meant, First
  <2> QED BY <1>1, <2>1
<1>3. CASE byId = {} /\ byName # {}
  <2>1. i \in byName
    BY <1>1, <1>3 DEF Meant, First
  <2> QED BY <1>1, <2>1
<1>4. CASE byId = {} /\ byName = {}
  <2>1. Meant(hosts, ref) = Query(hosts, ref, "")
    BY <1>4 DEF Meant
  <2> QED BY <1>1, <2>1
<1> QED BY <1>2, <1>3, <1>4

\* "Substring ambigua = negar com candidatos": no reference, in any document
\* and scope, means a host that the agent may not see, or one of several.
THEOREM NeverGuessed == Spec => []NeverGuesses
<1>1. NeverGuesses
  BY ResolvedIsVisible, NoGuess DEF NeverGuesses
<1> QED BY <1>1, PTL

------------------------------------------------------------------------------
(* The locals of a call *)

ToolNames == DOMAIN Plan \cup Readers \cup {"none"}

\* What a call may still do, and what its records and its end say of it.
Sound(c) ==
    /\ c.state = "work" <=> c.rest # <<>>
    /\ \A i \in DOMAIN c.rest :
          /\ c.rest[i] = "look" =>
                /\ c.tool = "file_edit" /\ ~c.changed
                /\ i = 1 \/ (i = 2 /\ c.rest[1] = "cred")
          /\ c.rest[i] = "load" =>
                c.tool = "refresh_inventory" /\ i = 1 /\ ~c.changed /\ ~c.reached
          /\ c.rest[i] = "drop" => c.tool = "upload_abort" \/ c.records = 1
          /\ c.tool = "upload_abort" \/ c.rest[i] # "drop" => c.records = 0
          /\ i > 1 /\ c.rest[i] = "swap" => c.rest[i - 1] = "load"
          /\ i > 1 /\ c.rest[i] = "reload" => c.rest[i - 1] = "swap"
          /\ c.rest[i] = "ask" => c.tool \in OnHost
          /\ c.rest[i] = "run" => c.tool # "upload_start"
          /\ c.rest[i] = "verify" => c.tool # "upload_abort"
    /\ c.rest # <<>> => c.since # 0 /\ (c.tool \in OnHost => c.target # None)
    /\ c.state = "answered" /\ c.records = 0 =>
          ~c.changed /\ (c.reached => c.tool = "file_edit")

LEMMA IdleType == Idle \in Locals /\ Sound(Idle) /\ None \in Targets \cup {None}
<1>1. "none" \in DOMAIN Plan \cup Readers \cup {"none"}
  OBVIOUS
<1>2. <<>> \in Seq(Stages)
  OBVIOUS
<1>3. 0 \in Versions \cup {0} /\ 0 \in 0..1
  OBVIOUS
<1>4. Idle \in Locals
  BY <1>1, <1>2, <1>3 DEF Idle, Locals
<1> QED BY <1>4 DEF Sound, Idle

LEMMA BegunType ==
    ASSUME refreshed \in Versions, NEW k \in ToolNames, k # "none"
    PROVE  /\ Begun(k) \in Locals
           /\ Begun(k).tool = k /\ Begun(k).state = "idle" /\ Begun(k).rest = <<>>
           /\ Begun(k).records = 0 /\ Begun(k).reached = FALSE
           /\ Begun(k).changed = FALSE
           /\ Begun(k).target = None /\ Begun(k).approved = None
           /\ Begun(k).cred = 0 /\ Begun(k).loaded = 0
           /\ Begun(k).since = refreshed /\ Begun(k).began = refreshed
<1>1. Idle \in Locals
  BY IdleType
<1> QED BY <1>1 DEF Begun, Idle, Locals, ToolNames

\* A call that is over, or has not begun, keeps nothing that could go stale.
Ended(c) ==
    /\ c \in Locals /\ Sound(c)
    /\ c.rest = <<>> /\ c.target = None
    /\ c.cred = 0 /\ c.loaded = 0 /\ c.began = 0

LEMMA AnsweredType ==
    ASSUME NEW c \in Locals
    PROVE  /\ Answered(c) \in Locals
           /\ Answered(c).tool = c.tool /\ Answered(c).rest = <<>>
           /\ Answered(c).state = "answered"
           /\ Answered(c).target = None /\ Answered(c).cred = 0
           /\ Answered(c).loaded = 0 /\ Answered(c).began = 0
           /\ Answered(c).records = c.records
           /\ Answered(c).reached = c.reached /\ Answered(c).changed = c.changed
<1>1. Idle \in Locals /\ Idle.rest = <<>> /\ Idle.target = None /\ Idle.cred = 0
      /\ Idle.loaded = 0 /\ Idle.began = 0
  BY IdleType DEF Idle
<1>2. Answered(c) \in Locals
  <2> DEFINE d1 == [Idle EXCEPT !.tool = c.tool]
             d2 == [d1 EXCEPT !.state = "answered"]
             d3 == [d2 EXCEPT !.records = c.records]
             d4 == [d3 EXCEPT !.reached = c.reached]
             d5 == [d4 EXCEPT !.changed = c.changed]
  <2>1. d1 \in Locals
    BY <1>1 DEF Locals
  <2> HIDE DEF d1
  <2>2. d2 \in Locals
    BY <2>1 DEF Locals
  <2> HIDE DEF d2
  <2>3. d3 \in Locals
    BY <2>2 DEF Locals
  <2> HIDE DEF d3
  <2>4. d4 \in Locals
    BY <2>3 DEF Locals
  <2> HIDE DEF d4
  <2>5. d5 \in Locals
    BY <2>4 DEF Locals
  <2> QED BY <2>5 DEF Answered, d1, d2, d3, d4
<1>3. /\ Answered(c).tool = c.tool /\ Answered(c).state = "answered"
      /\ Answered(c).records = c.records
      /\ Answered(c).reached = c.reached /\ Answered(c).changed = c.changed
  BY <1>1 DEF Answered, Locals
<1>4. /\ Answered(c).rest = <<>> /\ Answered(c).target = None
      /\ Answered(c).cred = 0 /\ Answered(c).loaded = 0
      /\ Answered(c).began = 0
  BY <1>1 DEF Answered, Locals
<1> QED BY <1>2, <1>3, <1>4

LEMMA AnsweredEnds ==
    ASSUME NEW c \in Locals,
           c.records = 0 => ~c.changed /\ (c.reached => c.tool = "file_edit")
    PROVE  Ended(Answered(c))
<1>1. Sound(Answered(c))
  BY AnsweredType DEF Sound
<1> QED BY <1>1, AnsweredType DEF Ended

LEMMA RecordedEnds ==
    ASSUME NEW c \in Locals, c.records = 0
    PROVE  Ended(Recorded(c))
<1> DEFINE bare == Answered(c)
           d == Recorded(c)
<1>1. /\ bare \in Locals /\ bare.rest = <<>> /\ bare.state = "answered"
      /\ bare.target = None /\ bare.cred = 0 /\ bare.records = 0
      /\ bare.loaded = 0 /\ bare.began = 0
  BY AnsweredType
<1>2. d = [bare EXCEPT !.records = @ + 1]
  BY DEF Recorded
<1> HIDE DEF bare, d
<1>3. 0 + 1 \in 0..1
  OBVIOUS
<1>4. d \in Locals
  BY <1>1, <1>2, <1>3 DEF Locals
<1>5. /\ d.rest = <<>> /\ d.state = "answered" /\ d.records = 1
      /\ d.target = None /\ d.cred = 0 /\ d.loaded = 0 /\ d.began = 0
  BY <1>1, <1>2 DEF Locals
<1>6. Ended(d)
  BY <1>4, <1>5 DEF Sound, Ended
<1> QED BY <1>6 DEF d

\* The steps of a plan, and of what is left of it.
LEMMA PlanType ==
    ASSUME NEW k \in DOMAIN Plan
    PROVE  /\ Plan[k] \in Seq(Stages) /\ Plan[k] # <<>>
           /\ \A i \in DOMAIN Plan[k] :
                 /\ Plan[k][i] = "look" =>
                       k = "file_edit" /\ i = 2 /\ Plan[k][1] = "cred"
                 /\ Plan[k][i] = "load" => k = "refresh_inventory" /\ i = 1
                 /\ Plan[k][i] = "drop" => k = "upload_abort"
                 /\ i > 1 /\ Plan[k][i] = "swap" => Plan[k][i - 1] = "load"
                 /\ i > 1 /\ Plan[k][i] = "reload" => Plan[k][i - 1] = "swap"
                 /\ Plan[k][i] = "ask" => k \in OnHost
                 /\ Plan[k][i] = "run" => k # "upload_start"
                 /\ Plan[k][i] = "verify" => k # "upload_abort"
           /\ Plan[k][1] \notin {"swap", "reload"}
<1>1. k \in {"exec", "health_check", "file_get", "file_put", "file_edit",
            "upload_start", "upload_chunk", "upload_finish", "upload_abort",
            "refresh_inventory"}
  BY DEF Plan
<1>2. CASE k = "exec"
  BY <1>2 DEF Plan, Stages, OnHost
<1>3. CASE k = "health_check"
  BY <1>3 DEF Plan, Stages, OnHost
<1>4. CASE k = "file_get"
  BY <1>4 DEF Plan, Stages, OnHost
<1>5. CASE k = "file_put"
  BY <1>5 DEF Plan, Stages, OnHost
<1>6. CASE k = "file_edit"
  BY <1>6 DEF Plan, Stages, OnHost
<1>7. CASE k = "upload_start"
  BY <1>7 DEF Plan, Stages, OnHost
<1>8. CASE k = "upload_chunk"
  BY <1>8 DEF Plan, Stages, OnHost
<1>9. CASE k = "upload_finish"
  BY <1>9 DEF Plan, Stages, OnHost
<1>10. CASE k = "upload_abort"
  BY <1>10 DEF Plan, Stages, OnHost
<1>11. CASE k = "refresh_inventory"
  BY <1>11 DEF Plan, Stages, OnHost
<1> QED BY <1>1, <1>2, <1>3, <1>4, <1>5, <1>6, <1>7, <1>8, <1>9, <1>10, <1>11

LEMMA AtWorkType ==
    ASSUME NEW c \in Locals, c.tool \in DOMAIN Plan, c.records = 0,
           c.since # 0, c.tool \in OnHost => c.target # None,
           ~c.reached, c.changed => c.tool \in OnUpload
    PROVE  /\ AtWork(c) \in Locals /\ Sound(AtWork(c))
           /\ AtWork(c).rest = Plan[c.tool] /\ AtWork(c).state = "work"
           /\ AtWork(c).tool = c.tool /\ AtWork(c).target = c.target
           /\ AtWork(c).approved = c.approved /\ AtWork(c).cred = c.cred
           /\ AtWork(c).since = c.since /\ AtWork(c).began = c.began
           /\ AtWork(c).loaded = c.loaded
<1>1. Plan[c.tool] \in Seq(Stages)
  BY PlanType
<1>2. /\ AtWork(c) \in Locals
      /\ AtWork(c).rest = Plan[c.tool] /\ AtWork(c).state = "work"
      /\ AtWork(c).tool = c.tool /\ AtWork(c).records = 0
      /\ AtWork(c).target = c.target
      /\ AtWork(c).approved = c.approved /\ AtWork(c).cred = c.cred
      /\ AtWork(c).since = c.since /\ AtWork(c).began = c.began
      /\ AtWork(c).loaded = c.loaded
      /\ AtWork(c).reached = c.reached /\ AtWork(c).changed = c.changed
  BY <1>1 DEF AtWork, Locals
<1>3. Sound(AtWork(c))
  <2> DEFINE d == AtWork(c)
             plan == Plan[c.tool]
  <2>1. /\ d.rest = plan /\ d.state = "work" /\ d.tool = c.tool /\ d.records = 0
        /\ d.since # 0 /\ (d.tool \in OnHost => d.target # None)
        /\ ~d.reached
        /\ d.tool \in {"file_edit", "refresh_inventory"} => ~d.changed
    BY <1>2 DEF OnUpload
  <2>2. /\ plan # <<>>
        /\ \A i \in DOMAIN plan :
              /\ plan[i] = "look" => c.tool = "file_edit" /\ i = 2 /\ plan[1] = "cred"
              /\ plan[i] = "load" => c.tool = "refresh_inventory" /\ i = 1
              /\ plan[i] = "drop" => c.tool = "upload_abort"
              /\ i > 1 /\ plan[i] = "swap" => plan[i - 1] = "load"
              /\ i > 1 /\ plan[i] = "reload" => plan[i - 1] = "swap"
              /\ plan[i] = "ask" => c.tool \in OnHost
              /\ plan[i] = "run" => c.tool # "upload_start"
              /\ plan[i] = "verify" => c.tool # "upload_abort"
    BY PlanType
  <2> HIDE DEF d, plan
  <2>3. Sound(d)
    BY <2>1, <2>2 DEF Sound
  <2> QED BY <2>3 DEF d
<1> QED BY <1>2, <1>3

LEMMA TailType ==
    ASSUME NEW s \in Seq(Stages), s # <<>>, Len(s) # 1
    PROVE  /\ Tail(s) \in Seq(Stages) /\ Tail(s) # <<>>
           /\ \A i \in DOMAIN Tail(s) : i + 1 \in DOMAIN s /\ Tail(s)[i] = s[i + 1]
<1>0. Len(s) \in Nat /\ DOMAIN s = 1..Len(s)
  OBVIOUS
<1>1. Len(s) \in Nat /\ Len(s) > 1
  BY <1>0, EmptySeq
<1>2. Tail(s) \in Seq(Stages) /\ Len(Tail(s)) = Len(s) - 1
  BY <1>1
<1>3. DOMAIN Tail(s) = 1..(Len(s) - 1)
  BY <1>2
<1>4. \A i \in 1..(Len(s) - 1) : i + 1 \in 1..Len(s) /\ Tail(s)[i] = s[i + 1]
  BY <1>1
<1>5. Tail(s) # <<>>
  BY <1>1, <1>2
<1> QED BY <1>0, <1>2, <1>3, <1>4, <1>5

\* d is what c is after the first of its steps.
OneOn(c, d) ==
    /\ d \in Locals /\ Sound(d) /\ d.state = "work" /\ d.rest # <<>>
    /\ d.tool = c.tool /\ d.target = c.target /\ d.approved = c.approved
    /\ d.cred = c.cred /\ d.loaded = c.loaded
    /\ d.since = c.since /\ d.began = c.began
    /\ \A i \in DOMAIN d.rest : i + 1 \in DOMAIN c.rest /\ d.rest[i] = c.rest[i + 1]

LEMMA GoneOnType ==
    ASSUME NEW c \in Locals, Sound(c), c.state = "work", Head(c.rest) # "drop"
    PROVE  Ended(GoneOn(c)) \/ OneOn(c, GoneOn(c))
<1>1. c.rest \in Seq(Stages) /\ c.rest # <<>>
  BY DEF Sound, Locals
<1>2. 1 \in DOMAIN c.rest /\ c.rest[1] # "drop"
  BY <1>1
<1>3. c.records = 0
  BY <1>2 DEF Sound
<1>4. CASE Len(c.rest) = 1
  BY <1>3, <1>4, RecordedEnds DEF GoneOn
<1>5. CASE Len(c.rest) # 1
  <2> DEFINE d == GoneOn(c)
             tail == Tail(c.rest)
  <2>1. /\ tail \in Seq(Stages) /\ tail # <<>>
        /\ \A i \in DOMAIN tail :
              i + 1 \in DOMAIN c.rest /\ tail[i] = c.rest[i + 1]
    BY <1>1, <1>5, TailType
  <2>2. d = [c EXCEPT !.rest = tail]
    BY <1>5 DEF GoneOn
  <2> HIDE DEF d, tail
  <2>3. d \in Locals
    BY <2>1, <2>2 DEF Locals
  <2>4. /\ d.rest = tail /\ d.state = "work" /\ d.tool = c.tool /\ d.records = 0
        /\ d.target = c.target /\ d.approved = c.approved /\ d.cred = c.cred
        /\ d.loaded = c.loaded /\ d.since = c.since /\ d.began = c.began
        /\ d.reached = c.reached /\ d.changed = c.changed
    BY <1>3, <2>2 DEF Locals
  <2>5. \A i \in DOMAIN tail :
          /\ tail[i] = "drop" => c.tool = "upload_abort"
          /\ tail[i] = "ask" => c.tool \in OnHost
          /\ tail[i] = "run" => c.tool # "upload_start"
          /\ tail[i] = "verify" => c.tool # "upload_abort"
    BY <1>3, <2>1 DEF Sound
  <2>6. \A i \in DOMAIN tail :
          /\ i > 1 /\ tail[i] = "swap" => tail[i - 1] = "load"
          /\ i > 1 /\ tail[i] = "reload" => tail[i - 1] = "swap"
    <3> SUFFICES ASSUME NEW i \in DOMAIN tail, i > 1
                 PROVE  /\ tail[i] = "swap" => tail[i - 1] = "load"
                        /\ tail[i] = "reload" => tail[i - 1] = "swap"
      OBVIOUS
    <3>1. i \in Nat /\ i - 1 \in DOMAIN tail /\ i - 1 + 1 = i
      <4>1. DOMAIN tail = 1..Len(tail) /\ Len(tail) \in Nat
        BY <2>1
      <4> QED BY <4>1
    <3>2. PICK j \in DOMAIN c.rest : j = i + 1 /\ tail[i] = c.rest[j]
      BY <2>1
    <3>3. j > 1 /\ j - 1 = i /\ tail[i - 1] = c.rest[i]
      BY <2>1, <3>1, <3>2
    <3>4. /\ c.rest[j] = "swap" => c.rest[j - 1] = "load"
          /\ c.rest[j] = "reload" => c.rest[j - 1] = "swap"
      BY <3>3 DEF Sound
    <3> QED BY <3>2, <3>3, <3>4
  <2>0. ASSUME NEW i \in DOMAIN tail
        PROVE  /\ tail[i] = "look" => c.tool = "file_edit" /\ ~c.changed /\ i = 1
               /\ tail[i] # "load"
    <3>1. i \in Nat /\ i > 0
      <4>1. DOMAIN tail = 1..Len(tail) /\ Len(tail) \in Nat
        BY <2>1
      <4> QED BY <4>1
    <3>2. PICK j \in DOMAIN c.rest : j = i + 1 /\ tail[i] = c.rest[j]
      BY <2>1
    <3>3. /\ c.rest[j] = "look" =>
                c.tool = "file_edit" /\ ~c.changed /\ (j = 1 \/ j = 2)
          /\ c.rest[j] = "load" => j = 1
      BY DEF Sound
    <3> QED BY <3>1, <3>2, <3>3
  <2>7. Sound(d)
    <3>1. d.since # 0 /\ (d.tool \in OnHost => d.target # None)
      BY <1>1, <2>4 DEF Sound
    <3> QED BY <2>0, <2>1, <2>4, <2>5, <2>6, <3>1 DEF Sound
  <2>8. OneOn(c, d)
    BY <2>1, <2>3, <2>4, <2>7 DEF OneOn
  <2> QED BY <2>8 DEF d
<1> QED BY <1>4, <1>5

------------------------------------------------------------------------------
(* The invariant *)

NextIs(c, stage) == c.rest # <<>> /\ c.rest[1] = stage

Approved(c) == c.target # None /\ c.approved = c.target

\* Whatever changes the host, or decides to, was approved or will be asked for.
Asked(c) ==
    \A i \in DOMAIN c.rest :
        /\ c.rest[i] \in {"verify", "write", "drop"} =>
              (\E j \in 1..(i - 1) : c.rest[j] = "ask") \/ Approved(c)
        /\ c.rest[i] = "ask" => c.target # None

\* What a call holds is not older than it may be, and a refresh that is about
\* to put its inventory in place does not go back.
Fresh(c) ==
    /\ c.began <= refreshed /\ c.loaded <= saved
    /\ c.cred # 0 => c.cred >= c.began
    /\ NextIs(c, "swap") \/ NextIs(c, "reload") => c.loaded # 0
    /\ ~overlapped =>
          /\ c.target # None => c.target.version >= c.since
          /\ NextIs(c, "swap") => c.loaded >= inv
          /\ NextIs(c, "reload") => c.loaded <= inv

Vouched ==
    \A u \in Open :
        /\ approval = "elicitation" => uploads[u].approved = uploads[u].target
        /\ ~overlapped => uploads[u].target.version >= uploads[u].since

Forward ==
    /\ refreshed <= saved /\ inv <= saved
    /\ opened # 0 => opened >= refreshed
    /\ ~overlapped => refreshed <= inv

OneSwap ==
    ~overlapped =>
        \A t, u \in Calls :
            NextIs(call[t], "swap") /\ NextIs(call[u], "swap") => t = u

CallsFine ==
    \A t \in Calls :
        /\ Sound(call[t])
        /\ approval = "elicitation" => Asked(call[t])
        /\ Fresh(call[t])

IInv == TypeOK /\ CallsFine /\ Vouched /\ Forward /\ OneSwap

\* What holds of the calls after one of them has changed.
LEMMA CallKeeps ==
    ASSUME IInv, NEW t \in Calls, NEW c \in Locals, Becomes(t, c),
           Sound(c), approval = "elicitation" => Asked(c), Fresh(c),
           NextIs(c, "swap") => NextIs(call[t], "swap"),
           UNCHANGED <<approval, saved, inv, refreshed, overlapped>>,
           opened' \in Versions \cup {0}, opened' # 0 => opened' >= refreshed,
           uploads' \in [Calls -> Uploads \cup {None}], Vouched'
    PROVE  IInv'
<1>1. /\ call \in [Calls -> Locals] /\ call' = [call EXCEPT ![t] = c]
  BY DEF IInv, TypeOK, Becomes
<1>2. call' \in [Calls -> Locals]
  BY <1>1
<1>3. \A u \in Calls : call'[u] = IF u = t THEN c ELSE call[u]
  BY <1>1
<1>4. \A u \in Calls :
        /\ Sound(call[u]) /\ Fresh(call[u])
        /\ approval = "elicitation" => Asked(call[u])
  BY DEF IInv, CallsFine
<1>5. \A u \in Calls :
        /\ Sound(call'[u]) /\ Fresh(call'[u])
        /\ approval = "elicitation" => Asked(call'[u])
  <2> SUFFICES ASSUME NEW u \in Calls
               PROVE  /\ Sound(call'[u]) /\ Fresh(call'[u])
                      /\ approval = "elicitation" => Asked(call'[u])
    OBVIOUS
  <2>1. CASE u = t
    BY <1>3, <2>1
  <2>2. CASE u # t
    BY <1>3, <1>4, <2>2
  <2> QED BY <2>1, <2>2
<1>7. CallsFine'
  BY <1>5 DEF CallsFine, Fresh
<1>8. Forward'
  BY DEF IInv, Forward
<1>9. \A u \in Calls : NextIs(call'[u], "swap") => NextIs(call[u], "swap")
  BY <1>3
<1>10. OneSwap'
  BY <1>9 DEF IInv, OneSwap
<1>11. \A u \in Calls : call'[u].rest # <<>> <=> call'[u].state = "work"
  BY <1>5 DEF Sound
<1>12. TypeOK'
  <2>1. /\ approval \in {"elicitation", "agent"} /\ saved \in Versions
        /\ inv \in Versions /\ refreshed \in Versions /\ overlapped \in BOOLEAN
    BY DEF IInv, TypeOK
  <2> QED BY <1>2, <1>11, <2>1 DEF TypeOK
<1> QED BY <1>7, <1>8, <1>10, <1>12 DEF IInv

\* The steps that are the last of a call, or the first of nothing.
LEMMA EndKeeps ==
    ASSUME IInv, NEW t \in Calls, NEW c, Ended(c), Becomes(t, c),
           UNCHANGED <<approval, saved, inv, opened, uploads, refreshed, overlapped>>
    PROVE  IInv'
<1>1. c \in Locals /\ Sound(c) /\ c.rest = <<>>
  BY DEF Ended
<1>2. refreshed \in Nat /\ saved \in Nat
  BY ToolsAssumption DEF IInv, TypeOK, Versions
<1>3. Fresh(c)
  BY <1>1, <1>2 DEF Ended, Fresh, NextIs
<1>4. Asked(c)
  BY <1>1 DEF Asked
<1>5. ~NextIs(c, "swap")
  BY <1>1 DEF NextIs
<1>6. opened' \in Versions \cup {0} /\ (opened' # 0 => opened' >= refreshed)
  BY DEF IInv, TypeOK, Forward
<1>7. uploads' \in [Calls -> Uploads \cup {None}] /\ Vouched'
  BY DEF IInv, TypeOK, Vouched, Open
<1> QED BY <1>1, <1>3, <1>4, <1>5, <1>6, <1>7, CallKeeps

\* What is left of a call that goes on with the rest of its plan; b is what the
\* step made of its locals.
LEMMA WhatIsLeft ==
    ASSUME NEW b \in Locals, b.state = "work", Sound(b), Head(b.rest) # "drop",
           approval = "elicitation" =>
              Asked(b) /\ (Approved(b) \/ Head(b.rest) # "ask")
    PROVE  /\ GoneOn(b) \in Locals /\ Sound(GoneOn(b))
           /\ approval = "elicitation" => Asked(GoneOn(b))
           /\ NextIs(GoneOn(b), "swap") => Head(b.rest) = "load"
           /\ NextIs(GoneOn(b), "reload") => Head(b.rest) = "swap"
           /\ Ended(GoneOn(b)) \/ OneOn(b, GoneOn(b))
<1> DEFINE d == GoneOn(b)
<1>1. /\ b.rest \in Seq(Stages) /\ b.rest # <<>>
      /\ Head(b.rest) = b.rest[1] /\ 1 \in DOMAIN b.rest
  BY DEF Sound, Locals
<1>2. CASE Ended(d)
  <2>1. d \in Locals /\ Sound(d) /\ d.rest = <<>>
    BY <1>2 DEF Ended
  <2> HIDE DEF d
  <2>2. Asked(d) /\ ~NextIs(d, "swap") /\ ~NextIs(d, "reload")
    BY <2>1 DEF Asked, NextIs
  <2> QED BY <1>2, <2>1, <2>2 DEF d
<1>3. CASE OneOn(b, d)
  <2> HIDE DEF d
  <2>1. d \in Locals /\ Sound(d) /\ d.rest \in Seq(Stages) /\ d.rest # <<>>
    BY <1>3 DEF OneOn, Locals
  <2>2. 1 \in DOMAIN d.rest
    BY <2>1, EmptySeq
  <2>3. PICK j \in DOMAIN b.rest : j = 2 /\ d.rest[1] = b.rest[j]
    BY <1>3, <2>2 DEF OneOn
  <2>4. /\ b.rest[j] = "swap" => b.rest[1] = "load"
        /\ b.rest[j] = "reload" => b.rest[1] = "swap"
    <3>1. j > 1 /\ j - 1 = 1
      BY <2>3
    <3>2. /\ b.rest[j] = "swap" => b.rest[j - 1] = "load"
          /\ b.rest[j] = "reload" => b.rest[j - 1] = "swap"
      BY <3>1 DEF Sound
    <3> QED BY <3>1, <3>2
  <2>5. /\ NextIs(d, "swap") => Head(b.rest) = "load"
        /\ NextIs(d, "reload") => Head(b.rest) = "swap"
    BY <1>1, <2>3, <2>4 DEF NextIs
  <2>6. ASSUME approval = "elicitation" PROVE Asked(d)
    <3>1. ASSUME NEW i \in DOMAIN d.rest
          PROVE  /\ d.rest[i] \in {"verify", "write", "drop"} =>
                       (\E m \in 1..(i - 1) : d.rest[m] = "ask") \/ Approved(d)
                 /\ d.rest[i] = "ask" => d.target # None
      <4>1. i \in Nat /\ i + 1 \in DOMAIN b.rest /\ d.rest[i] = b.rest[i + 1]
        BY <1>3, <2>1 DEF OneOn
      <4>2. d.target = b.target /\ d.approved = b.approved
        BY <1>3 DEF OneOn
      <4>3. d.rest[i] = "ask" => d.target # None
        BY <2>6, <4>1, <4>2 DEF Asked
      <4>4. CASE Approved(b)
        BY <4>2, <4>3, <4>4 DEF Approved
      <4>5. CASE ~Approved(b) /\ b.rest[1] # "ask" /\ d.rest[i] \in {"verify", "write", "drop"}
        <5>1. PICK m \in 1..(i + 1 - 1) : b.rest[m] = "ask"
          BY <2>6, <4>1, <4>5 DEF Asked
        <5>2. m # 1 /\ m \in Nat /\ i \in Nat
          BY <4>1, <4>5, <5>1
        <5>3. PICK n \in 1..(i - 1) : n + 1 = m
          <6>1. m - 1 \in 1..(i - 1) /\ m - 1 + 1 = m
            BY <5>1, <5>2
          <6> QED BY <6>1
        <5>4. DOMAIN d.rest = 1..Len(d.rest) /\ Len(d.rest) \in Nat
          BY <2>1
        <5>5. n \in DOMAIN d.rest
          BY <5>2, <5>3, <5>4
        <5>6. d.rest[n] = b.rest[n + 1]
          BY <1>3, <5>5 DEF OneOn
        <5> QED BY <4>3, <5>1, <5>3, <5>6
      <4> QED BY <1>1, <2>6, <4>3, <4>4, <4>5
    <3> QED BY <3>1 DEF Asked
  <2> QED BY <1>3, <2>1, <2>5, <2>6 DEF d
<1> QED BY <1>2, <1>3, GoneOnType

\* Nothing else changes what the rest of a call has to be.
LEMMA LeftIsFresh ==
    ASSUME IInv, NEW b, NEW d, Ended(d) \/ OneOn(b, d), Fresh(b),
           ~NextIs(d, "swap"), ~NextIs(d, "reload")
    PROVE  Fresh(d)
<1>1. refreshed \in Nat /\ saved \in Nat
  BY ToolsAssumption DEF IInv, TypeOK, Versions
<1>2. CASE Ended(d)
  BY <1>1, <1>2 DEF Ended, Fresh
<1>3. CASE OneOn(b, d)
  BY <1>3 DEF OneOn, Fresh
<1> QED BY <1>2, <1>3

------------------------------------------------------------------------------
(* The steps *)

\* What is known of a call that is about to take a step of its plan.
LEMMA AtStep ==
    ASSUME IInv, NEW t \in Calls, NEW stage, Does(t, stage)
    PROVE  /\ call[t] \in Locals /\ Sound(call[t]) /\ Fresh(call[t])
           /\ call[t].state = "work"
           /\ call[t].rest # <<>> /\ call[t].rest[1] = stage
           /\ Head(call[t].rest) = stage
           /\ stage # "drop" => call[t].records = 0
           /\ stage = "drop" => call[t].tool = "upload_abort" \/ call[t].records = 1
           /\ call[t].tool = "upload_abort" => call[t].records = 0
           /\ stage = "look" => call[t].tool = "file_edit" /\ ~call[t].changed
           /\ stage = "load" => ~call[t].changed /\ ~call[t].reached
           /\ stage = "run" => call[t].tool # "upload_start"
           /\ stage = "verify" => call[t].tool # "upload_abort"
           /\ approval = "elicitation" => Asked(call[t])
           /\ stage = "ask" /\ approval = "elicitation" => call[t].target # None
           /\ stage \in {"verify", "write", "drop"} /\ approval = "elicitation" =>
                 Approved(call[t])
<1> DEFINE c == call[t]
<1>1. c \in Locals /\ Sound(c) /\ Fresh(c) /\ (approval = "elicitation" => Asked(c))
  BY DEF IInv, TypeOK, CallsFine
<1>2. c.state = "work" /\ Head(c.rest) = stage
  BY DEF Does
<1> HIDE DEF c
<1>3. c.rest \in Seq(Stages) /\ c.rest # <<>>
  BY <1>1, <1>2 DEF Sound, Locals
<1>4. 1 \in DOMAIN c.rest /\ c.rest[1] = stage
  BY <1>2, <1>3, EmptySeq
<1>5. /\ stage # "drop" => c.records = 0
      /\ stage = "drop" => c.tool = "upload_abort" \/ c.records = 1
      /\ c.tool = "upload_abort" => c.records = 0
      /\ stage = "look" => c.tool = "file_edit" /\ ~c.changed
      /\ stage = "load" => ~c.changed /\ ~c.reached
      /\ stage = "run" => c.tool # "upload_start"
      /\ stage = "verify" => c.tool # "upload_abort"
  BY <1>1, <1>4 DEF Sound
<1>6. /\ stage = "ask" /\ approval = "elicitation" => c.target # None
      /\ stage \in {"verify", "write", "drop"} /\ approval = "elicitation" => Approved(c)
  <2>1. \A j \in 1..(1 - 1) : FALSE
    OBVIOUS
  <2> QED BY <1>1, <1>4, <2>1 DEF Asked
<1> QED BY <1>1, <1>2, <1>3, <1>4, <1>5, <1>6 DEF c

\* A contact says of itself that it reached the host, and whether it changed it.
LEMMA ContactType ==
    ASSUME NEW t \in Calls, call[t] \in Locals
    PROVE  LET b == Contact(t)
           IN  /\ b \in Locals /\ b.state = call[t].state /\ b.rest = call[t].rest
               /\ b.tool = call[t].tool /\ b.records = call[t].records
               /\ b.target = call[t].target /\ b.loaded = call[t].loaded
               /\ b.since = call[t].since /\ b.began = call[t].began
               /\ b.cred = call[t].cred /\ b.approved = call[t].approved
               /\ b.changed = (call[t].changed \/ Changes(call[t]))
<1> DEFINE c == call[t]
           how == c.changed \/ Changes(c)
           d == [c EXCEPT !.reached = TRUE]
<1>1. how \in BOOLEAN
  OBVIOUS
<1>2. Contact(t) = [d EXCEPT !.changed = how]
  BY DEF Contact, Locals
<1> HIDE DEF how, c
<1>3. /\ d \in Locals /\ d.state = c.state /\ d.rest = c.rest
      /\ d.tool = c.tool /\ d.records = c.records
      /\ d.target = c.target /\ d.loaded = c.loaded
      /\ d.since = c.since /\ d.began = c.began
      /\ d.cred = c.cred /\ d.approved = c.approved
  BY DEF Locals, c
<1> HIDE DEF d
<1>4. [d EXCEPT !.changed = how] \in Locals
  BY <1>1, <1>3 DEF Locals
<1> QED BY <1>1, <1>2, <1>3, <1>4 DEF Locals, how, c

\* The calls that end, without anything else changing.
LEMMA Endings ==
    ASSUME IInv, NEW t \in Calls,
           \/ Reads(t) \/ Malformed(t) \/ Denied(t) \/ FindsNoUpload(t) \/ ChunkLimited(t)
           \/ Return(t) \/ Declines(t) \/ CredFails(t) \/ Fails(t)
           \/ LookRefuses(t) \/ Drops(t) \/ LoadFails(t) \/ LoadPanics(t)
    PROVE  IInv'
<1>0. refreshed \in Versions /\ \A u \in Calls : call[u] \in Locals
  BY DEF IInv, TypeOK
<1>a. UNCHANGED <<approval, saved, inv, opened, uploads, refreshed, overlapped>>
  BY DEF Reads, Malformed, Denied, FindsNoUpload, ChunkLimited, Return, Declines,
         CredFails, Fails, LookRefuses, Drops, LoadFails, LoadPanics
<1> SUFFICES \E c : Ended(c) /\ Becomes(t, c)
  BY <1>a, EndKeeps
<1>1. ASSUME NEW k \in Readers \cup OnHost \cup OnUpload
      PROVE  Ended(Recorded(Begun(k))) /\ Ended(Answered(Begun(k)))
  <2>1. k \in ToolNames /\ k # "none"
    BY DEF ToolNames, OnHost, OnUpload, Readers, Plan
  <2>2. Begun(k) \in Locals /\ Begun(k).records = 0 /\ Begun(k).reached = FALSE
        /\ Begun(k).changed = FALSE
    BY <1>0, <2>1, BegunType
  <2> QED BY <2>2, RecordedEnds, AnsweredEnds
<1>2. CASE Reads(t) \/ Malformed(t) \/ Denied(t) \/ FindsNoUpload(t) \/ ChunkLimited(t)
  <2>1. "upload_chunk" \in OnUpload /\ "file_put" \in OnHost
    BY DEF OnUpload, OnHost
  <2>2. \E k \in Readers \cup OnHost \cup OnUpload :
           Becomes(t, Recorded(Begun(k))) \/ Becomes(t, Answered(Begun(k)))
    BY <1>2, <2>1 DEF Reads, Malformed, Denied, FindsNoUpload, ChunkLimited
  <2> QED BY <1>1, <2>2
<1>3. CASE Return(t)
  <2>1. Ended(Idle)
    BY IdleType DEF Ended, Idle
  <2> QED BY <1>3, <2>1 DEF Return
<1>4. CASE Declines(t) \/ CredFails(t) \/ LoadFails(t)
  <2>1. Becomes(t, Recorded(call[t]))
        /\ (Does(t, "ask") \/ Does(t, "cred") \/ Does(t, "load"))
    BY <1>4 DEF Declines, CredFails, LoadFails
  <2>2. call[t] \in Locals /\ call[t].records = 0
    BY <2>1, AtStep
  <2> QED BY <2>1, <2>2, RecordedEnds
<1>5. ASSUME call[t] \in Locals
      PROVE  /\ Contact(t) \in Locals /\ Contact(t).tool = call[t].tool
             /\ Contact(t).records = call[t].records
             /\ Contact(t).changed = (call[t].changed \/ Changes(call[t]))
  BY <1>5, ContactType
<1>6. CASE Fails(t)
  <2>1. PICK stage \in {"run", "write", "look", "verify"} : Does(t, stage)
    BY <1>6 DEF Fails
  <2>2. call[t].records = 0
    BY <2>1, AtStep
  <2> QED BY <1>0, <1>5, <1>6, <2>2, RecordedEnds DEF Fails
<1>7. CASE LookRefuses(t)
  <2>1. /\ call[t].tool = "file_edit" /\ ~call[t].changed
        /\ Head(call[t].rest) = "look"
    BY <1>7, AtStep DEF LookRefuses
  <2>2. ~Contact(t).changed
    BY <1>0, <1>5, <2>1 DEF Changes
  <2>3. Ended(Answered(Contact(t)))
    BY <1>0, <1>5, <2>1, <2>2, AnsweredEnds
  <2> QED BY <1>7, <2>3 DEF LookRefuses
<1>8. CASE LoadPanics(t)
  <2>1. ~call[t].changed /\ ~call[t].reached
    BY <1>8, AtStep DEF LoadPanics
  <2>2. Ended(Answered(call[t]))
    BY <1>0, <2>1, AnsweredEnds
  <2> QED BY <1>8, <2>2 DEF LoadPanics
<1>9. CASE Drops(t)
  <2>1. call[t].tool = "upload_abort" => call[t].records = 0
    BY <1>9, AtStep DEF Drops
  <2>2. call[t].tool # "upload_abort" => call[t].records = 1
    BY <1>9, AtStep DEF Drops
  <2>3. Ended(AfterDrop(Contact(t)))
    <3>1. CASE call[t].tool = "upload_abort"
      BY <1>0, <1>5, <2>1, <3>1, RecordedEnds DEF AfterDrop
    <3>2. CASE call[t].tool # "upload_abort"
      BY <1>0, <1>5, <2>2, <3>2, AnsweredEnds DEF AfterDrop
    <3> QED BY <3>1, <3>2
  <2> QED BY <1>9, <2>3 DEF Drops
<1> QED BY <1>2, <1>3, <1>4, <1>6, <1>7, <1>8, <1>9

\* Who changes a host, of those that resolve it, asks first.
LEMMA PlanAsks ==
    ASSUME NEW k \in OnHost, NEW i \in DOMAIN Plan[k],
           Plan[k][i] \in {"verify", "write", "drop"}
    PROVE  \E j \in 1..(i - 1) : Plan[k][j] = "ask"
<1>1. CASE k = "file_put"
  BY <1>1 DEF Plan
<1>2. CASE k = "upload_start"
  BY <1>2 DEF Plan
<1>3. CASE k = "file_edit"
  BY <1>3 DEF Plan
<1>4. CASE k \in {"exec", "health_check", "file_get"}
  BY <1>4 DEF Plan
<1> QED BY <1>1, <1>2, <1>3, <1>4 DEF OnHost

LEMMA LooksType ==
    ASSUME inv \in Versions, NEW ref, NEW to \in Looks(ref)
    PROVE  to \in Targets /\ to.version = inv
<1>1. PICK h \in Resolved(Documents[inv], ref) : to = [host |-> h, version |-> inv]
  BY DEF Looks
<1>2. h \in ToSet(Documents[inv])
  BY ResolvedIsVisible DEF ToSet
<1> QED BY <1>1, <1>2 DEF Targets

\* What a call begins with, when it begins with b's target.
LEMMA Beginning ==
    ASSUME IInv, NEW t \in Calls, NEW b \in Locals, b.tool \in DOMAIN Plan,
           b.records = 0, b.cred = 0, b.loaded = 0, b.began = refreshed, b.since # 0,
           ~overlapped /\ b.target # None => b.target.version >= b.since,
           b.tool \in OnHost => b.target # None,
           ~b.reached, b.changed => b.tool \in OnUpload,
           b.tool \in OnUpload /\ approval = "elicitation" => Approved(b),
           Becomes(t, AtWork(b)),
           UNCHANGED <<approval, saved, inv, opened, refreshed, overlapped>>,
           uploads' \in [Calls -> Uploads \cup {None}], Vouched'
    PROVE  IInv'
<1> DEFINE c == AtWork(b)
<1>0. /\ b.tool \in OnHost => b.target # None
      /\ b.changed => b.tool \in OnUpload
  OBVIOUS
<1>1. /\ c \in Locals /\ Sound(c) /\ c.rest = Plan[b.tool]
      /\ c.tool = b.tool /\ c.target = b.target /\ c.approved = b.approved
      /\ c.cred = 0 /\ c.loaded = 0 /\ c.began = refreshed /\ c.since = b.since
  BY <1>0, AtWorkType
<1> HIDE DEF c
<1>2. ~NextIs(c, "swap") /\ ~NextIs(c, "reload")
  BY <1>1, PlanType DEF NextIs
<1>3. refreshed \in Nat /\ saved \in Nat
  BY ToolsAssumption DEF IInv, TypeOK, Versions
<1>4. Fresh(c)
  BY <1>1, <1>2, <1>3 DEF Fresh
<1>5. ASSUME approval = "elicitation" PROVE Asked(c)
  <2>1. CASE b.tool \in OnHost
    BY <1>1, <2>1, PlanAsks DEF Asked
  <2>2. CASE b.tool \in OnUpload
    BY <1>1, <1>5, <2>2 DEF Asked, Approved
  <2>3. CASE b.tool = "refresh_inventory"
    <3>1. \A i \in DOMAIN Plan[b.tool] :
             Plan[b.tool][i] \notin {"verify", "write", "drop", "ask"}
      BY <2>3 DEF Plan
    <3> QED BY <1>1, <3>1 DEF Asked
  <2> QED BY <2>1, <2>2, <2>3 DEF Plan, OnHost, OnUpload
<1>6. opened' \in Versions \cup {0} /\ (opened' # 0 => opened' >= refreshed)
  BY DEF IInv, TypeOK, Forward
<1>7. Becomes(t, c)
  BY DEF c
<1> QED BY <1>1, <1>2, <1>4, <1>5, <1>6, <1>7, CallKeeps

LEMMA Beginnings ==
    ASSUME IInv, NEW t \in Calls, Passes(t) \/ FindsUpload(t) \/ Refreshes(t)
    PROVE  IInv'
<1>1. /\ refreshed \in Versions /\ inv \in Versions
      /\ uploads \in [Calls -> Uploads \cup {None}] /\ Vouched
      /\ ~overlapped => refreshed <= inv
  BY DEF IInv, TypeOK, Forward
<1>2. CASE Passes(t)
  <2>1. PICK k \in OnHost, ref \in References : \E to \in Looks(ref) :
          Becomes(t, AtWork([Begun(k) EXCEPT !.target = to]))
    BY <1>2 DEF Passes
  <2>2. PICK to \in Looks(ref) : Becomes(t, AtWork([Begun(k) EXCEPT !.target = to]))
    BY <2>1
  <2>3. to \in Targets /\ to.version = inv /\ to # None
    BY <1>1, LooksType, ToolsAssumption
  <2> DEFINE b == [Begun(k) EXCEPT !.target = to]
  <2>4. k \in ToolNames /\ k # "none" /\ k \in DOMAIN Plan /\ k \notin OnUpload
    BY DEF ToolNames, OnHost, OnUpload, Plan
  <2>5. /\ Begun(k) \in Locals /\ Begun(k).tool = k /\ Begun(k).records = 0
        /\ Begun(k).cred = 0 /\ Begun(k).loaded = 0
        /\ Begun(k).since = refreshed /\ Begun(k).began = refreshed
        /\ Begun(k).reached = FALSE /\ Begun(k).changed = FALSE
    BY <1>1, <2>4, BegunType
  <2>6. /\ b \in Locals /\ b.tool = k /\ b.records = 0 /\ b.cred = 0 /\ b.loaded = 0
        /\ b.since = refreshed /\ b.began = refreshed /\ b.target = to
        /\ ~b.reached /\ ~b.changed
    BY <2>3, <2>5 DEF Locals
  <2> HIDE DEF b
  <2>7. UNCHANGED <<approval, saved, inv, opened, uploads, refreshed, overlapped>>
    BY <1>2 DEF Passes
  <2>8. Vouched' /\ uploads' \in [Calls -> Uploads \cup {None}]
    BY <1>1, <2>7 DEF Vouched, Open
  <2>9. ~overlapped => b.target.version >= b.since
    BY <1>1, <2>3, <2>6 DEF Versions
  <2>10. Becomes(t, AtWork(b))
    BY <2>2 DEF b
  <2>11. b.since # 0
    BY <1>1, <2>6, ToolsAssumption DEF Versions
  <2> QED BY <2>3, <2>4, <2>6, <2>7, <2>8, <2>9, <2>10, <2>11, Beginning
<1>3. CASE FindsUpload(t)
  <2>1. PICK k \in OnUpload, u \in Open :
          /\ Becomes(t, AtWork([Begun(k) EXCEPT
                !.target = TargetOf(u), !.approved = uploads[u].approved,
                !.since = uploads[u].since, !.changed = (k # "upload_chunk")]))
          /\ uploads' = IF k = "upload_chunk" THEN uploads
                        ELSE [uploads EXCEPT ![u] = None]
    BY <1>3 DEF FindsUpload
  <2>2. u \in Calls /\ uploads[u] \in Uploads /\ TargetOf(u) = uploads[u].target
    BY <1>1 DEF Open, TargetOf
  <2>3. /\ uploads[u].target \in Targets /\ uploads[u].target # None
        /\ uploads[u].approved \in Targets \cup {None} /\ uploads[u].since \in Versions
    BY <2>2, ToolsAssumption DEF Uploads
  <2> DEFINE b == [Begun(k) EXCEPT
                !.target = TargetOf(u), !.approved = uploads[u].approved,
                !.since = uploads[u].since, !.changed = (k # "upload_chunk")]
  <2>4. k \in ToolNames /\ k # "none" /\ k \in DOMAIN Plan /\ k \notin OnHost
    BY DEF ToolNames, OnHost, OnUpload, Plan
  <2>5. /\ Begun(k) \in Locals /\ Begun(k).tool = k /\ Begun(k).records = 0
        /\ Begun(k).cred = 0 /\ Begun(k).loaded = 0 /\ Begun(k).began = refreshed
        /\ Begun(k).reached = FALSE
    BY <1>1, <2>4, BegunType
  <2>6. /\ b \in Locals /\ b.tool = k /\ b.records = 0 /\ b.cred = 0 /\ b.loaded = 0
        /\ b.began = refreshed /\ b.target = uploads[u].target
        /\ b.approved = uploads[u].approved /\ b.since = uploads[u].since
        /\ ~b.reached
    BY <2>2, <2>3, <2>5 DEF Locals
  <2> HIDE DEF b
  <2>7. UNCHANGED <<approval, saved, inv, opened, refreshed, overlapped>>
    BY <1>3 DEF FindsUpload
  <2>8. uploads' \in [Calls -> Uploads \cup {None}]
        /\ \A x \in Calls : uploads'[x] = uploads[x] \/ uploads'[x] = None
    BY <1>1, <2>1
  <2>9. Vouched'
    BY <1>1, <2>7, <2>8 DEF Vouched, Open
  <2>10. /\ ~overlapped => b.target.version >= b.since
         /\ approval = "elicitation" => Approved(b)
    BY <1>1, <2>3, <2>6 DEF Vouched, Approved
  <2>11. Becomes(t, AtWork(b))
    BY <2>1 DEF b
  <2>12. b.since # 0
    BY <2>3, <2>6, ToolsAssumption DEF Versions
  <2> QED BY <2>3, <2>4, <2>6, <2>7, <2>8, <2>9, <2>10, <2>11, <2>12, Beginning
<1>4. CASE Refreshes(t)
  <2> DEFINE k == "refresh_inventory"
             b == Begun(k)
  <2>1. k \in ToolNames /\ k # "none" /\ k \in DOMAIN Plan
        /\ k \notin OnHost /\ k \notin OnUpload
    BY DEF ToolNames, OnHost, OnUpload, Plan
  <2>2. /\ b \in Locals /\ b.tool = k /\ b.records = 0 /\ b.target = None
        /\ b.cred = 0 /\ b.loaded = 0 /\ b.began = refreshed
        /\ b.reached = FALSE /\ b.changed = FALSE
    BY <1>1, <2>1, BegunType
  <2>3. Becomes(t, AtWork(b))
        /\ UNCHANGED <<approval, saved, inv, opened, uploads, refreshed, overlapped>>
    BY <1>4 DEF Refreshes
  <2>4. Vouched' /\ uploads' \in [Calls -> Uploads \cup {None}]
    BY <1>1, <2>3 DEF Vouched, Open
  <2>5. b.since # 0
    <3>1. b.since = refreshed
      BY <1>1, <2>1, BegunType
    <3>2. refreshed # 0
      BY <1>1, ToolsAssumption DEF Versions
    <3> QED BY <3>1, <3>2
  <2> HIDE DEF b
  <2> QED BY <2>1, <2>2, <2>3, <2>4, <2>5, Beginning
<1> QED BY <1>2, <1>3, <1>4

\* The steps that a call goes on from, without the inventory changing.
LEMMA Advancing ==
    ASSUME IInv, NEW t \in Calls, NEW stage, stage \notin {"drop", "load", "swap"},
           Does(t, stage), NEW b \in Locals,
           b.state = "work", b.rest = call[t].rest, b.tool = call[t].tool,
           b.records = call[t].records, b.target = call[t].target,
           b.loaded = call[t].loaded, b.since = call[t].since, b.began = call[t].began,
           b.cred = call[t].cred \/ b.cred >= refreshed,
           stage \in {"cred", "look"} => b.changed = call[t].changed,
           approval = "elicitation" =>
              Approved(b) \/ (b.approved = call[t].approved /\ stage # "ask"),
           Becomes(t, GoneOn(b)),
           UNCHANGED <<approval, saved, inv, refreshed, overlapped>>,
           opened' \in Versions \cup {0}, opened' # 0 => opened' >= refreshed,
           uploads' \in [Calls -> Uploads \cup {None}], Vouched'
    PROVE  IInv'
<1> DEFINE c == call[t]
<1>1. /\ c \in Locals /\ Sound(c) /\ Fresh(c) /\ c.state = "work"
      /\ c.rest # <<>> /\ Head(c.rest) = stage
      /\ approval = "elicitation" => Asked(c)
      /\ stage # "drop" => c.records = 0
  BY AtStep
<1>2. /\ b.rest = c.rest /\ b.tool = c.tool /\ b.records = c.records
      /\ b.target = c.target /\ b.loaded = c.loaded /\ b.since = c.since
      /\ b.began = c.began /\ (b.cred = c.cred \/ b.cred >= refreshed)
  OBVIOUS
<1>0. c.rest[1] = stage /\ (stage \in {"cred", "look"} => b.changed = c.changed)
  BY AtStep
<1> HIDE DEF c
<1>3. Sound(b)
  <2>1. \A i \in DOMAIN c.rest :
          /\ c.rest[i] = "look" =>
                c.tool = "file_edit" /\ ~c.changed /\ stage \in {"cred", "look"}
          /\ c.rest[i] # "load"
    BY <1>0, <1>1 DEF Sound
  <2> QED BY <1>0, <1>1, <1>2, <2>1 DEF Sound
<1>4. Fresh(b)
  <2>1. b.cred \in Nat /\ b.began \in Nat /\ refreshed \in Nat
    BY ToolsAssumption DEF Locals, IInv, TypeOK, Versions
  <2>2. b.cred # 0 => b.cred >= b.began
    BY <1>1, <1>2, <2>1 DEF Fresh
  <2> QED BY <1>1, <1>2, <2>2 DEF Fresh, NextIs
<1>5. approval = "elicitation" => Asked(b)
  <2> SUFFICES ASSUME approval = "elicitation" PROVE Asked(b)
    OBVIOUS
  <2>1. CASE Approved(b)
    BY <2>1 DEF Asked, Approved
  <2>2. CASE b.approved = call[t].approved
    BY <1>1, <1>2, <2>2 DEF Asked, Approved, c
  <2> QED BY <2>1, <2>2
<1>6. approval = "elicitation" => Asked(b) /\ (Approved(b) \/ Head(b.rest) # "ask")
  BY <1>1, <1>2, <1>5
<1>7. /\ GoneOn(b) \in Locals /\ Sound(GoneOn(b))
      /\ approval = "elicitation" => Asked(GoneOn(b))
      /\ ~NextIs(GoneOn(b), "swap") /\ ~NextIs(GoneOn(b), "reload")
      /\ Ended(GoneOn(b)) \/ OneOn(b, GoneOn(b))
  BY <1>1, <1>2, <1>3, <1>6, WhatIsLeft
<1>8. Fresh(GoneOn(b))
  BY <1>4, <1>7, LeftIsFresh
<1> QED BY <1>7, <1>8, CallKeeps

LEMMA Advances ==
    ASSUME IInv, NEW t \in Calls,
           Approves(t) \/ GetsCred(t) \/ Succeeds(t) \/ Probes(t) \/ ReloadFails(t)
    PROVE  IInv'
<1>1. /\ saved \in Versions /\ opened \in Versions \cup {0} /\ refreshed \in Versions
      /\ uploads \in [Calls -> Uploads \cup {None}] /\ Vouched
      /\ (opened # 0 => opened >= refreshed) /\ refreshed <= saved
      /\ call[t] \in Locals
  BY DEF IInv, TypeOK, Forward
<1>2. UNCHANGED <<approval, uploads, overlapped>> => Vouched' /\ uploads' \in [Calls -> Uploads \cup {None}]
  BY <1>1 DEF Vouched, Open
<1>3. CASE Approves(t)
  <2> DEFINE b == IF approval = "elicitation"
                  THEN [call[t] EXCEPT !.approved = call[t].target] ELSE call[t]
  <2>1. /\ Does(t, "ask") /\ Becomes(t, GoneOn(b))
        /\ UNCHANGED <<approval, saved, inv, opened, uploads, refreshed, overlapped>>
    BY <1>3 DEF Approves
  <2>2. call[t].state = "work" /\ (approval = "elicitation" => call[t].target # None)
    BY <2>1, AtStep
  <2>3. /\ b \in Locals /\ b.state = "work" /\ b.rest = call[t].rest /\ b.tool = call[t].tool
        /\ b.records = call[t].records /\ b.target = call[t].target
        /\ b.loaded = call[t].loaded /\ b.since = call[t].since
        /\ b.began = call[t].began /\ b.cred = call[t].cred
        /\ b.changed = call[t].changed
        /\ approval = "elicitation" => Approved(b)
    BY <1>1, <2>2 DEF Locals, Approved
  <2> HIDE DEF b
  <2> QED BY <1>1, <1>2, <2>1, <2>3, Advancing
<1>4. CASE GetsCred(t)
  <2> DEFINE b == [call[t] EXCEPT !.cred = opened']
  <2>1. /\ Does(t, "cred") /\ Becomes(t, GoneOn(b)) /\ opened' \in {saved, opened} \ {0}
        /\ UNCHANGED <<approval, saved, inv, uploads, refreshed, overlapped>>
    BY <1>4 DEF GetsCred
  <2>2. call[t].state = "work"
    BY <2>1, AtStep
  <2>3. opened' \in Versions \cup {0} /\ opened' >= refreshed
    BY <1>1, <2>1
  <2>4. /\ b \in Locals /\ b.state = "work" /\ b.rest = call[t].rest /\ b.tool = call[t].tool
        /\ b.records = call[t].records /\ b.target = call[t].target
        /\ b.loaded = call[t].loaded /\ b.since = call[t].since
        /\ b.began = call[t].began /\ b.cred = opened'
        /\ b.approved = call[t].approved /\ b.changed = call[t].changed
    BY <1>1, <2>2, <2>3 DEF Locals
  <2> HIDE DEF b
  <2> QED BY <1>2, <2>1, <2>3, <2>4, Advancing
<1>5. LET b == Contact(t)
      IN  /\ b \in Locals /\ b.state = call[t].state /\ b.rest = call[t].rest
          /\ b.tool = call[t].tool /\ b.records = call[t].records
          /\ b.target = call[t].target /\ b.loaded = call[t].loaded
          /\ b.since = call[t].since /\ b.began = call[t].began
          /\ b.cred = call[t].cred /\ b.approved = call[t].approved
          /\ b.changed = (call[t].changed \/ Changes(call[t]))
  BY <1>1, ContactType
<1>6. CASE Probes(t)
  <2>1. /\ Does(t, "try") /\ Becomes(t, GoneOn(Contact(t)))
        /\ UNCHANGED <<approval, saved, inv, opened, uploads, refreshed, overlapped>>
    BY <1>6 DEF Probes
  <2>2. call[t].state = "work"
    BY <2>1, AtStep
  <2> QED BY <1>1, <1>2, <1>5, <2>1, <2>2, Advancing
<1>7. CASE Succeeds(t)
  <2>1. PICK stage \in {"run", "write", "look", "verify"} : Does(t, stage)
    BY <1>7 DEF Succeeds
  <2>2. /\ Becomes(t, GoneOn(Contact(t)))
        /\ UNCHANGED <<approval, saved, inv, opened, refreshed, overlapped>>
        /\ uploads' = IF call[t].tool = "upload_start"
                      THEN [uploads EXCEPT ![t] = Kept(call[t])] ELSE uploads
    BY <1>7 DEF Succeeds
  <2>3. call[t].state = "work"
    BY <2>1, AtStep
  <2>5. stage = "look" => Contact(t).changed = call[t].changed
    <3>1. stage = "look" =>
             /\ call[t].tool = "file_edit" /\ ~call[t].changed
             /\ Head(call[t].rest) = "look"
      BY <2>1, AtStep
    <3>2. Contact(t).changed \in BOOLEAN /\ call[t].changed \in BOOLEAN
      BY <1>1, <1>5 DEF Locals
    <3> QED BY <1>5, <3>1, <3>2 DEF Changes
  <2>4. Vouched' /\ uploads' \in [Calls -> Uploads \cup {None}]
    <3>1. CASE call[t].tool # "upload_start"
      BY <1>2, <2>2, <3>1
    <3>2. CASE call[t].tool = "upload_start"
      <4> DEFINE c == call[t]
      <4>1. stage \in {"verify", "write"}
        BY <2>1, <3>2, AtStep
      <4>2. approval = "elicitation" => Approved(c)
        BY <2>1, <4>1, AtStep
      <4>3. /\ c \in Locals /\ c.target # None /\ c.since # 0
            /\ ~overlapped => c.target.version >= c.since
        <5>1. c \in Locals /\ Sound(c) /\ Fresh(c) /\ c.rest # <<>>
          BY <2>1, AtStep
        <5>2. c.target # None /\ c.since # 0
          BY <3>2, <5>1 DEF Sound, OnHost
        <5> QED BY <5>1, <5>2 DEF Fresh
      <4>4. /\ Kept(c) \in Uploads
            /\ Kept(c).target = c.target /\ Kept(c).approved = c.approved
            /\ Kept(c).since = c.since
        BY <4>3 DEF Kept, Locals, Uploads
      <4>5. uploads' \in [Calls -> Uploads \cup {None}]
        BY <1>1, <2>2, <3>2, <4>4
      <4>6. \A u \in Calls : uploads'[u] = IF u = t THEN Kept(c) ELSE uploads[u]
        BY <1>1, <2>2, <3>2
      <4>7. Vouched'
        BY <1>1, <2>2, <4>2, <4>3, <4>4, <4>6 DEF Vouched, Open, Approved
      <4> QED BY <4>5, <4>7
    <3> QED BY <3>1, <3>2
  <2> QED BY <1>1, <1>5, <2>1, <2>2, <2>3, <2>4, <2>5, Advancing
<1>8. CASE ReloadFails(t)
  <2>1. /\ Does(t, "reload") /\ Becomes(t, GoneOn(call[t]))
        /\ UNCHANGED <<approval, saved, inv, opened, uploads, refreshed, overlapped>>
    BY <1>8 DEF ReloadFails
  <2>2. call[t].state = "work"
    BY <2>1, AtStep
  <2> QED BY <1>1, <1>2, <2>1, <2>2, Advancing
<1> QED BY <1>3, <1>4, <1>6, <1>7, <1>8

LEMMA MismatchKeeps ==
    ASSUME IInv, NEW t \in Calls, Mismatch(t)
    PROVE  IInv'
<1> DEFINE c == call[t]
           d == [Contact(t) EXCEPT !.records = @ + 1, !.rest = <<"drop">>]
<1>1. /\ c \in Locals /\ Sound(c) /\ Fresh(c) /\ c.state = "work" /\ c.records = 0
      /\ c.rest # <<>> /\ c.tool # "upload_abort"
      /\ approval = "elicitation" => Approved(c)
  BY AtStep DEF Mismatch
<1>2. /\ Becomes(t, d)
      /\ UNCHANGED <<approval, saved, inv, opened, uploads, refreshed, overlapped>>
  BY DEF Mismatch
<1>3. 0 + 1 \in 0..1 /\ <<"drop">> \in Seq(Stages) /\ <<"drop">>[1] = "drop"
      /\ DOMAIN <<"drop">> = {1} /\ <<"drop">> # <<>>
  BY DEF Stages
<1>4. Contact(t) \in Locals /\ Contact(t).records = 0
  BY <1>1, ContactType
<1>5. /\ d \in Locals /\ d.rest = <<"drop">> /\ d.records = 1 /\ d.state = "work"
      /\ d.tool = c.tool /\ d.target = c.target /\ d.approved = c.approved
      /\ d.cred = c.cred /\ d.loaded = c.loaded /\ d.since = c.since /\ d.began = c.began
  <2> DEFINE e == Contact(t)
  <2>1. /\ e.state = "work" /\ e.tool = c.tool /\ e.target = c.target
        /\ e.approved = c.approved /\ e.cred = c.cred /\ e.loaded = c.loaded
        /\ e.since = c.since /\ e.began = c.began
    BY <1>1, ContactType
  <2>0. e \in Locals /\ 1 \in 0..1
    BY <1>3, <1>4
  <2> DEFINE f == [e EXCEPT !.records = 1]
  <2>2. d = [f EXCEPT !.rest = <<"drop">>]
    BY <1>4
  <2> HIDE DEF e, c, d
  <2>3. /\ f \in Locals /\ f.records = 1
        /\ f.state = "work" /\ f.tool = c.tool /\ f.target = c.target
        /\ f.approved = c.approved /\ f.cred = c.cred /\ f.loaded = c.loaded
        /\ f.since = c.since /\ f.began = c.began
    BY <2>0, <2>1 DEF Locals
  <2> HIDE DEF f
  <2> QED BY <1>3, <2>2, <2>3 DEF Locals
<1> HIDE DEF c, d
<1>6. Sound(d)
  <2>1. d.since # 0 /\ (d.tool \in OnHost => d.target # None)
    BY <1>1, <1>5 DEF Sound
  <2>2. d.rest # <<>> /\ \A i \in DOMAIN d.rest : i = 1 /\ d.rest[i] = "drop"
    BY <1>3, <1>5
  <2>3. d.state = "work" /\ d.records = 1 /\ d.tool # "upload_abort"
    BY <1>1, <1>5
  <2> QED BY <2>1, <2>2, <2>3 DEF Sound
<1>7. Fresh(d) /\ ~NextIs(d, "swap")
  BY <1>1, <1>3, <1>5 DEF Fresh, NextIs
<1>8. approval = "elicitation" => Asked(d)
  BY <1>1, <1>3, <1>5 DEF Asked, Approved
<1>9. opened' \in Versions \cup {0} /\ (opened' # 0 => opened' >= refreshed)
  BY <1>2 DEF IInv, TypeOK, Forward
<1>10. Vouched' /\ uploads' \in [Calls -> Uploads \cup {None}]
  BY <1>2 DEF IInv, TypeOK, Vouched, Open
<1> QED BY <1>2, <1>5, <1>6, <1>7, <1>8, <1>9, <1>10, CallKeeps

LEMMA VersionsAreNat ==
    /\ Versions \subseteq Nat
    /\ \A c \in Locals :
          c.cred \in Nat /\ c.loaded \in Nat /\ c.since \in Nat /\ c.began \in Nat
<1>1. Versions \subseteq Nat
  BY ToolsAssumption DEF Versions
<1>2. \A x \in Versions \cup {0} : x \in Nat
  BY <1>1
<1>3. \A c \in Locals :
        /\ c.cred \in Versions \cup {0} /\ c.loaded \in Versions \cup {0}
        /\ c.since \in Versions \cup {0} /\ c.began \in Versions \cup {0}
  BY DEF Locals
<1> QED BY <1>1, <1>2, <1>3

CallsFresh == \A u \in Calls : Fresh(call[u])

\* A step of one call that changes more than that call.
LEMMA Assembled ==
    ASSUME IInv, NEW t \in Calls, NEW c \in Locals, Becomes(t, c), Sound(c),
           approval = "elicitation" => Asked(c),
           UNCHANGED <<approval, saved, uploads>>, inv' \in Versions,
           opened' \in Versions \cup {0}, refreshed' \in Versions,
           overlapped' \in BOOLEAN, overlapped => overlapped',
           CallsFresh', Forward', OneSwap'
    PROVE  IInv'
<1>1. /\ call \in [Calls -> Locals] /\ call' = [call EXCEPT ![t] = c]
  BY DEF IInv, TypeOK, Becomes
<1>2. call' \in [Calls -> Locals]
  BY <1>1
<1>3. \A u \in Calls : call'[u] = IF u = t THEN c ELSE call[u]
  BY <1>1
<1>4. \A u \in Calls :
        Sound(call'[u]) /\ (approval = "elicitation" => Asked(call'[u]))
  BY <1>3 DEF IInv, CallsFine
<1>5. CallsFine'
  BY <1>4 DEF CallsFine, CallsFresh
<1>6. \A u \in Calls : call'[u].rest # <<>> <=> call'[u].state = "work"
  BY <1>4 DEF Sound
<1>7. TypeOK'
  <2>1. /\ approval \in {"elicitation", "agent"} /\ saved \in Versions
        /\ uploads \in [Calls -> Uploads \cup {None}]
    BY DEF IInv, TypeOK
  <2> QED BY <1>2, <1>6, <2>1 DEF TypeOK
<1>8. Vouched'
  <2>1. Vouched /\ Open' = Open
    BY DEF IInv, Open
  <2> QED BY <2>1 DEF Vouched
<1> QED BY <1>5, <1>7, <1>8 DEF IInv

\* A refresh that has loaded while no other one is between its load and its
\* swap is the only one there.
LEMMA LoadsKeep ==
    ASSUME IInv, NEW t \in Calls, Loads(t)
    PROVE  IInv'
<1> DEFINE c == call[t]
           b == [c EXCEPT !.loaded = saved]
           d == GoneOn(b)
<1>1. /\ c \in Locals /\ Sound(c) /\ Fresh(c) /\ c.state = "work" /\ c.records = 0
      /\ Head(c.rest) = "load" /\ (approval = "elicitation" => Asked(c))
  BY AtStep DEF Loads
<1>2. /\ Becomes(t, d) /\ overlapped' = (overlapped \/ Loading # {})
      /\ UNCHANGED <<approval, saved, inv, opened, uploads, refreshed>>
  BY DEF Loads
<1>3. /\ saved \in Versions /\ refreshed \in Versions /\ inv \in Versions
      /\ inv <= saved /\ refreshed <= saved /\ opened \in Versions \cup {0}
      /\ overlapped \in BOOLEAN /\ call \in [Calls -> Locals]
      /\ saved \in Nat /\ refreshed \in Nat /\ inv \in Nat
  BY VersionsAreNat DEF IInv, TypeOK, Forward
<1>4. /\ b \in Locals /\ b.rest = c.rest /\ b.state = "work" /\ b.tool = c.tool
      /\ b.records = c.records /\ b.target = c.target /\ b.approved = c.approved
      /\ b.cred = c.cred /\ b.loaded = saved /\ b.since = c.since /\ b.began = c.began
      /\ b.reached = c.reached /\ b.changed = c.changed
  BY <1>1, <1>3 DEF Locals
<1> HIDE DEF b, c
<1>5. Sound(b) /\ (approval = "elicitation" => Asked(b))
  BY <1>1, <1>4 DEF Sound, Asked, Approved
<1>6. /\ d \in Locals /\ Sound(d) /\ (approval = "elicitation" => Asked(d))
      /\ ~NextIs(d, "reload") /\ (Ended(d) \/ OneOn(b, d))
  BY <1>1, <1>4, <1>5, WhatIsLeft
<1> HIDE DEF d
<1>7. /\ d.began <= refreshed /\ d.loaded <= saved
      /\ d.cred # 0 => d.cred >= d.began
      /\ ~overlapped => (d.target # None => d.target.version >= d.since)
      /\ NextIs(d, "swap") => d.loaded = saved
  <2>1. CASE Ended(d)
    BY <1>3, <2>1 DEF Ended, NextIs
  <2>2. CASE OneOn(b, d)
    BY <1>1, <1>3, <1>4, <2>2 DEF OneOn, Fresh
  <2> QED BY <1>6, <2>1, <2>2
<1>8. \A u \in Calls : call'[u] = IF u = t THEN d ELSE call[u]
  BY <1>2, <1>3 DEF Becomes
<1>9. \A u \in Calls : Fresh(call[u])
  BY DEF IInv, CallsFine
<1>10. CallsFresh'
  <2>1. ASSUME NEW u \in Calls PROVE Fresh(call[u])'
    <3>1. CASE u = t
      <4>1. call'[u] = d
        BY <1>8, <3>1
      <4>2. NextIs(d, "swap") => d.loaded # 0 /\ d.loaded >= inv
        BY <1>3, <1>7, ToolsAssumption DEF Versions
      <4> QED BY <1>2, <1>6, <1>7, <4>1, <4>2 DEF Fresh
    <3>2. CASE u # t
      <4>1. call'[u] = call[u] /\ (overlapped => overlapped')
        BY <1>2, <1>8, <3>2
      <4> QED BY <1>2, <1>9, <4>1 DEF Fresh
    <3> QED BY <3>1, <3>2
  <2> QED BY <2>1 DEF CallsFresh
<1>11. Forward'
  BY <1>2 DEF IInv, Forward
<1>12. ASSUME ~overlapped' PROVE \A u \in Calls : ~NextIs(call[u], "swap")
  <2>1. Loading = {}
    BY <1>2, <1>12
  <2>2. ASSUME NEW u \in Calls, NextIs(call[u], "swap") PROVE FALSE
    <3>1. call[u] \in Locals /\ Sound(call[u])
      BY DEF IInv, TypeOK, CallsFine
    <3>2. call[u].rest \in Seq(Stages) /\ call[u].rest # <<>> /\ call[u].rest[1] = "swap"
      BY <2>2, <3>1 DEF NextIs, Locals
    <3>3. Head(call[u].rest) = "swap" /\ call[u].state = "work"
      BY <3>1, <3>2 DEF Sound
    <3> QED BY <2>1, <3>3 DEF Loading, Does
  <2> QED BY <2>2
<1>13. OneSwap'
  BY <1>8, <1>12 DEF OneSwap
<1>14. overlapped' \in BOOLEAN /\ (overlapped => overlapped')
  BY <1>2, <1>3
<1> QED BY <1>2, <1>3, <1>6, <1>10, <1>11, <1>13, <1>14, Assembled

\* The inventory goes forward, for no other refresh is between its load and its
\* swap; refreshes past theirs hold nothing newer.
LEMMA SwapsKeep ==
    ASSUME IInv, NEW t \in Calls, Swaps(t)
    PROVE  IInv'
<1> DEFINE o == call[t]
           c == [o EXCEPT !.changed = TRUE]
           d == GoneOn(c)
<1>0. /\ o \in Locals /\ Sound(o) /\ Fresh(o) /\ o.state = "work"
      /\ Head(o.rest) = "swap" /\ NextIs(o, "swap")
      /\ approval = "elicitation" => Asked(o)
  BY AtStep DEF Swaps, NextIs
<1>b. /\ c \in Locals /\ c.rest = o.rest /\ c.state = o.state /\ c.tool = o.tool
      /\ c.records = o.records /\ c.target = o.target /\ c.approved = o.approved
      /\ c.cred = o.cred /\ c.loaded = o.loaded /\ c.since = o.since
      /\ c.began = o.began
  BY <1>0 DEF Locals
<1> HIDE DEF c, o
<1>1. /\ c \in Locals /\ Sound(c) /\ Fresh(c) /\ c.state = "work"
      /\ Head(c.rest) = "swap" /\ NextIs(c, "swap")
      /\ approval = "elicitation" => Asked(c)
  <2>1. \A i \in DOMAIN o.rest : o.rest[i] # "look" /\ o.rest[i] # "load"
    BY <1>0 DEF Sound, NextIs
  <2>2. Sound(c)
    BY <1>0, <1>b, <2>1 DEF Sound
  <2> QED BY <1>0, <1>b, <2>2 DEF Fresh, NextIs, Asked, Approved
<1>2. /\ Becomes(t, d) /\ inv' = c.loaded
      /\ UNCHANGED <<approval, saved, opened, uploads, refreshed, overlapped>>
  BY <1>b DEF Swaps, c, o
<1>3. /\ saved \in Versions /\ refreshed \in Versions /\ inv \in Versions
      /\ inv <= saved /\ refreshed <= saved /\ opened \in Versions \cup {0}
      /\ ~overlapped => refreshed <= inv
      /\ overlapped \in BOOLEAN /\ call \in [Calls -> Locals]
      /\ saved \in Nat /\ refreshed \in Nat /\ inv \in Nat
  BY VersionsAreNat DEF IInv, TypeOK, Forward
<1>4. /\ d \in Locals /\ Sound(d) /\ (approval = "elicitation" => Asked(d))
      /\ ~NextIs(d, "swap") /\ (Ended(d) \/ OneOn(c, d))
  BY <1>1, WhatIsLeft
<1>5. ~overlapped => c.loaded >= inv
  BY <1>1 DEF Fresh
<1>6. c.loaded \in Versions \cup {0} /\ c.loaded <= saved
  BY <1>1 DEF Locals, Fresh
<1>7. c.loaded \in Versions /\ c.loaded # 0
  BY <1>1, <1>6 DEF Fresh
<1> HIDE DEF d
<1>8. /\ d.began <= refreshed /\ d.loaded <= saved
      /\ d.cred # 0 => d.cred >= d.began
      /\ ~overlapped => (d.target # None => d.target.version >= d.since)
      /\ NextIs(d, "reload") => d.loaded = c.loaded
  <2>1. CASE Ended(d)
    BY <1>3, <2>1 DEF Ended, NextIs
  <2>2. CASE OneOn(c, d)
    BY <1>1, <1>3, <2>2 DEF OneOn, Fresh
  <2> QED BY <1>4, <2>1, <2>2
<1>9. \A u \in Calls : call'[u] = IF u = t THEN d ELSE call[u]
  BY <1>2, <1>3 DEF Becomes
<1>10. \A u \in Calls : Fresh(call[u]) /\ call[u].loaded \in Nat
  BY <1>3, VersionsAreNat DEF IInv, CallsFine
<1>11. ASSUME NEW u \in Calls, u # t, ~overlapped PROVE ~NextIs(call[u], "swap")
  BY <1>0, <1>11 DEF IInv, OneSwap, o
<1>12. ASSUME NEW u \in Calls PROVE Fresh(call[u])'
  <2>1. CASE u = t
    <3>1. call'[u] = d
      BY <1>9, <2>1
    <3>2. c.loaded \in Nat /\ c.loaded <= c.loaded
      BY <1>1, VersionsAreNat
    <3>3. NextIs(d, "reload") => d.loaded # 0 /\ d.loaded <= c.loaded
      BY <1>7, <1>8, <3>2
    <3> QED BY <1>2, <1>4, <1>8, <3>1, <3>3 DEF Fresh
  <2>2. CASE u # t
    <3>1. call'[u] = call[u]
      BY <1>9, <2>2
    <3>2. ~overlapped => ~NextIs(call[u], "swap")
      BY <1>11, <2>2
    <3>3. ~overlapped => (NextIs(call[u], "reload") => call[u].loaded <= c.loaded)
      <4>1. ~overlapped => (NextIs(call[u], "reload") => call[u].loaded <= inv)
        BY <1>10 DEF Fresh
      <4>2. call[u].loaded \in Nat /\ c.loaded \in Nat
        BY <1>1, <1>10, VersionsAreNat
      <4> QED BY <1>3, <1>5, <4>1, <4>2
    <3> QED BY <1>2, <1>10, <3>1, <3>2, <3>3 DEF Fresh
  <2> QED BY <2>1, <2>2
<1>13. CallsFresh'
  BY <1>12 DEF CallsFresh
<1>14. Forward'
  <2>1. c.loaded \in Nat
    BY <1>1, VersionsAreNat
  <2>2. inv' <= saved /\ (~overlapped => refreshed <= inv')
    BY <1>2, <1>3, <1>5, <1>6, <2>1
  <2> QED BY <1>2, <1>3, <2>2 DEF IInv, Forward
<1>15. OneSwap'
  <2>1. \A u \in Calls : NextIs(call'[u], "swap") => NextIs(call[u], "swap")
    BY <1>4, <1>9
  <2> QED BY <1>2, <2>1 DEF IInv, OneSwap
<1>16. Becomes(t, d) /\ inv' \in Versions
  BY <1>2, <1>7
<1> QED BY <1>2, <1>3, <1>4, <1>13, <1>14, <1>15, <1>16, Assembled

\* What the daemon reopens is no older than what the refresh loaded.
LEMMA ReloadsKeep ==
    ASSUME IInv, NEW t \in Calls, Reloads(t)
    PROVE  IInv'
<1> DEFINE c == call[t]
           d == GoneOn(c)
<1>1. /\ c \in Locals /\ Sound(c) /\ Fresh(c) /\ c.state = "work"
      /\ Head(c.rest) = "reload" /\ NextIs(c, "reload")
      /\ approval = "elicitation" => Asked(c)
  BY AtStep DEF Reloads, NextIs
<1>2. /\ Becomes(t, d) /\ opened' = saved
      /\ refreshed' = IF c.loaded > refreshed THEN c.loaded ELSE refreshed
      /\ UNCHANGED <<approval, saved, inv, uploads, overlapped>>
  BY DEF Reloads, Reopen
<1>3. /\ saved \in Versions /\ refreshed \in Versions /\ inv \in Versions
      /\ inv <= saved /\ refreshed <= saved
      /\ ~overlapped => refreshed <= inv
      /\ overlapped \in BOOLEAN /\ call \in [Calls -> Locals]
      /\ saved \in Nat /\ refreshed \in Nat /\ inv \in Nat
  BY VersionsAreNat DEF IInv, TypeOK, Forward
<1>4. /\ d \in Locals /\ Sound(d) /\ (approval = "elicitation" => Asked(d))
      /\ ~NextIs(d, "swap") /\ ~NextIs(d, "reload") /\ (Ended(d) \/ OneOn(c, d))
  BY <1>1, WhatIsLeft
<1>5. /\ c.loaded \in Versions /\ c.loaded <= saved
      /\ ~overlapped => c.loaded <= inv
  BY <1>1 DEF Locals, Fresh
<1> HIDE DEF c, d
<1>6. /\ refreshed' \in Versions /\ refreshed' >= refreshed /\ refreshed' <= saved
      /\ ~overlapped => refreshed' <= inv
  <2>1. c.loaded \in Nat
    BY <1>1, VersionsAreNat
  <2> QED BY <1>2, <1>3, <1>5, <2>1
<1>7. Fresh(d)
  BY <1>1, <1>4, LeftIsFresh
<1>8. \A u \in Calls : call'[u] = IF u = t THEN d ELSE call[u]
  BY <1>2, <1>3 DEF Becomes
<1>9. ASSUME NEW x \in Locals, Fresh(x) PROVE x.began <= refreshed'
  <2>1. x.began \in Nat /\ refreshed' \in Nat /\ x.began <= refreshed
    BY <1>6, <1>9, VersionsAreNat DEF Fresh
  <2> QED BY <1>3, <1>6, <2>1
<1>10. \A u \in Calls : call'[u] \in Locals /\ Fresh(call'[u])
  <2>1. \A u \in Calls : Fresh(call[u])
    BY DEF IInv, CallsFine
  <2> QED BY <1>3, <1>4, <1>7, <1>8, <2>1
<1>11. ASSUME NEW u \in Calls PROVE Fresh(call[u])'
  <2>1. call'[u] \in Locals /\ Fresh(call'[u]) /\ call'[u].began <= refreshed'
    BY <1>9, <1>10
  <2> QED BY <1>2, <2>1 DEF Fresh
<1>12. CallsFresh'
  BY <1>11 DEF CallsFresh
<1>13. Forward'
  BY <1>2, <1>3, <1>6 DEF Forward
<1>14. OneSwap'
  <2>1. \A u \in Calls : NextIs(call'[u], "swap") => NextIs(call[u], "swap")
    BY <1>4, <1>8
  <2> QED BY <1>2, <2>1 DEF IInv, OneSwap
<1>15. Becomes(t, d) /\ opened' \in Versions \cup {0}
  BY <1>2, <1>3
<1> QED BY <1>2, <1>3, <1>4, <1>6, <1>12, <1>13, <1>14, <1>15, Assembled

\* Nothing has begun, and the inventory is of the document on disk.
FreshServer ==
    /\ approval \in {"elicitation", "agent"} /\ saved \in Versions /\ inv = saved
    /\ opened = 0 /\ uploads = [u \in Calls |-> None]
    /\ call = [t \in Calls |-> Idle] /\ refreshed = saved /\ overlapped = FALSE

LEMMA FreshStart == FreshServer => IInv
<1> SUFFICES ASSUME FreshServer PROVE IInv
  OBVIOUS
<1> USE DEF FreshServer
<1>1. Idle \in Locals /\ Sound(Idle) /\ Idle.rest = <<>> /\ Idle.state = "idle"
      /\ Idle.began = 0 /\ Idle.loaded = 0 /\ Idle.cred = 0 /\ Idle.target = None
  BY IdleType DEF Idle
<1>2. \A t \in Calls : call[t] = Idle
  OBVIOUS
<1>3. saved \in Nat
  BY VersionsAreNat
<1>4. Fresh(Idle)
  BY <1>1, <1>3 DEF Fresh, NextIs
<1>5. Asked(Idle) /\ ~NextIs(Idle, "swap")
  BY <1>1 DEF Asked, NextIs
<1>6. CallsFine
  BY <1>1, <1>2, <1>4, <1>5 DEF CallsFine
<1>7. TypeOK
  <2>1. call \in [Calls -> Locals] /\ \A t \in Calls : call[t].rest = <<>> /\ call[t].state = "idle"
    BY <1>1, <1>2
  <2>2. uploads \in [Calls -> Uploads \cup {None}]
    OBVIOUS
  <2>3. opened \in Versions \cup {0} /\ overlapped \in BOOLEAN
    OBVIOUS
  <2> QED BY <2>1, <2>2, <2>3 DEF TypeOK
<1>8. Vouched
  BY DEF Vouched, Open
<1>9. Forward /\ OneSwap
  BY <1>2, <1>3, <1>5 DEF Forward, OneSwap
<1> QED BY <1>6, <1>7, <1>8, <1>9 DEF IInv

LEMMA Invariance == IInv /\ [Next]_vars => IInv'
<1> SUFFICES ASSUME IInv, [Next]_vars PROVE IInv'
  OBVIOUS
<1>0. /\ saved \in Versions /\ saved \in Nat /\ refreshed \in Nat /\ inv \in Nat
      /\ refreshed <= saved /\ inv <= saved
      /\ approval \in {"elicitation", "agent"}
  BY VersionsAreNat DEF IInv, TypeOK, Forward
<1>1. ASSUME NEW t \in Calls,
             \/ Reads(t) \/ Malformed(t) \/ Passes(t) \/ Denied(t) \/ Return(t)
             \/ FindsUpload(t) \/ FindsNoUpload(t) \/ ChunkLimited(t)
             \/ Approves(t) \/ Declines(t)
             \/ GetsCred(t) \/ CredFails(t)
             \/ Succeeds(t) \/ Fails(t) \/ Probes(t)
             \/ LookRefuses(t) \/ Mismatch(t) \/ Drops(t)
             \/ Refreshes(t) \/ Loads(t) \/ LoadFails(t) \/ LoadPanics(t)
             \/ Swaps(t) \/ Reloads(t) \/ ReloadFails(t)
      PROVE  IInv'
  BY <1>1, Endings, Beginnings, Advances, MismatchKeeps, LoadsKeep, SwapsKeep,
     ReloadsKeep
<1>2. CASE Save
  <2>1. /\ saved' = saved + 1 /\ saved < Len(Documents)
        /\ UNCHANGED <<approval, inv, opened, uploads, call, refreshed, overlapped>>
    BY <1>2 DEF Save
  <2>2. saved' \in Versions /\ saved' >= saved /\ saved' \in Nat
    BY <1>0, <2>1, ToolsAssumption DEF Versions
  <2>3. TypeOK'
    BY <2>1, <2>2 DEF IInv, TypeOK
  <2>4. ASSUME NEW t \in Calls PROVE Fresh(call[t])'
    <3>1. call[t] \in Locals /\ Fresh(call[t]) /\ call[t].loaded \in Nat
      BY VersionsAreNat DEF IInv, TypeOK, CallsFine
    <3>2. call[t].loaded <= saved'
      <4>1. call[t].loaded <= saved
        BY <3>1 DEF Fresh
      <4> QED BY <1>0, <2>2, <3>1, <4>1
    <3> QED BY <2>1, <3>1, <3>2 DEF Fresh
  <2>5. CallsFine'
    BY <2>1, <2>4 DEF IInv, CallsFine
  <2>6. Forward'
    <3>1. refreshed <= saved' /\ inv <= saved'
      BY <1>0, <2>2
    <3> QED BY <2>1, <3>1 DEF IInv, Forward
  <2>7. Vouched' /\ OneSwap'
    BY <2>1 DEF IInv, Vouched, Open, OneSwap
  <2> QED BY <2>3, <2>5, <2>6, <2>7 DEF IInv
<1>3. CASE DaemonEnds
  <2>1. opened' = 0
        /\ UNCHANGED <<approval, saved, inv, uploads, call, refreshed, overlapped>>
    BY <1>3 DEF DaemonEnds
  <2>2. TypeOK'
    BY <2>1 DEF IInv, TypeOK
  <2>3. CallsFine'
    BY <2>1 DEF IInv, CallsFine, Fresh
  <2>4. Forward' /\ Vouched' /\ OneSwap'
    BY <2>1 DEF IInv, Forward, Vouched, Open, OneSwap
  <2> QED BY <2>2, <2>3, <2>4 DEF IInv
<1>4. CASE Restart
  <2>1. /\ inv' = saved' /\ opened' = 0 /\ uploads' = [u \in Calls |-> None]
        /\ call' = [t \in Calls |-> Idle] /\ refreshed' = saved' /\ overlapped' = FALSE
        /\ UNCHANGED <<approval, saved>>
    BY <1>4 DEF Restart
  <2>2. FreshServer'
    BY <1>0, <2>1 DEF FreshServer
  <2>3. (FreshServer => IInv)'
    BY FreshStart, PTL
  <2> QED BY <2>2, <2>3
<1>5. CASE UNCHANGED vars
  <2>1. UNCHANGED <<approval, saved, inv, opened, uploads, call, refreshed, overlapped>>
    BY <1>5 DEF vars
  <2>2. TypeOK' /\ Forward' /\ Vouched' /\ OneSwap'
    BY <2>1 DEF IInv, TypeOK, Forward, Vouched, Open, OneSwap
  <2>3. CallsFine'
    BY <2>1 DEF IInv, CallsFine, Fresh
  <2> QED BY <2>2, <2>3 DEF IInv
<1> QED BY <1>1, <1>2, <1>3, <1>4, <1>5 DEF Next

\* What every call, upload and refresh keeps, however many run side by side.
THEOREM Invariant == Spec => []IInv
<1>1. Init => IInv
  <2> SUFFICES ASSUME Init PROVE IInv
    OBVIOUS
  <2>1. saved \in Versions /\ inv = saved
    BY ToolsAssumption DEF Init, Versions
  <2> QED BY <2>1, FreshStart DEF Init, FreshServer
<1> QED BY <1>1, Invariance, PTL DEF Spec

------------------------------------------------------------------------------
(* What follows *)

\* The calls, the uploads and the inventory stay what the handlers take them for.
THEOREM TypeCorrect == Spec => []TypeOK
BY Invariant, PTL DEF IInv

\* No call writes two records; and one that answers without any has changed
\* nothing, on a host, in the map of uploads or in the inventory, and has reached
\* no host, unless it is a file_edit refused for what it read there.
THEOREM RecordedOnce == Spec => []AuditedOnce
<1>1. IInv => AuditedOnce
  <2> SUFFICES ASSUME IInv, NEW t \in Calls
               PROVE  /\ call[t].records <= 1
                      /\ call[t].state = "answered" /\ call[t].records = 0 =>
                            /\ ~call[t].changed
                            /\ call[t].reached => call[t].tool = "file_edit"
    BY DEF AuditedOnce
  <2>1. call[t] \in Locals /\ Sound(call[t])
    BY DEF IInv, TypeOK, CallsFine
  <2>2. call[t].records \in 0..1
    BY <2>1 DEF Locals
  <2>3. call[t].records <= 1
    BY <2>2
  <2> QED BY <2>1, <2>3 DEF Sound
<1> QED BY <1>1, Invariant, PTL

\* No call changes a host but the one, at the uri, that the human was shown,
\* with any number of refreshes, uploads and calls in between.
THEOREM OnlyApproved == Spec => []ApprovedTarget
<1>1. IInv => ApprovedTarget
  <2> SUFFICES ASSUME IInv, approval = "elicitation", NEW t \in Calls,
                      Does(t, "write") \/ Does(t, "drop")
               PROVE  call[t].target # None /\ call[t].approved = call[t].target
    BY DEF ApprovedTarget
  <2> QED BY AtStep DEF Approved
<1> QED BY <1>1, Invariant, PTL

\* What calls hold keeps up with the refreshes before them.
THEOREM RefreshesReach == Spec => []RefreshReaches
<1>1. IInv => RefreshReaches
  BY DEF IInv, CallsFine, Fresh, RefreshReaches
<1> QED BY <1>1, Invariant, PTL
=============================================================================
