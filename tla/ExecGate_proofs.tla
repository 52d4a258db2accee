--------------------------- MODULE ExecGate_proofs ---------------------------
(***************************************************************************)
(* TLAPS proofs about RateLimiter (types, the bound on bursts, and that it *)
(* implements BurstLimit), about Policy (what the scan of a segment sees,  *)
(* what a wrapper before a command changes, where rewrite_sudo puts the    *)
(* words of one), and about the gate made of both: it stays a RateLimiter, *)
(* and what it sends is what was judged.                                   *)
(***************************************************************************)
EXTENDS ExecGate, FiniteSetTheorems, SequenceTheorems, TLAPS

LEMMA MaxIsNat == TypeOK => max \in Nat
BY LimitAssumption DEF TypeOK

LEMMA InitTyped == Init => TypeOK
BY DEF Init, TypeOK

LEMMA NextTyped == TypeOK /\ [Next]_vars => TypeOK'
<1> SUFFICES ASSUME TypeOK, [Next]_vars PROVE TypeOK'
  OBVIOUS
<1> USE DEF TypeOK
<1>1. CASE CheckDisabled
  BY <1>1 DEF CheckDisabled, LetThrough
<1>2. CASE CheckOk
  BY <1>2 DEF CheckOk, LetThrough, Count, Roll
<1>3. CASE CheckRefused
  BY <1>3 DEF CheckRefused, Count, Roll
<1>4. CASE Tick
  BY <1>4 DEF Tick
<1>5. CASE UNCHANGED vars
  BY <1>5 DEF vars
<1> QED
  BY <1>1, <1>2, <1>3, <1>4, <1>5 DEF Next

\* Every variable keeps its type, for any limit and window.
THEOREM TypeCorrect == Spec => []TypeOK
BY InitTyped, NextTyped, PTL DEF Spec

------------------------------------------------------------------------------
(* The windows *)

\* After the roll that every check begins with, the invariant still holds of
\* the window the check falls in: an expired window becomes the previous one,
\* and what was in the previous one is now a window older than the start.
LEMMA RollKeepsWindows ==
    ASSUME TypeOK, WindowInv, max # 0,
           NEW s, s = (IF Expired THEN now ELSE started)
    PROVE  /\ s \in Nat /\ s <= now /\ now - s < Window
           /\ Count \in Nat /\ Count <= max /\ Count <= Len(admitted)
           /\ \A i \in 1..Len(admitted) :
                 /\ admitted[i] \in Nat /\ admitted[i] <= now
                 /\ i > Len(admitted) - Count => admitted[i] >= s
                 /\ i <= Len(admitted) - Count => admitted[i] <= s
                 /\ i + max <= Len(admitted) - Count => admitted[i] + Window <= s
<1>1. /\ max \in Nat /\ Len(admitted) \in Nat
      /\ now \in Nat /\ started \in Nat /\ count \in Nat
      /\ \A i \in 1..Len(admitted) : admitted[i] \in Nat
  BY MaxIsNat DEF TypeOK
<1>2. Window \in Nat /\ Window > 0
  BY LimitAssumption
<1>3. CASE Expired
  BY <1>1, <1>2, <1>3 DEF WindowInv, Expired, Count
<1>4. CASE ~Expired
  BY <1>1, <1>2, <1>4 DEF WindowInv, Expired, Count
<1> QED
  BY <1>3, <1>4

LEMMA CheckOkKeepsWindows ==
    ASSUME TypeOK, WindowInv, BurstBounded, CheckOk
    PROVE  WindowInv' /\ BurstBounded'
<1> DEFINE n == Len(admitted)
<1>1. /\ max # 0 /\ Count < max /\ max' = max /\ now' = now /\ count' = Count + 1
      /\ started' = (IF Expired THEN now ELSE started)
      /\ admitted' = Append(admitted, now)
  BY DEF CheckOk, Roll, LetThrough
<1>2. /\ max \in Nat /\ n \in Nat /\ now \in Nat
      /\ Len(admitted') = n + 1
      /\ admitted'[n + 1] = now
      /\ \A i \in 1..n : admitted'[i] = admitted[i]
  BY <1>1, MaxIsNat DEF TypeOK
<1>3. /\ started' \in Nat /\ started' <= now /\ now - started' < Window
      /\ Count \in Nat /\ Count <= max /\ Count <= n
      /\ \A i \in 1..n :
            /\ admitted[i] \in Nat /\ admitted[i] <= now
            /\ i > n - Count => admitted[i] >= started'
            /\ i <= n - Count => admitted[i] <= started'
            /\ i + max <= n - Count => admitted[i] + Window <= started'
  BY <1>1, RollKeepsWindows
<1> HIDE DEF n
<1>4. WindowInv'
  BY <1>1, <1>2, <1>3, LimitAssumption DEF WindowInv
<1>5. BurstBounded'
  <2> SUFFICES ASSUME NEW i \in 1..(n + 1), i + 2 * max <= n + 1
               PROVE  admitted'[i + 2 * max] - admitted'[i] >= Window
    BY <1>1, <1>2 DEF BurstBounded
  <2>1. CASE i + 2 * max <= n
    BY <1>1, <1>2, <2>1, LimitAssumption DEF BurstBounded, n
  <2>2. CASE i + 2 * max = n + 1
    <3>1. i \in 1..n /\ i + max <= n - Count
      BY <1>1, <1>2, <1>3, <2>2, LimitAssumption
    <3> QED
      BY <1>2, <1>3, <2>2, <3>1, LimitAssumption
  <2> QED
    BY <1>2, <2>1, <2>2, LimitAssumption
<1> QED
  BY <1>4, <1>5

LEMMA CheckRefusedKeepsWindows ==
    ASSUME TypeOK, WindowInv, CheckRefused
    PROVE  WindowInv'
<1>1. /\ max # 0 /\ max' = max /\ now' = now /\ count' = Count /\ admitted' = admitted
      /\ started' = (IF Expired THEN now ELSE started)
  BY DEF CheckRefused, Roll
<1> QED
  BY <1>1, RollKeepsWindows DEF WindowInv

LEMMA NextKeepsWindows ==
    TypeOK /\ WindowInv /\ BurstBounded /\ [Next]_vars
    => WindowInv' /\ BurstBounded'
<1> SUFFICES ASSUME TypeOK, WindowInv, BurstBounded, [Next]_vars
             PROVE  WindowInv' /\ BurstBounded'
  OBVIOUS
<1>1. CASE CheckDisabled
  BY <1>1 DEF CheckDisabled, WindowInv, BurstBounded
<1>2. CASE CheckOk
  BY <1>2, CheckOkKeepsWindows
<1>3. CASE CheckRefused
  BY <1>3, CheckRefusedKeepsWindows DEF CheckRefused, BurstBounded
<1>4. CASE Tick
  <2>1. max \in Nat /\ \A i \in 1..Len(admitted) : admitted[i] \in Nat
    BY MaxIsNat DEF TypeOK
  <2>2. now' = now + 1 /\ UNCHANGED <<max, started, count, admitted>>
    BY <1>4 DEF Tick
  <2> QED
    BY <2>1, <2>2 DEF WindowInv, BurstBounded, TypeOK
<1>5. CASE UNCHANGED vars
  BY <1>5 DEF vars, WindowInv, BurstBounded
<1> QED
  BY <1>1, <1>2, <1>3, <1>4, <1>5 DEF Next

LEMMA InitWindows == Init => WindowInv /\ BurstBounded
BY InitTyped, MaxIsNat DEF Init, WindowInv, BurstBounded

LEMMA Windows == Spec => [](TypeOK /\ WindowInv /\ BurstBounded)
BY InitTyped, NextTyped, InitWindows, NextKeepsWindows, PTL DEF Spec

\* However the checks fall on the windows, never more than twice the limit
\* within one window of time.
THEOREM BurstBoundKept == Spec => []BurstBounded
BY Windows, PTL

------------------------------------------------------------------------------
(* The refinement *)

\* Every step of the limiter is a step of BurstLimit, or stutters there.
LEMMA StepImplements ==
    TypeOK /\ WindowInv /\ [Next]_vars => [Limit!Next]_(Limit!vars)
<1> SUFFICES ASSUME TypeOK, WindowInv, [Next]_vars
             PROVE  Limit!Next \/ UNCHANGED <<max, now, admitted, outcome>>
  BY DEF Limit!vars
<1> DEFINE n == Len(admitted)
           s == IF Expired THEN now ELSE started
<1>1. CASE CheckDisabled
  BY <1>1 DEF CheckDisabled, LetThrough, Limit!Next, Limit!Admit
<1>2. ASSUME max # 0
      PROVE  /\ max \in Nat /\ n \in Nat /\ now \in Nat /\ s \in Nat /\ s <= now
             /\ now - s < Window
             /\ Count \in Nat /\ Count <= max /\ Count <= n
             /\ \A i \in 1..n :
                   /\ admitted[i] \in Nat /\ admitted[i] <= now
                   /\ i > n - Count => admitted[i] >= s
                   /\ i <= n - Count => admitted[i] <= s
                   /\ i + max <= n - Count => admitted[i] + Window <= s
  BY <1>2, RollKeepsWindows, MaxIsNat DEF TypeOK
<1> HIDE DEF n, s
<1>3. CASE CheckOk
  <2>1. max # 0 /\ Count < max
    BY <1>3 DEF CheckOk
  <2>2. n >= 2 * max => ~(now - admitted[n - 2 * max + 1] < Window)
    <3> SUFFICES ASSUME n >= 2 * max
                 PROVE  ~(now - admitted[n - 2 * max + 1] < Window)
      OBVIOUS
    <3>1. /\ n - 2 * max + 1 \in 1..n
          /\ (n - 2 * max + 1) + max <= n - Count
      BY <1>2, <2>1, LimitAssumption
    <3> QED
      BY <1>2, <2>1, <3>1, LimitAssumption
  <2>3. ~Limit!Recent(2 * max)
    BY <2>2 DEF Limit!Recent, n
  <2> QED
    BY <1>3, <2>3 DEF CheckOk, LetThrough, Limit!Next, Limit!Admit
<1>4. CASE CheckRefused
  <2>1. max # 0 /\ Count = max
    BY <1>2, <1>4, LimitAssumption DEF CheckRefused
  <2>2. n - max + 1 \in 1..n /\ n - max + 1 > n - Count
    BY <1>2, <2>1, LimitAssumption
  <2>3. now - admitted[n - max + 1] < Window
    BY <1>2, <2>1, <2>2, LimitAssumption
  <2>4. Limit!Recent(max)
    BY <1>2, <2>1, <2>3 DEF Limit!Recent, n
  <2> QED
    BY <1>4, <2>1, <2>4 DEF CheckRefused, Limit!Next, Limit!Refuse
<1>5. CASE Tick
  BY <1>5 DEF Tick, Limit!Next, Limit!Tick, TypeOK
<1>6. CASE UNCHANGED vars
  BY <1>6 DEF vars
<1> QED
  BY <1>1, <1>3, <1>4, <1>5, <1>6 DEF Next

\* The limiter implements BurstLimit.
THEOREM ImplementsLimit == Spec => LimitSpec
<1>1. Init => Limit!Init
  BY DEF Init, Limit!Init
<1> QED
  BY <1>1, Windows, StepImplements, PTL DEF Spec, LimitSpec, Limit!Spec

------------------------------------------------------------------------------
(* What the scan of a segment sees *)

LEMMA Concat ==
    ASSUME NEW S, NEW s \in Seq(S), NEW u \in Seq(S)
    PROVE  /\ s \o u \in Seq(S)
           /\ Len(s \o u) = Len(s) + Len(u)
           /\ \A k \in 1..Len(s) : (s \o u)[k] = s[k]
           /\ \A k \in 1..Len(u) : (s \o u)[Len(s) + k] = u[k]
OBVIOUS

\* Induction up to a bound, on the set of the numbers that a fact holds of.
LEMMA UpTo ==
    ASSUME NEW n \in Nat, NEW S, 0 \in S, \A i \in 0..(n - 1) : i \in S => i + 1 \in S
    PROVE  \A i \in 0..n : i \in S
<1> DEFINE T == (0..n) \ S
<1> SUFFICES ASSUME T # {} PROVE FALSE
  OBVIOUS
<1>1. \E x \in T : \A y \in T : ~ <<y, x>> \in OpToRel(<, Nat)
  <2>1. T \subseteq Nat
    OBVIOUS
  <2> HIDE DEF T
  <2> QED BY <2>1, NatLessThanWellFounded, WFMin, Zenon
<1>2. PICK x \in T : \A y \in T : ~ <<y, x>> \in OpToRel(<, Nat)
  BY <1>1
<1>3. x \in 1..n /\ x \notin S
  OBVIOUS
<1>4. x - 1 \in 0..(n - 1) /\ (x - 1) + 1 = x
  BY <1>3
<1>5. x - 1 \in S
  <2> SUFFICES ASSUME x - 1 \in T PROVE FALSE
    BY <1>4
  <2>1. <<x - 1, x>> \in OpToRel(<, Nat)
    BY <1>3 DEF OpToRel
  <2> QED BY <2>1, <1>2
<1> QED BY <1>3, <1>4, <1>5

\* The recursive function of Seen exists, for as many words as there are.
LEMMA SeenExists ==
    ASSUME NEW segment, NEW n \in Nat
    PROVE  \E f : f = [i \in 0..n |-> IF i = 0 THEN "start" ELSE Skip(f[i - 1], segment[i])]
<1> DEFINE Scan(f, m) ==
        f = [i \in 0..m |-> IF i = 0 THEN "start" ELSE Skip(f[i - 1], segment[i])]
<1> DEFINE S == {m \in Nat : \E f : Scan(f, m)}
<1>1. 0 \in S
  <2>1. Scan([i \in 0..0 |-> "start"], 0)
    OBVIOUS
  <2> QED BY <2>1
<1>2. ASSUME NEW m \in 0..(n - 1), m \in S PROVE m + 1 \in S
  <2>1. PICK f : Scan(f, m)
    BY <1>2
  <2> DEFINE g == [i \in 0..(m + 1) |-> IF i = m + 1 THEN Skip(f[m], segment[i]) ELSE f[i]]
  <2>2. Scan(g, m + 1)
    <3> SUFFICES ASSUME NEW i \in 0..(m + 1)
                 PROVE  g[i] = IF i = 0 THEN "start" ELSE Skip(g[i - 1], segment[i])
      OBVIOUS
    <3>1. CASE i = m + 1
      <4>1. g[i - 1] = f[m]
        BY <3>1
      <4> QED BY <3>1, <4>1
    <3>2. CASE i \in 0..m
      <4>1. i # 0 => i - 1 \in 0..m /\ g[i - 1] = f[i - 1]
        BY <3>2
      <4>2. g[i] = f[i]
        BY <3>2
      <4>3. f[i] = IF i = 0 THEN "start" ELSE Skip(f[i - 1], segment[i])
        BY <2>1, <3>2
      <4> QED BY <4>1, <4>2, <4>3
    <3> QED BY <3>1, <3>2
  <2> HIDE DEF g
  <2> QED BY <2>2
<1> HIDE DEF S
<1>3. n \in S
  BY <1>1, <1>2, UpTo
<1> QED BY <1>3 DEF S

\* One word after the other.
LEMMA SeenIs ==
    ASSUME NEW segment \in Seq(Words)
    PROVE  /\ Seen(segment)[0] = "start"
           /\ \A i \in 1..Len(segment) :
                 Seen(segment)[i] = Skip(Seen(segment)[i - 1], segment[i])
<1> DEFINE f == Seen(segment)
<1>1. Len(segment) \in Nat
  OBVIOUS
<1>2. f = [i \in 0..Len(segment) |-> IF i = 0 THEN "start" ELSE Skip(f[i - 1], segment[i])]
  BY <1>1, SeenExists, Zenon DEF Seen
<1> QED BY <1>1, <1>2

\* Behind the program everything is the program's.
LEMMA Absorbed ==
    ASSUME NEW segment \in Seq(Words), NEW k \in 1..Len(segment),
           Seen(segment)[k] = "program"
    PROVE  \A i \in k..Len(segment) : Seen(segment)[i] = "program"
<1> DEFINE S == {m \in Nat : k + m <= Len(segment) => Seen(segment)[k + m] = "program"}
<1>0. Len(segment) \in Nat /\ k \in Nat /\ k >= 1
  OBVIOUS
<1>1. 0 \in S
  BY <1>0
<1>2. ASSUME NEW m \in 0..(Len(segment) - k - 1), m \in S PROVE m + 1 \in S
  <2>1. k + m \in 1..Len(segment) /\ (k + m) + 1 \in 1..Len(segment)
        /\ k + (m + 1) = (k + m) + 1 /\ ((k + m) + 1) - 1 = k + m
    BY <1>0
  <2>2. Seen(segment)[k + m] = "program"
    BY <1>2, <2>1
  <2>3. Seen(segment)[(k + m) + 1] = Skip(Seen(segment)[k + m], segment[(k + m) + 1])
    BY <2>1, SeenIs
  <2>4. Seen(segment)[(k + m) + 1] = "program"
    BY <2>2, <2>3 DEF Skip
  <2> QED BY <2>1, <2>4
<1> HIDE DEF S
<1>3. \A m \in 0..(Len(segment) - k) : m \in S
  <2>1. Len(segment) - k \in Nat
    BY <1>0
  <2> QED BY <2>1, <1>1, <1>2, UpTo
<1>4. ASSUME NEW i \in k..Len(segment) PROVE Seen(segment)[i] = "program"
  <2>1. i - k \in 0..(Len(segment) - k) /\ k + (i - k) = i
    BY <1>0
  <2>2. i - k \in S
    BY <2>1, <1>3
  <2> QED BY <2>1, <2>2, <1>0 DEF S
<1> QED BY <1>4

\* Where the program of a segment begins: behind the last word, if it has none.
StartsAt(segment, k) ==
    /\ k \in 1..(Len(segment) + 1)
    /\ \A i \in 1..(k - 1) : Seen(segment)[i] # "program"
    /\ k <= Len(segment) => Seen(segment)[k] = "program"

LEMMA ProgramStarts ==
    ASSUME NEW segment \in Seq(Words)
    PROVE  \E k \in 1..(Len(segment) + 1) : StartsAt(segment, k)
<1> SUFFICES ASSUME \A k \in 1..(Len(segment) + 1) : ~StartsAt(segment, k)
             PROVE  FALSE
  OBVIOUS
<1> DEFINE S == {m \in Nat : \A i \in 1..m : Seen(segment)[i] # "program"}
<1>0. Len(segment) \in Nat
  OBVIOUS
<1>1. 0 \in S
  OBVIOUS
<1>2. ASSUME NEW m \in 0..(Len(segment) - 1), m \in S PROVE m + 1 \in S
  <2>1. ~StartsAt(segment, m + 1)
    BY <1>0
  <2>2. Seen(segment)[m + 1] # "program"
    BY <1>2, <2>1, <1>0 DEF StartsAt
  <2> QED BY <1>2, <2>2
<1>3. Len(segment) \in S
  <2> HIDE DEF S
  <2> QED BY <1>0, <1>1, <1>2, UpTo
<1>4. StartsAt(segment, Len(segment) + 1)
  BY <1>0, <1>3 DEF StartsAt
<1> QED BY <1>0, <1>4

LEMMA EffectiveFrom ==
    ASSUME NEW segment \in Seq(Words), NEW k \in 1..(Len(segment) + 1),
           StartsAt(segment, k)
    PROVE  Effective(segment) = SubSeq(segment, k, Len(segment))
<1> DEFINE before == {i \in 1..Len(segment) : Seen(segment)[i] # "program"}
<1>0. Len(segment) \in Nat /\ k \in Nat
  OBVIOUS
<1>1. before = 1..(k - 1)
  <2>1. ASSUME NEW i \in k..Len(segment) PROVE Seen(segment)[i] = "program"
    BY <1>0, <2>1, Absorbed DEF StartsAt
  <2> QED BY <1>0, <2>1 DEF StartsAt
<1>2. Cardinality(1..(k - 1)) + 1 = k
  <2>1. 1 \in Int /\ k - 1 \in Int
    BY <1>0
  <2>2. Cardinality(1..(k - 1)) = IF 1 > k - 1 THEN 0 ELSE (k - 1) - 1 + 1
    BY <2>1, FS_Interval
  <2> QED BY <1>0, <2>2
<1>3. Effective(segment) = SubSeq(segment, Cardinality(before) + 1, Len(segment))
  BY DEF Effective
<1> QED BY <1>1, <1>2, <1>3

\* Two segments that end alike have the same program, when none begins in
\* what is different, and then both begin it at the same word.
LEMMA SameProgram ==
    ASSUME NEW s \in Seq(Words), NEW t \in Seq(Words),
           NEW d \in Nat, NEW b \in 0..Len(s), Len(t) = Len(s) + d,
           \A i \in (b + 1)..Len(s) : t[i + d] = s[i],
           \A i \in 1..b : Seen(s)[i] # "program",
           \A i \in 1..(b + d) : Seen(t)[i] # "program",
           \A i \in (b + 1)..Len(s) :
              Seen(t)[i + d] = "program" <=> Seen(s)[i] = "program"
    PROVE  Effective(t) = Effective(s)
<1>0. Len(s) \in Nat /\ Len(t) \in Nat
  OBVIOUS
<1>1. PICK k \in 1..(Len(s) + 1) : StartsAt(s, k)
  BY ProgramStarts
<1>2. k \in (b + 1)..(Len(s) + 1)
  BY <1>0, <1>1 DEF StartsAt
<1>3. StartsAt(t, k + d)
  <2>1. ASSUME NEW i \in 1..(k + d - 1) PROVE Seen(t)[i] # "program"
    <3>1. CASE i <= b + d
      BY <3>1
    <3>2. CASE i > b + d
      <4>1. i - d \in (b + 1)..Len(s) /\ i - d \in 1..(k - 1) /\ (i - d) + d = i
        BY <1>0, <1>2, <3>2
      <4>2. Seen(s)[i - d] # "program"
        BY <1>1, <4>1 DEF StartsAt
      <4> QED BY <4>1, <4>2
    <3> QED BY <3>1, <3>2, <1>0
  <2>2. k + d <= Len(t) => Seen(t)[k + d] = "program"
    BY <1>0, <1>1, <1>2 DEF StartsAt
  <2>3. k + d \in 1..(Len(t) + 1)
    BY <1>0, <1>2
  <2> QED BY <2>1, <2>2, <2>3 DEF StartsAt
<1>4. Effective(s) = SubSeq(s, k, Len(s))
  BY <1>1, EffectiveFrom
<1>5. Effective(t) = SubSeq(t, k + d, Len(t))
  <2>1. k + d \in 1..(Len(t) + 1)
    BY <1>0, <1>2
  <2> QED BY <1>3, <2>1, EffectiveFrom
<1>6. SubSeq(t, k + d, Len(t)) = SubSeq(s, k, Len(s))
  <2>1. CASE k = Len(s) + 1
    BY <2>1, <1>0
  <2>2. CASE k <= Len(s)
    <3>1. \A i \in k..Len(s) : i \in 1..Len(s) /\ i + d \in 1..Len(t) /\ t[i + d] = s[i]
      BY <1>0, <1>2, <2>2
    <3> QED BY <3>1, <1>0, <1>2, <2>2
  <2> QED BY <2>1, <2>2, <1>0
<1> QED BY <1>4, <1>5, <1>6

------------------------------------------------------------------------------
(* What changes no program *)

\* The options that rewrite_sudo inserts behind a leading sudo are stepped over
\* like it.
LEMMA InsertedSkipped ==
    ASSUME NEW s \in Seq(Words), NEW t \in Seq(Words),
           Len(s) >= 1, Len(t) = Len(s) + 3,
           BaseName(s[1]) \in {"sudo", "doas"}, s[1] \notin Assignments,
           t[1] = s[1], t[2] = "-S", t[3] = "-p", t[4] = "''",
           \A i \in 2..Len(s) : t[i + 3] = s[i]
    PROVE  Effective(t) = Effective(s)
<1>0. /\ Len(s) \in Nat /\ Len(t) \in Nat
      /\ 1 \in 1..Len(s) /\ 1 - 1 = 0
      /\ \A n \in {1, 2, 3, 4} : n \in 1..Len(t)
      /\ 2 - 1 = 1 /\ 3 - 1 = 2 /\ 4 - 1 = 3
  OBVIOUS
<1>1. BaseName(s[1]) \in Wrappers
  BY DEF Wrappers
<1>2. Seen(s)[1] = "wrapped"
  <2>1. Seen(s)[1] = Skip("start", s[1])
    BY <1>0, SeenIs
  <2> QED BY <2>1, <1>1 DEF Skip
<1>3. Seen(t)[1] = "wrapped"
  <2>1. Seen(t)[1] = Skip("start", t[1])
    BY <1>0, SeenIs
  <2> QED BY <2>1, <1>1 DEF Skip
<1>4. Seen(t)[2] = "wrapped"
  <2>1. Seen(t)[2] = Skip("wrapped", "-S")
    BY <1>0, <1>3, SeenIs
  <2> QED BY <2>1, PolicyAssumption DEF Skip, ValueOpts
<1>5. Seen(t)[3] = "value"
  <2>1. Seen(t)[3] = Skip("wrapped", "-p")
    BY <1>0, <1>4, SeenIs
  <2> QED BY <2>1, PolicyAssumption DEF Skip, ValueOpts
<1>6. Seen(t)[4] = "wrapped"
  <2>1. Seen(t)[4] = Skip("value", "''")
    BY <1>0, <1>5, SeenIs
  <2> QED BY <2>1, PolicyAssumption DEF Skip
<1> DEFINE S == {m \in Nat : Seen(t)[(m + 1) + 3] = Seen(s)[m + 1]}
<1>7. 0 \in S
  BY <1>2, <1>6
<1>8. ASSUME NEW m \in 0..(Len(s) - 2), m \in S PROVE m + 1 \in S
  <2>1. /\ m + 2 \in 2..Len(s) /\ m + 2 \in 1..Len(s) /\ (m + 2) - 1 = m + 1
        /\ m + 5 \in 1..Len(t) /\ (m + 2) + 3 = m + 5 /\ (m + 5) - 1 = (m + 1) + 3
        /\ (m + 1) + 1 = m + 2
    BY <1>0
  <2>2. t[m + 5] = s[m + 2]
    BY <2>1
  <2>3. Seen(s)[m + 2] = Skip(Seen(s)[m + 1], s[m + 2])
    BY <2>1, SeenIs
  <2>4. Seen(t)[m + 5] = Skip(Seen(t)[(m + 1) + 3], t[m + 5])
    BY <2>1, SeenIs
  <2> QED BY <1>8, <2>1, <2>2, <2>3, <2>4
<1>9. \A m \in 0..(Len(s) - 1) : m \in S
  <2> HIDE DEF S
  <2>1. Len(s) - 1 \in Nat /\ (Len(s) - 1) - 1 = Len(s) - 2
    BY <1>0
  <2> QED BY <2>1, <1>7, <1>8, UpTo
<1>10. ASSUME NEW i \in (1 + 1)..Len(s)
       PROVE  Seen(t)[i + 3] = "program" <=> Seen(s)[i] = "program"
  <2>1. i - 1 \in 0..(Len(s) - 1) /\ (i - 1) + 1 = i
    BY <1>0
  <2>2. i - 1 \in S
    BY <2>1, <1>9
  <2> QED BY <2>1, <2>2
<1>11. \A i \in 1..(1 + 3) : Seen(t)[i] # "program"
  <2>1. \A i \in 1..(1 + 3) : i \in {1, 2, 3, 4}
    OBVIOUS
  <2> QED BY <2>1, <1>3, <1>4, <1>5, <1>6
<1>12. \A i \in 1..1 : Seen(s)[i] # "program"
  BY <1>2
<1>13. \A i \in (1 + 1)..Len(s) : t[i + 3] = s[i]
  OBVIOUS
<1> HIDE DEF S
<1>14. 1 \in 0..Len(s) /\ 3 \in Nat
  BY <1>0
<1> QED
  BY <1>10, <1>11, <1>12, <1>13, <1>14, SameProgram, Zenon

\* Behind a wrapper form the scan goes on as behind a wrapper.
LEMMA FormSeen ==
    ASSUME NEW form \in Seq(Words), IsWrapperForm(form),
           NEW t \in Seq(Words), Len(t) >= Len(form),
           \A i \in 1..Len(form) : t[i] = form[i]
    PROVE  /\ \A i \in 1..Len(form) : Seen(t)[i] \in {"wrapped", "value"}
           /\ Seen(t)[Len(form)] = "wrapped"
<1> DEFINE After(i) == IF form[i] \in Options \cap ValueOpts THEN "value" ELSE "wrapped"
<1> DEFINE S == {m \in Nat : Seen(t)[m + 1] = After(m + 1)}
<1>0. /\ Len(form) \in Nat /\ Len(t) \in Nat /\ Len(form) >= 1
      /\ 1 \in 1..Len(form) /\ 1 \in 1..Len(t) /\ 1 - 1 = 0 /\ 0 + 1 = 1
  <2>1. form # <<>>
    BY DEF IsWrapperForm
  <2>2. Len(form) \in Nat /\ Len(t) \in Nat /\ Len(form) # 0
    BY <2>1
  <2> QED BY <2>2
<1>1. 0 \in S
  <2>1. Seen(t)[1] = Skip("start", form[1])
    BY <1>0, SeenIs
  <2>2. Seen(t)[1] = "wrapped"
    BY <2>1 DEF Skip, IsWrapperForm
  <2>3. After(1) = "wrapped"
    BY DEF IsWrapperForm
  <2> QED BY <2>2, <2>3, <1>0
<1>2. ASSUME NEW m \in 0..(Len(form) - 2), m \in S PROVE m + 1 \in S
  <2>1. /\ m + 2 \in 2..Len(form) /\ m + 2 \in 1..Len(form) /\ m + 2 \in 1..Len(t)
        /\ (m + 2) - 1 = m + 1 /\ (m + 1) + 1 = m + 2
    BY <1>0
  <2>2. Seen(t)[m + 2] = Skip(After(m + 1), form[m + 2])
    <3>1. Seen(t)[m + 2] = Skip(Seen(t)[m + 1], t[m + 2])
      BY <2>1, SeenIs
    <3> QED BY <3>1, <2>1, <1>2
  <2>3. \/ form[m + 2] \in Options \cup Assignments
        \/ BaseName(form[m + 2]) \in Wrappers
        \/ form[m + 1] \in Options \cap ValueOpts
    BY <2>1 DEF IsWrapperForm
  <2>4. Seen(t)[m + 2] = After(m + 2)
    BY <2>2, <2>3, PolicyAssumption DEF Skip
  <2> QED BY <2>1, <2>4
<1>3. \A m \in 0..(Len(form) - 1) : m \in S
  <2> HIDE DEF S
  <2>1. Len(form) - 1 \in Nat /\ (Len(form) - 1) - 1 = Len(form) - 2
    BY <1>0
  <2> QED BY <2>1, <1>1, <1>2, UpTo
<1>4. ASSUME NEW i \in 1..Len(form) PROVE Seen(t)[i] = After(i)
  <2>1. i - 1 \in 0..(Len(form) - 1) /\ (i - 1) + 1 = i
    BY <1>0
  <2>2. i - 1 \in S
    BY <2>1, <1>3
  <2> QED BY <2>1, <2>2
<1>5. Len(form) \in 1..Len(form)
  BY <1>0
<1>6. form[Len(form)] \notin ValueOpts
  BY DEF IsWrapperForm
<1> QED BY <1>4, <1>5, <1>6

\* A wrapper form before a segment that has no option where its program is
\* looked for does not change the program.
LEMMA FormSkipped ==
    ASSUME NEW form \in Seq(Words), IsWrapperForm(form),
           NEW s \in Seq(Words), ~OptionFirst(s),
           NEW t \in Seq(Words), Len(t) = Len(s) + Len(form),
           \A i \in 1..Len(form) : t[i] = form[i],
           \A i \in 1..Len(s) : t[i + Len(form)] = s[i]
    PROVE  Effective(t) = Effective(s)
<1> DEFINE d == Len(form)
<1> DEFINE S == {m \in Nat :
        \/ Seen(t)[m + d] = Seen(s)[m]
        \/ /\ Seen(t)[m + d] = "wrapped" /\ Seen(s)[m] = "start"
           /\ \A j \in 1..m : s[j] \in Assignments}
<1>0. Len(s) \in Nat /\ d \in Nat /\ Len(t) \in Nat /\ Len(t) >= Len(form)
  OBVIOUS
<1>1. /\ \A i \in 1..d : Seen(t)[i] \in {"wrapped", "value"}
      /\ Seen(t)[d] = "wrapped"
  BY <1>0, FormSeen
<1>2. 0 \in S
  <2>1. 0 + d = d /\ Seen(s)[0] = "start"
    BY <1>0, SeenIs
  <2> QED BY <2>1, <1>1
<1>3. ASSUME NEW m \in 0..(Len(s) - 1), m \in S PROVE m + 1 \in S
  <2>1. /\ m + 1 \in 1..Len(s) /\ (m + 1) - 1 = m
        /\ (m + 1) + d \in 1..Len(t) /\ ((m + 1) + d) - 1 = m + d
    BY <1>0
  <2>2. Seen(s)[m + 1] = Skip(Seen(s)[m], s[m + 1])
    BY <2>1, SeenIs
  <2>3. Seen(t)[(m + 1) + d] = Skip(Seen(t)[m + d], s[m + 1])
    BY <2>1, SeenIs
  <2>4. CASE Seen(t)[m + d] = Seen(s)[m]
    BY <2>2, <2>3, <2>4
  <2>5. CASE /\ Seen(t)[m + d] = "wrapped" /\ Seen(s)[m] = "start"
             /\ \A j \in 1..m : s[j] \in Assignments
    <3>1. s[m + 1] \notin Options
      <4>1. \A j \in 1..((m + 1) - 1) : s[j] \in Assignments
        BY <2>1, <2>5
      <4> QED BY <4>1, <2>1 DEF OptionFirst
    <3>2. CASE s[m + 1] \in Assignments
      <4>1. Seen(s)[m + 1] = "start" /\ Seen(t)[(m + 1) + d] = "wrapped"
        BY <2>2, <2>3, <2>5, <3>1, <3>2 DEF Skip
      <4>2. \A j \in 1..(m + 1) : s[j] \in Assignments
        BY <2>5, <3>2
      <4> QED BY <4>1, <4>2
    <3>3. CASE s[m + 1] \notin Assignments
      <4>1. Seen(s)[m + 1] = Seen(t)[(m + 1) + d]
        BY <2>2, <2>3, <2>5, <3>1, <3>3 DEF Skip
      <4> QED BY <4>1
    <3> QED BY <3>2, <3>3
  <2> QED BY <1>3, <2>4, <2>5
<1>4. \A m \in 0..Len(s) : m \in S
  <2> HIDE DEF S
  <2> QED BY <1>0, <1>2, <1>3, UpTo
<1>5. ASSUME NEW i \in (0 + 1)..Len(s)
      PROVE  Seen(t)[i + d] = "program" <=> Seen(s)[i] = "program"
  <2>1. i \in 0..Len(s)
    BY <1>0
  <2>2. i \in S
    BY <2>1, <1>4
  <2> QED BY <2>2
<1>6. \A i \in 1..(0 + d) : Seen(t)[i] # "program"
  BY <1>0, <1>1
<1> HIDE DEF S
<1>7. /\ 0 \in 0..Len(s) /\ \A i \in 1..0 : Seen(s)[i] # "program"
      /\ \A i \in (0 + 1)..Len(s) : t[i + d] = s[i]
  BY <1>0
<1> QED
  BY <1>0, <1>5, <1>6, <1>7, SameProgram

------------------------------------------------------------------------------
(* A wrapper before a command *)

\* <<a, b>> is a stretch of the n words of cmd between words of cut.
Stretch(cmd, n, cut, a, b) ==
    /\ a \in 1..n /\ b \in 1..n /\ a <= b
    /\ \A i \in a..b : cmd[i] \notin cut
    /\ a = 1 \/ cmd[a - 1] \in cut
    /\ b = n \/ cmd[b + 1] \in cut

LEMMA BetweenIs ==
    ASSUME NEW S, NEW cmd \in Seq(S), NEW cut, NEW a, NEW b
    PROVE  <<a, b>> \in Between(cmd, cut) <=> Stretch(cmd, Len(cmd), cut, a, b)
<1>1. DOMAIN cmd = 1..Len(cmd)
  OBVIOUS
<1>2. <<a, b>> \in (DOMAIN cmd) \X (DOMAIN cmd) <=> a \in 1..Len(cmd) /\ b \in 1..Len(cmd)
  BY <1>1
<1> QED BY <1>2, Zenon DEF Between, Stretch

\* A stretch that does not begin cmd stands, as it is, where cmd stands.
LEMMA LaterStretch ==
    ASSUME NEW cmd, NEW t, NEW n \in Nat, NEW d \in Nat, d >= 1,
           \A i \in 1..n : t[i + d] = cmd[i],
           NEW cut, NEW a \in Nat, NEW b \in Nat, a > 1
    PROVE  Stretch(cmd, n, cut, a, b) <=> Stretch(t, n + d, cut, a + d, b + d)
<1>1. a \in 1..n /\ b \in 1..n /\ a <= b
      <=> a + d \in 1..(n + d) /\ b + d \in 1..(n + d) /\ a + d <= b + d
  OBVIOUS
<1> SUFFICES ASSUME a \in 1..n, b \in 1..n, a <= b
             PROVE  Stretch(cmd, n, cut, a, b) <=> Stretch(t, n + d, cut, a + d, b + d)
  BY <1>1, Zenon DEF Stretch
<1>2. (\A i \in a..b : cmd[i] \notin cut)
      <=> (\A i \in (a + d)..(b + d) : t[i] \notin cut)
  <2>1. ASSUME \A i \in a..b : cmd[i] \notin cut, NEW i \in (a + d)..(b + d)
        PROVE  t[i] \notin cut
    <3>1. i - d \in a..b /\ i - d \in 1..n /\ (i - d) + d = i
      OBVIOUS
    <3>2. t[i] = cmd[i - d]
      BY <3>1
    <3> QED BY <3>1, <3>2, <2>1
  <2>2. ASSUME \A i \in (a + d)..(b + d) : t[i] \notin cut, NEW i \in a..b
        PROVE  cmd[i] \notin cut
    <3>1. i + d \in (a + d)..(b + d) /\ i \in 1..n
      OBVIOUS
    <3> QED BY <3>1, <2>2
  <2> QED BY <2>1, <2>2
<1>3. cmd[a - 1] = t[(a + d) - 1] /\ a # 1 /\ a + d # 1
  <2>1. a - 1 \in 1..n /\ (a - 1) + d = (a + d) - 1 /\ a # 1 /\ a + d # 1
    OBVIOUS
  <2> QED BY <2>1
<1>4. (b = n <=> b + d = n + d) /\ (b # n => cmd[b + 1] = t[(b + d) + 1])
  <2>1. (b = n <=> b + d = n + d) /\ (b + 1) + d = (b + d) + 1 /\ (b # n => b + 1 \in 1..n)
    OBVIOUS
  <2> QED BY <2>1
<1> QED BY <1>1, <1>2, <1>3, <1>4, Zenon DEF Stretch

\* The first stretch of cmd stands there with the words before it.
LEMMA FirstStretch ==
    ASSUME NEW cmd, NEW t, NEW n \in Nat, NEW d \in Nat, d >= 1, NEW cut,
           \A i \in 1..n : t[i + d] = cmd[i],
           \A i \in 1..d : t[i] \notin cut,
           NEW b \in Nat, b >= 1
    PROVE  Stretch(cmd, n, cut, 1, b) <=> Stretch(t, n + d, cut, 1, b + d)
<1>1. 1 \in 1..n /\ b \in 1..n /\ 1 <= b
      <=> 1 \in 1..(n + d) /\ b + d \in 1..(n + d) /\ 1 <= b + d
  OBVIOUS
<1> SUFFICES ASSUME 1 \in 1..n, b \in 1..n
             PROVE  Stretch(cmd, n, cut, 1, b) <=> Stretch(t, n + d, cut, 1, b + d)
  BY <1>1, Zenon DEF Stretch
<1>2. (\A i \in 1..b : cmd[i] \notin cut)
      <=> (\A i \in 1..(b + d) : t[i] \notin cut)
  <2>1. ASSUME \A i \in 1..b : cmd[i] \notin cut, NEW i \in 1..(b + d)
        PROVE  t[i] \notin cut
    <3>1. CASE i \in 1..d
      BY <3>1
    <3>2. CASE i \notin 1..d
      <4>1. i - d \in 1..b /\ i - d \in 1..n /\ (i - d) + d = i
        BY <3>2
      <4>2. t[i] = cmd[i - d]
        BY <4>1
      <4> QED BY <4>1, <4>2, <2>1
    <3> QED BY <3>1, <3>2
  <2>2. ASSUME \A i \in 1..(b + d) : t[i] \notin cut, NEW i \in 1..b
        PROVE  cmd[i] \notin cut
    <3>1. i + d \in 1..(b + d) /\ i \in 1..n
      OBVIOUS
    <3> QED BY <3>1, <2>2
  <2> QED BY <2>1, <2>2
<1>3. (b = n <=> b + d = n + d) /\ (b # n => cmd[b + 1] = t[(b + d) + 1])
  <2>1. (b = n <=> b + d = n + d) /\ (b + 1) + d = (b + d) + 1 /\ (b # n => b + 1 \in 1..n)
    OBVIOUS
  <2> QED BY <2>1
<1> QED BY <1>1, <1>2, <1>3, Zenon DEF Stretch

\* No stretch begins or ends within words without separator.
LEMMA OtherStretch ==
    ASSUME NEW t, NEW n \in Nat, NEW d \in Nat, d >= 1, NEW cut,
           \A i \in 1..d : t[i] \notin cut,
           NEW a, NEW b, Stretch(t, n + d, cut, a, b)
    PROVE  \/ a = 1 /\ b = d
           \/ a = 1 /\ b > d
           \/ a > d + 1 /\ b > d
<1>1. a \in 1..(n + d) /\ b \in 1..(n + d) /\ a <= b
  BY DEF Stretch
<1>2. a - 1 \notin 1..d
  <2>1. a = 1 \/ t[a - 1] \in cut
    BY DEF Stretch
  <2>2. a = 1 => a - 1 \notin 1..d
    OBVIOUS
  <2> QED BY <2>1, <2>2
<1>3. b + 1 \notin 1..d
  <2>1. b = n + d \/ t[b + 1] \in cut
    BY DEF Stretch
  <2>2. b = n + d => b + 1 \notin 1..d
    OBVIOUS
  <2> QED BY <2>1, <2>2
<1> QED BY <1>1, <1>2, <1>3

LEMMA SameWords ==
    ASSUME NEW cmd, NEW t, NEW n \in Nat, NEW d \in Nat,
           \A i \in 1..n : t[i + d] = cmd[i],
           NEW a \in 1..n, NEW b \in 1..n
    PROVE  SubSeq(t, a + d, b + d) = SubSeq(cmd, a, b)
<1>2. SubSeq(t, a + d, b + d) = [i \in 1..((b + d) - (a + d) + 1) |-> t[i + (a + d) - 1]]
  OBVIOUS
<1>3. SubSeq(cmd, a, b) = [i \in 1..(b - a + 1) |-> cmd[i + a - 1]]
  OBVIOUS
<1>4. (b + d) - (a + d) + 1 = b - a + 1
  OBVIOUS
<1>5. ASSUME NEW i \in 1..(b - a + 1) PROVE t[i + (a + d) - 1] = cmd[i + a - 1]
  <2>1. i + a - 1 \in 1..n /\ i + (a + d) - 1 = (i + a - 1) + d
    OBVIOUS
  <2> QED BY <2>1
<1> QED BY <1>2, <1>3, <1>4, <1>5

\* t is form and behind it cmd.
Prefixed(form, cmd, t) ==
    /\ Len(form) \in Nat /\ Len(cmd) \in Nat /\ Len(t) = Len(cmd) + Len(form)
    /\ \A i \in 1..Len(form) : t[i] = form[i]
    /\ \A i \in 1..Len(cmd) : t[i + Len(form)] = cmd[i]

LEMMA FormPrefixed ==
    ASSUME NEW form \in Seq(Words), NEW cmd \in Seq(Words)
    PROVE  form \o cmd \in Seq(Words) /\ Prefixed(form, cmd, form \o cmd)
<1>1. /\ form \o cmd \in Seq(Words)
      /\ Len(form \o cmd) = Len(form) + Len(cmd)
      /\ \A k \in 1..Len(form) : (form \o cmd)[k] = form[k]
      /\ \A k \in 1..Len(cmd) : (form \o cmd)[Len(form) + k] = cmd[k]
  BY Concat
<1> HIDE DEF Prefixed
<1> DEFINE t == form \o cmd
<1>2. /\ t \in Seq(Words)
      /\ Len(t) = Len(form) + Len(cmd)
      /\ \A k \in 1..Len(form) : t[k] = form[k]
      /\ \A k \in 1..Len(cmd) : t[Len(form) + k] = cmd[k]
  BY <1>1
<1> HIDE DEF t
<1>3. Prefixed(form, cmd, t)
  BY <1>2 DEF Prefixed
<1> QED BY <1>2, <1>3 DEF t

\* Nothing in a form separates segments or is a catastrophic pattern.
LEMMA FormQuiet ==
    ASSUME NEW form \in Seq(Words), IsWrapperForm(form)
    PROVE  /\ Len(form) \in Nat /\ Len(form) >= 1
           /\ \A i \in 1..Len(form) : form[i] \notin Separators
           /\ \A i \in 1..Len(form) : form[i] \notin {":(){", ">", ">>"}
<1>1. form # <<>>
  BY DEF IsWrapperForm
<1>2. Len(form) \in Nat /\ Len(form) >= 1
  BY <1>1
<1>3. \A i \in 1..Len(form) : form[i] \notin Separators \cup {":(){", ">", ">>"}
  BY DEF IsWrapperForm
<1> QED BY <1>2, <1>3, Zenon

LEMMA NoProgram == Effective(<<>>) = <<>>
<1>1. <<>> \in Seq(Words) /\ Len(<<>>) = 0
  OBVIOUS
<1>2. StartsAt(<<>>, 1) /\ 1 \in 1..(Len(<<>>) + 1)
  BY DEF StartsAt
<1>3. Effective(<<>>) = SubSeq(<<>>, 1, 0)
  BY <1>1, <1>2, EffectiveFrom
<1> QED BY <1>3

LEMMA ProgramBehindForm ==
    ASSUME NEW form \in Seq(Words), IsWrapperForm(form), NEW s \in Seq(Words), ~OptionFirst(s),
           NEW t \in Seq(Words), Prefixed(form, s, t)
    PROVE  Effective(t) = Effective(s)
BY FormSkipped, Zenon DEF Prefixed

\* A stretch at the beginning, with the form before it.
LEMMA FirstPrefixed ==
    ASSUME NEW form, NEW cmd, NEW t, Prefixed(form, cmd, t), Len(form) >= 1,
           NEW b \in 0..Len(cmd)
    PROVE  Prefixed(form, SubSeq(cmd, 1, b), SubSeq(t, 1, b + Len(form)))
<1> DEFINE s == SubSeq(cmd, 1, b)
           u == SubSeq(t, 1, b + Len(form))
<1>1. Len(form) \in Nat /\ Len(cmd) \in Nat /\ Len(t) = Len(cmd) + Len(form)
  BY DEF Prefixed
<1>2. s = [i \in 1..b |-> cmd[i]]
  BY <1>1
<1>3. u = [i \in 1..(b + Len(form)) |-> t[i]]
  BY <1>1
<1>4. Len(s) = b /\ \A i \in 1..b : s[i] = cmd[i]
  BY <1>1, <1>2
<1>5. Len(u) = b + Len(form) /\ \A i \in 1..(b + Len(form)) : u[i] = t[i]
  BY <1>1, <1>3
<1> HIDE DEF s, u
<1>6. \A i \in 1..Len(form) : i \in 1..(b + Len(form))
  <2>1. \A x, y \in Nat : \A i \in 1..x : i \in 1..(y + x)
    OBVIOUS
  <2>2. b \in Nat
    BY <1>1
  <2> QED BY <2>1, <2>2, <1>1
<1>7. \A i \in 1..b : i + Len(form) \in 1..(b + Len(form)) /\ i \in 1..Len(cmd)
  BY <1>1
<1>8. \A i \in 1..Len(form) : u[i] = form[i]
  <2>1. \A i \in 1..Len(form) : t[i] = form[i]
    BY DEF Prefixed
  <2> QED BY <1>5, <1>6, <2>1
<1>9. \A i \in 1..b : u[i + Len(form)] = s[i]
  <2>1. \A i \in 1..Len(cmd) : t[i + Len(form)] = cmd[i]
    BY DEF Prefixed
  <2> QED BY <1>4, <1>5, <1>7, <2>1
<1>10. Prefixed(form, s, u)
  <2>1. Len(s) = b /\ Len(u) = b + Len(form) /\ b \in Nat
    BY <1>1, <1>4, <1>5
  <2> QED BY <1>1, <1>8, <1>9, <2>1, Zenon DEF Prefixed
<1> QED BY <1>10 DEF s, u

LEMMA FirstOptionFirst ==
    ASSUME NEW cmd \in Seq(Words), NEW b \in 0..Len(cmd), OptionFirst(SubSeq(cmd, 1, b))
    PROVE  OptionFirst(cmd)
<1> DEFINE s == SubSeq(cmd, 1, b)
<1>1. Len(s) = b /\ \A i \in 1..b : s[i] = cmd[i]
  OBVIOUS
<1>2. b \in Nat /\ Len(cmd) \in Nat /\ \A i \in 1..b : i \in 1..Len(cmd) /\ \A j \in 1..(i - 1) : j \in 1..b
  OBVIOUS
<1>3. PICK i \in 1..b : s[i] \in Options /\ \A j \in 1..(i - 1) : s[j] \in Assignments
  BY <1>1, Zenon DEF OptionFirst
<1> HIDE DEF s
<1>4. cmd[i] \in Options /\ \A j \in 1..(i - 1) : cmd[j] \in Assignments
  BY <1>1, <1>2, <1>3
<1> QED BY <1>2, <1>4, Zenon DEF OptionFirst

LEMMA SegmentIs ==
    ASSUME NEW S, NEW cmd \in Seq(S)
    PROVE  \A p : p \in Segments(cmd)
             <=> \E a, b : /\ Stretch(cmd, Len(cmd), Separators, a, b)
                           /\ p = SubSeq(cmd, a, b)
<1>1. \A r \in Between(cmd, Separators) : r = <<r[1], r[2]>>
  BY DEF Between
<1>2. \A a, b : <<a, b>>[1] = a /\ <<a, b>>[2] = b
  OBVIOUS
<1>3. \A a, b : <<a, b>> \in Between(cmd, Separators)
                <=> Stretch(cmd, Len(cmd), Separators, a, b)
  BY BetweenIs, Zenon
<1>4. \A p : p \in Segments(cmd)
        <=> \E r \in Between(cmd, Separators) : p = SubSeq(cmd, r[1], r[2])
  BY DEF Segments
<1>5. ASSUME NEW p, NEW r \in Between(cmd, Separators), p = SubSeq(cmd, r[1], r[2])
      PROVE  \E a, b : Stretch(cmd, Len(cmd), Separators, a, b) /\ p = SubSeq(cmd, a, b)
  BY <1>1, <1>3, <1>5, Zenon
<1>6. ASSUME NEW p, NEW a, NEW b, Stretch(cmd, Len(cmd), Separators, a, b), p = SubSeq(cmd, a, b)
      PROVE  \E r \in Between(cmd, Separators) : p = SubSeq(cmd, r[1], r[2])
  <2>1. <<a, b>> \in Between(cmd, Separators) /\ p = SubSeq(cmd, <<a, b>>[1], <<a, b>>[2])
    BY <1>2, <1>3, <1>6, Zenon
  <2> QED BY <2>1, Zenon
<1> QED BY <1>4, <1>5, <1>6, Zenon

\* The programs of a command are those of the command behind a form, but for
\* the empty one of a form that a separator follows.
LEMMA ProgramsBehindForm ==
    ASSUME NEW form \in Seq(Words), IsWrapperForm(form),
           NEW cmd \in Seq(Words), ~OptionFirst(cmd),
           NEW t \in Seq(Words), Prefixed(form, cmd, t)
    PROVE  (\E p \in Segments(t) : DeniedProgram(Effective(p)))
           <=> (\E p \in Segments(cmd) : DeniedProgram(Effective(p)))
<1> DEFINE n == Len(cmd)
           d == Len(form)
<1>1. n \in Nat /\ d \in Nat /\ d >= 1 /\ Len(t) = n + d
  BY FormQuiet DEF Prefixed
<1>2. \A i \in 1..d : t[i] \notin Separators
  BY FormQuiet DEF Prefixed
<1>3. \A i \in 1..n : t[i + d] = cmd[i]
  BY DEF Prefixed
<1>6. \A p : p \in Segments(cmd)
        <=> \E a, b : Stretch(cmd, n, Separators, a, b) /\ p = SubSeq(cmd, a, b)
  BY SegmentIs, Zenon
<1>7. \A p : p \in Segments(t)
        <=> \E a, b : Stretch(t, n + d, Separators, a, b) /\ p = SubSeq(t, a, b)
  <2>1. \A p : p \in Segments(t)
          <=> \E a, b : Stretch(t, Len(t), Separators, a, b) /\ p = SubSeq(t, a, b)
    BY SegmentIs, Zenon
  <2> QED BY <1>1, <2>1, Zenon
\* The program of the first segment.
<1>8. ASSUME NEW b \in 0..n
      PROVE  Effective(SubSeq(t, 1, b + d)) = Effective(SubSeq(cmd, 1, b))
  <2>1. ~OptionFirst(SubSeq(cmd, 1, b))
    BY FirstOptionFirst
  <2>2. SubSeq(cmd, 1, b) \in Seq(Words) /\ SubSeq(t, 1, b + d) \in Seq(Words)
    <3>1. \A i \in 1..b : i \in 1..Len(cmd)
      BY <1>1
    <3>2. \A i \in 1..(b + d) : i \in 1..Len(t)
      BY <1>1
    <3> QED BY <3>1, <3>2, SubSeqProperties
  <2>3. Prefixed(form, SubSeq(cmd, 1, b), SubSeq(t, 1, b + d))
    BY <1>1, FirstPrefixed
  <2> QED BY <2>1, <2>2, <2>3, ProgramBehindForm
<1> HIDE DEF n, d
<1>9. ASSUME NEW p \in Segments(t), DeniedProgram(Effective(p))
      PROVE  \E q \in Segments(cmd) : DeniedProgram(Effective(q))
  <2>1. PICK a, b : Stretch(t, n + d, Separators, a, b) /\ p = SubSeq(t, a, b)
    BY <1>7, <1>9
  <2>2. a \in Nat /\ b \in Nat /\ a >= 1 /\ b <= n + d /\ a <= b
    BY <1>1, <2>1 DEF Stretch
  <2>3. \/ a = 1 /\ b = d
        \/ a = 1 /\ b > d
        \/ a > d + 1 /\ b > d
    BY <1>1, <1>2, <2>1, OtherStretch
  <2>4. CASE a = 1 /\ b = d
    <3>1. Effective(p) = Effective(SubSeq(cmd, 1, 0))
      <4>1. 0 \in 0..n /\ 0 + d = d
        BY <1>1
      <4> QED BY <1>8, <2>1, <2>4, <4>1
    <3>2. SubSeq(cmd, 1, 0) = <<>>
      OBVIOUS
    <3>3. Effective(p) = <<>>
      BY <3>1, <3>2, NoProgram
    <3> QED BY <1>9, <3>3 DEF DeniedProgram
  <2>5. CASE a = 1 /\ b > d
    <3> DEFINE c == b - d
    <3>1. c \in 0..n /\ c \in Nat /\ c >= 1 /\ c + d = b
      BY <1>1, <2>2, <2>5
    <3> HIDE DEF c
    <3>2. Stretch(cmd, n, Separators, 1, c)
      BY <1>1, <1>2, <1>3, <2>1, <2>5, <3>1, FirstStretch
    <3>3. Effective(p) = Effective(SubSeq(cmd, 1, c))
      BY <1>8, <2>1, <2>5, <3>1
    <3>4. SubSeq(cmd, 1, c) \in Segments(cmd)
      BY <1>6, <3>2
    <3> QED BY <1>9, <3>3, <3>4
  <2>6. CASE a > d + 1 /\ b > d
    <3> DEFINE c == b - d
               e == a - d
    <3>1. c \in 1..n /\ e \in 1..n /\ c \in Nat /\ e \in Nat /\ e > 1 /\ c + d = b /\ e + d = a
      BY <1>1, <2>2, <2>6
    <3> HIDE DEF c, e
    <3>2. Stretch(cmd, n, Separators, e, c)
      BY <1>1, <1>3, <2>1, <3>1, LaterStretch
    <3>3. p = SubSeq(cmd, e, c)
      <4>1. SubSeq(t, e + d, c + d) = SubSeq(cmd, e, c)
        BY <1>1, <1>3, <3>1, SameWords
      <4> QED BY <2>1, <3>1, <4>1
    <3>4. p \in Segments(cmd)
      BY <1>6, <3>2, <3>3
    <3> QED BY <1>9, <3>4
  <2> QED BY <2>3, <2>4, <2>5, <2>6
<1>10. ASSUME NEW p \in Segments(cmd), DeniedProgram(Effective(p))
       PROVE  \E q \in Segments(t) : DeniedProgram(Effective(q))
  <2>1. PICK a, b : Stretch(cmd, n, Separators, a, b) /\ p = SubSeq(cmd, a, b)
    BY <1>6, <1>10
  <2>2. a \in Nat /\ b \in Nat /\ a >= 1 /\ b >= 1 /\ a \in 1..n /\ b \in 1..n /\ b \in 0..n
    BY <1>1, <2>1 DEF Stretch
  <2>3. CASE a = 1
    <3>1. Stretch(t, n + d, Separators, 1, b + d)
      BY <1>1, <1>2, <1>3, <2>1, <2>2, <2>3, FirstStretch
    <3>2. Effective(SubSeq(t, 1, b + d)) = Effective(p)
      BY <1>8, <2>1, <2>2, <2>3
    <3>3. SubSeq(t, 1, b + d) \in Segments(t)
      BY <1>7, <3>1
    <3> QED BY <1>10, <3>2, <3>3
  <2>4. CASE a > 1
    <3>1. Stretch(t, n + d, Separators, a + d, b + d)
      BY <1>1, <1>3, <2>1, <2>2, <2>4, LaterStretch
    <3>2. SubSeq(t, a + d, b + d) = p
      BY <1>1, <1>3, <2>1, <2>2, SameWords
    <3>3. p \in Segments(t)
      BY <1>7, <3>1, <3>2
    <3> QED BY <1>10, <3>3
  <2> QED BY <2>2, <2>3, <2>4
<1> QED BY <1>9, <1>10

\* A catastrophic pattern at the i-th of the n words of cmd.
PatternAt(cmd, n, i) ==
    \/ cmd[i] = ":(){"
    \/ /\ cmd[i] \in {">", ">>"} /\ i < n
       /\ cmd[i + 1] \in OnDevices \cup {"/proc/sysrq-trigger"}

LEMMA PatternIs ==
    ASSUME NEW S, NEW cmd \in Seq(S)
    PROVE  CatastrophicPattern(cmd) <=> \E i \in 1..Len(cmd) : PatternAt(cmd, Len(cmd), i)
<1>1. DOMAIN cmd = 1..Len(cmd)
  OBVIOUS
<1> QED BY <1>1, Zenon DEF CatastrophicPattern, PatternAt

LEMMA PatternBehindForm ==
    ASSUME NEW cmd, NEW t, NEW n \in Nat, NEW d \in Nat,
           \A i \in 1..n : t[i + d] = cmd[i],
           \A i \in 1..d : ~PatternAt(t, n + d, i)
    PROVE  (\E i \in 1..n : PatternAt(cmd, n, i))
           <=> (\E i \in 1..(n + d) : PatternAt(t, n + d, i))
<1>1. ASSUME NEW i \in 1..n
      PROVE  PatternAt(cmd, n, i) <=> PatternAt(t, n + d, i + d)
  <2>1. t[i + d] = cmd[i] /\ (i < n <=> i + d < n + d)
    OBVIOUS
  <2>2. i < n => t[(i + d) + 1] = cmd[i + 1]
    <3>1. i < n => i + 1 \in 1..n /\ (i + 1) + d = (i + d) + 1
      OBVIOUS
    <3> QED BY <3>1
  <2> QED BY <2>1, <2>2, Zenon DEF PatternAt
<1>2. ASSUME NEW i \in 1..n, PatternAt(cmd, n, i)
      PROVE  \E j \in 1..(n + d) : PatternAt(t, n + d, j)
  <2>1. i + d \in 1..(n + d)
    OBVIOUS
  <2> QED BY <1>1, <1>2, <2>1, Zenon
<1>3. ASSUME NEW j \in 1..(n + d), PatternAt(t, n + d, j)
      PROVE  \E i \in 1..n : PatternAt(cmd, n, i)
  <2>1. j \notin 1..d
    BY <1>3, Zenon
  <2>2. j - d \in 1..n /\ (j - d) + d = j
    BY <2>1
  <2>3. PatternAt(cmd, n, j - d) <=> PatternAt(t, n + d, (j - d) + d)
    BY <1>1, <2>2, Zenon
  <2> QED BY <1>3, <2>2, <2>3, Zenon
<1> QED BY <1>2, <1>3, Zenon

\* classify does not see the form.
LEMMA FormUnseen ==
    ASSUME NEW form \in Seq(Words), IsWrapperForm(form),
           NEW cmd \in Seq(Words), cmd # <<>>, ~OptionFirst(cmd)
    PROVE  Denies(form \o cmd) <=> Denies(cmd)
<1> DEFINE t == form \o cmd
<1>1. t \in Seq(Words) /\ Prefixed(form, cmd, t)
  BY FormPrefixed
<1> HIDE DEF t
<1>2. t # <<>>
  <2>1. Len(t) = Len(cmd) + Len(form) /\ Len(cmd) \in Nat
    BY <1>1 DEF Prefixed
  <2>2. Len(form) \in Nat /\ Len(form) >= 1
    BY FormQuiet, Zenon
  <2>3. Len(t) # 0
    BY <2>1, <2>2
  <2> QED BY <2>3
<1>3. CatastrophicPattern(t) <=> CatastrophicPattern(cmd)
  <2>1. Len(form) \in Nat /\ Len(cmd) \in Nat /\ Len(t) = Len(cmd) + Len(form)
    BY <1>1 DEF Prefixed
  <2>2. \A i \in 1..Len(cmd) : t[i + Len(form)] = cmd[i]
    BY <1>1 DEF Prefixed
  <2>3. \A i \in 1..Len(form) : ~PatternAt(t, Len(cmd) + Len(form), i)
    <3>1. \A i \in 1..Len(form) : t[i] = form[i]
      BY <1>1 DEF Prefixed
    <3>2. \A i \in 1..Len(form) : form[i] \notin {":(){", ">", ">>"}
      BY FormQuiet, Zenon
    <3>3. \A i \in 1..Len(form) : t[i] # ":(){" /\ t[i] \notin {">", ">>"}
      BY <3>1, <3>2, Zenon
    <3> QED BY <3>3, Zenon DEF PatternAt
  <2>4. (\E i \in 1..Len(cmd) : PatternAt(cmd, Len(cmd), i))
        <=> (\E i \in 1..(Len(cmd) + Len(form)) : PatternAt(t, Len(cmd) + Len(form), i))
    BY <2>1, <2>2, <2>3, PatternBehindForm, Zenon
  <2>5. CatastrophicPattern(cmd) <=> \E i \in 1..Len(cmd) : PatternAt(cmd, Len(cmd), i)
    BY PatternIs, Zenon
  <2>6. CatastrophicPattern(t) <=> \E i \in 1..Len(t) : PatternAt(t, Len(t), i)
    BY <1>1, PatternIs, Zenon
  <2> QED BY <2>1, <2>4, <2>5, <2>6, Zenon
<1>4. (\E p \in Segments(t) : DeniedProgram(Effective(p)))
      <=> (\E p \in Segments(cmd) : DeniedProgram(Effective(p)))
  BY <1>1, ProgramsBehindForm, Zenon
<1>5. Denies(t) <=> Denies(cmd)
  BY <1>2, <1>3, <1>4, Zenon DEF Denies
<1> QED BY <1>5 DEF t

------------------------------------------------------------------------------
(* How rewrite_sudo lays a command out *)

\* The recursive function of FlattenSeq exists.
LEMMA FlattenExists ==
    ASSUME NEW seqs, NEW n \in Nat
    PROVE  \E f : f = [i \in 1..n |-> IF i = 1 THEN seqs[i] ELSE f[i - 1] \o seqs[i]]
<1> DEFINE Flat(f, m) ==
        f = [i \in 1..m |-> IF i = 1 THEN seqs[i] ELSE f[i - 1] \o seqs[i]]
<1> DEFINE S == {m \in Nat : \E f : Flat(f, m)}
<1>1. 0 \in S
  <2>1. Flat([i \in 1..0 |-> i], 0)
    OBVIOUS
  <2> QED BY <2>1
<1>2. ASSUME NEW m \in 0..(n - 1), m \in S PROVE m + 1 \in S
  <2>1. PICK f : Flat(f, m)
    BY <1>2
  <2> DEFINE g == [i \in 1..(m + 1) |->
          IF i <= m THEN f[i] ELSE IF i = 1 THEN seqs[i] ELSE f[m] \o seqs[i]]
  <2>2. Flat(g, m + 1)
    <3> SUFFICES ASSUME NEW i \in 1..(m + 1)
                 PROVE  g[i] = IF i = 1 THEN seqs[i] ELSE g[i - 1] \o seqs[i]
      OBVIOUS
    <3>1. CASE i = m + 1
      <4>1. i # 1 => m \in 1..(m + 1) /\ i - 1 = m /\ g[i - 1] = f[m]
        BY <3>1
      <4> QED BY <3>1, <4>1
    <3>2. CASE i \in 1..m
      <4>1. i # 1 => i - 1 \in 1..(m + 1) /\ i - 1 <= m /\ g[i - 1] = f[i - 1]
        BY <3>2
      <4>2. g[i] = f[i]
        BY <3>2
      <4>3. f[i] = IF i = 1 THEN seqs[i] ELSE f[i - 1] \o seqs[i]
        BY <2>1, <3>2
      <4> QED BY <4>1, <4>2, <4>3
    <3> QED BY <3>1, <3>2
  <2> HIDE DEF g
  <2>3. \E h : Flat(h, m + 1)
    BY <2>2, Zenon
  <2>4. m + 1 \in Nat
    OBVIOUS
  <2> QED BY <2>3, <2>4
<1> HIDE DEF S
<1>3. n \in S
  BY <1>1, <1>2, UpTo
<1> QED BY <1>3 DEF S

LEMMA FlattenIs ==
    ASSUME NEW n \in Nat, n >= 1, NEW seqs, Len(seqs) = n
    PROVE  \E f : /\ FlattenSeq(seqs) = f[n]
                  /\ f[1] = seqs[1]
                  /\ \A i \in 2..n : f[i] = f[i - 1] \o seqs[i]
<1> DEFINE f == CHOOSE h :
        h = [i \in 1..n |-> IF i = 1 THEN seqs[i] ELSE h[i - 1] \o seqs[i]]
<1>1. f = [i \in 1..n |-> IF i = 1 THEN seqs[i] ELSE f[i - 1] \o seqs[i]]
  BY FlattenExists, Zenon
<1>2. FlattenSeq(seqs) = f[n]
  <2>1. Len(seqs) # 0
    OBVIOUS
  <2> QED BY <2>1, Zenon DEF FlattenSeq
<1> HIDE DEF f
<1>3. f[1] = seqs[1] /\ \A i \in 2..n : f[i] = f[i - 1] \o seqs[i]
  <2>1. 1 \in 1..n /\ \A i \in 2..n : i \in 1..n /\ i # 1
    OBVIOUS
  <2>2. \A i \in 1..n : f[i] = IF i = 1 THEN seqs[i] ELSE f[i - 1] \o seqs[i]
    BY <1>1
  <2> QED BY <2>1, <2>2
<1> QED BY <1>2, <1>3

\* The first n words of cmd are laid out in t, from at[i] the i-th of them, and
\* behind those of L the options.
Laid(cmd, L, t, at, n) ==
    /\ at \in [1..(n + 1) -> Nat] /\ at[1] = 1
    /\ t \in Seq(Words) /\ Len(t) = at[n + 1] - 1
    /\ \A i \in 1..n :
          /\ at[i + 1] = IF i \in L THEN at[i] + 4 ELSE at[i] + 1
          /\ t[at[i]] = cmd[i]
          /\ i \in L => /\ t[at[i] + 1] = "-S"
                        /\ t[at[i] + 2] = "-p"
                        /\ t[at[i] + 3] = "''"

\* Places that increase are as far apart as their numbers, at least.
LEMMA Forward ==
    ASSUME NEW n \in Nat, NEW at,
           \A i \in 1..(n + 1) : at[i] \in Nat,
           \A i \in 1..n : at[i + 1] > at[i]
    PROVE  \A i, j \in 1..(n + 1) : i <= j => at[i] + (j - i) <= at[j]
<1> SUFFICES ASSUME NEW i \in 1..(n + 1)
             PROVE  \A j \in 1..(n + 1) : i <= j => at[i] + (j - i) <= at[j]
  OBVIOUS
<1> DEFINE S == {m \in Nat : at[i] + m <= at[i + m]}
<1>1. 0 \in S
  OBVIOUS
<1>2. ASSUME NEW m \in 0..((n + 1 - i) - 1), m \in S PROVE m + 1 \in S
  <2>1. i + m \in 1..n /\ (i + m) + 1 = i + (m + 1) /\ i + m \in 1..(n + 1) /\ (i + m) + 1 \in 1..(n + 1)
    OBVIOUS
  <2>2. at[(i + m) + 1] > at[i + m]
    BY <2>1
  <2>3. at[i] + m <= at[i + m]
    BY <1>2
  <2>4. at[i] \in Nat /\ at[i + m] \in Nat /\ at[(i + m) + 1] \in Nat
    BY <2>1
  <2>5. at[i] + (m + 1) <= at[i + (m + 1)]
    BY <2>1, <2>2, <2>3, <2>4
  <2> QED BY <2>5
<1>3. \A m \in 0..(n + 1 - i) : m \in S
  <2> HIDE DEF S
  <2>1. n + 1 - i \in Nat
    OBVIOUS
  <2> QED BY <2>1, <1>1, <1>2, UpTo
<1>4. ASSUME NEW j \in 1..(n + 1), i <= j PROVE at[i] + (j - i) <= at[j]
  <2>1. j - i \in 0..(n + 1 - i) /\ i + (j - i) = j
    BY <1>4
  <2>2. j - i \in S
    BY <2>1, <1>3
  <2> QED BY <2>1, <2>2
<1> QED BY <1>4

LEMMA LaidForward ==
    ASSUME NEW cmd, NEW L, NEW t, NEW n \in Nat, NEW at, Laid(cmd, L, t, at, n)
    PROVE  \A i, j \in 1..(n + 1) : i <= j => at[i] + (j - i) <= at[j]
<1>1. \A i \in 1..(n + 1) : at[i] \in Nat
  BY DEF Laid
<1>2. ASSUME NEW i \in 1..n PROVE at[i + 1] > at[i]
  <2>1. at[i] \in Nat
    BY <1>1
  <2>2. at[i + 1] = IF i \in L THEN at[i] + 4 ELSE at[i] + 1
    BY DEF Laid
  <2> QED BY <2>1, <2>2
<1> QED BY <1>1, <1>2, Forward, Zenon

LEMMA OneWord == ASSUME NEW S, NEW word \in S PROVE <<word>> \in Seq(S)
OBVIOUS

LEMMA ThreeWords ==
    ASSUME NEW S, NEW a \in S, NEW b \in S, NEW c \in S
    PROVE  <<a, b, c>> \in Seq(S) /\ Len(<<a, b, c>>) = 3
OBVIOUS

\* A word with the options behind it.
WithOptions(word, t) ==
    /\ t \in Seq(Words) /\ Len(t) = 4 /\ t[1] = word
    /\ t[2] = "-S" /\ t[3] = "-p" /\ t[4] = "''"

LEMMA WordWithOptions ==
    ASSUME NEW word \in Words
    PROVE  WithOptions(word, <<word>> \o Inserted)
<1> SUFFICES ASSUME NEW t, t = <<word>> \o Inserted
             PROVE  WithOptions(word, t)
  OBVIOUS
<1>0. /\ Inserted \in Seq(Words) /\ Len(Inserted) = 3
      /\ Inserted[1] = "-S" /\ Inserted[2] = "-p" /\ Inserted[3] = "''"
  <2>1. "-S" \in Words /\ "-p" \in Words /\ "''" \in Words
    BY PolicyAssumption
  <2>2. Inserted \in Seq(Words) /\ Len(Inserted) = 3
    BY <2>1, ThreeWords, Zenon DEF Inserted
  <2>3. Inserted[1] = "-S" /\ Inserted[2] = "-p" /\ Inserted[3] = "''"
    BY DEF Inserted
  <2> QED BY <2>2, <2>3
<1>1. \A s, u \in Seq(Words) :
        /\ s \o u \in Seq(Words)
        /\ Len(s \o u) = Len(s) + Len(u)
        /\ \A k \in 1..Len(s) : (s \o u)[k] = s[k]
        /\ \A k \in 1..Len(u) : (s \o u)[Len(s) + k] = u[k]
  BY Concat
<1>2. <<word>> \in Seq(Words) /\ Len(<<word>>) = 1 /\ <<word>>[1] = word
  BY OneWord
<1>3. /\ t \in Seq(Words)
      /\ Len(t) = Len(<<word>>) + Len(Inserted)
      /\ \A k \in 1..Len(<<word>>) : t[k] = <<word>>[k]
      /\ \A k \in 1..Len(Inserted) : t[Len(<<word>>) + k] = Inserted[k]
  BY <1>0, <1>1, <1>2, Zenon
<1>4. /\ Len(t) = 1 + 3
      /\ \A k \in 1..1 : t[k] = <<word>>[k]
      /\ \A k \in 1..3 : t[1 + k] = Inserted[k]
  BY <1>0, <1>2, <1>3, Zenon
<1>5. /\ 1 \in 1..1 /\ 1 \in 1..3 /\ 2 \in 1..3 /\ 3 \in 1..3
      /\ 1 + 1 = 2 /\ 1 + 2 = 3 /\ 1 + 3 = 4
  OBVIOUS
<1>6. t[1] = word
  BY <1>2, <1>4, <1>5, Zenon
<1>7. t[1 + 1] = Inserted[1] /\ t[1 + 2] = Inserted[2] /\ t[1 + 3] = Inserted[3]
  BY <1>4, <1>5
<1> QED BY <1>0, <1>3, <1>4, <1>5, <1>6, <1>7, Zenon DEF WithOptions

\* What stands for the i-th word: the word, behind those of L with the options.
Spelled(cmd, L, i, s) ==
    /\ s \in Seq(Words) /\ Len(s) = IF i \in L THEN 4 ELSE 1
    /\ s[1] = cmd[i]
    /\ i \in L => s[2] = "-S" /\ s[3] = "-p" /\ s[4] = "''"

LEMMA WordSpelled ==
    ASSUME NEW cmd \in Seq(Words), NEW L, NEW i \in 1..Len(cmd), NEW s,
           s = IF i \in L THEN <<cmd[i]>> \o Inserted ELSE <<cmd[i]>>
    PROVE  Spelled(cmd, L, i, s)
<1>1. cmd[i] \in Words
  OBVIOUS
<1>2. CASE i \in L
  <2>1. s = <<cmd[i]>> \o Inserted
    BY <1>2
  <2>2. WithOptions(cmd[i], s)
    BY <1>1, <2>1, WordWithOptions, Zenon
  <2> QED BY <1>2, <2>2 DEF Spelled, WithOptions
<1>3. CASE i \notin L
  <2>1. s = <<cmd[i]>>
    BY <1>3
  <2>2. s \in Seq(Words)
    BY <1>1, <2>1, OneWord
  <2> QED BY <1>3, <2>1, <2>2 DEF Spelled
<1> QED BY <1>2, <1>3

\* One word more.
LEMMA LaidNext ==
    ASSUME NEW cmd, NEW L, NEW t, NEW n \in Nat, NEW at, Laid(cmd, L, t, at, n),
           NEW s, Spelled(cmd, L, n + 1, s)
    PROVE  \E after : Laid(cmd, L, t \o s, after, n + 1)
<1> DEFINE u == t \o s
<1> DEFINE after == [i \in 1..(n + 2) |-> IF i <= n + 1 THEN at[i] ELSE Len(u) + 1]
<1>1. /\ t \in Seq(Words) /\ s \in Seq(Words)
      /\ u \in Seq(Words) /\ Len(u) = Len(t) + Len(s)
      /\ \A k \in 1..Len(t) : u[k] = t[k]
      /\ \A k \in 1..Len(s) : u[Len(t) + k] = s[k]
  <2>1. t \in Seq(Words) /\ s \in Seq(Words)
    BY DEF Laid, Spelled
  <2>2. \A x, y \in Seq(Words) :
          /\ x \o y \in Seq(Words)
          /\ Len(x \o y) = Len(x) + Len(y)
          /\ \A k \in 1..Len(x) : (x \o y)[k] = x[k]
          /\ \A k \in 1..Len(y) : (x \o y)[Len(x) + k] = y[k]
    BY Concat
  <2> QED BY <2>1, <2>2, Zenon
<1> HIDE DEF u
<1>2. Len(u) \in Nat /\ Len(t) \in Nat
  BY <1>1
<1>3. at[1] = 1 /\ Len(t) = at[n + 1] - 1 /\ \A i \in 1..(n + 1) : at[i] \in Nat
  BY DEF Laid
<1>4. /\ \A i \in 1..(n + 1) : i \in 1..(n + 2)
      /\ \A i \in 1..n : i \in 1..(n + 1) /\ i + 1 \in 1..(n + 1) /\ 1 <= i
                         /\ i + 1 <= n + 1
      /\ 1 \in 1..(n + 1) /\ n + 1 \in 1..(n + 1) /\ (n + 1) + 1 = n + 2 /\ n + 2 \in 1..(n + 2)
  OBVIOUS
<1>5. at[n + 1] = Len(t) + 1
  <2>1. at[n + 1] \in Nat
    BY <1>3, <1>4
  <2> QED BY <2>1, <1>2, <1>3
<1>6. /\ \A i \in 1..(n + 1) : after[i] = at[i]
      /\ after[n + 2] = Len(u) + 1
  OBVIOUS
<1>7. after \in [1..(n + 2) -> Nat]
  BY <1>2, <1>3
<1> HIDE DEF after
<1>8. ASSUME NEW i \in 1..n
      PROVE  /\ after[i + 1] = IF i \in L THEN after[i] + 4 ELSE after[i] + 1
             /\ u[after[i]] = cmd[i]
             /\ i \in L => /\ u[after[i] + 1] = "-S"
                           /\ u[after[i] + 2] = "-p"
                           /\ u[after[i] + 3] = "''"
  <2>1. after[i] = at[i] /\ after[i + 1] = at[i + 1]
    BY <1>4, <1>6
  <2>2. /\ at[i + 1] = IF i \in L THEN at[i] + 4 ELSE at[i] + 1
        /\ t[at[i]] = cmd[i]
        /\ i \in L => /\ t[at[i] + 1] = "-S"
                      /\ t[at[i] + 2] = "-p"
                      /\ t[at[i] + 3] = "''"
    BY DEF Laid
  <2>3. at[i] \in Nat /\ at[i + 1] \in Nat
    BY <1>3, <1>4
  <2>4. at[i] >= 1
    <3>1. at[1] + (i - 1) <= at[i]
      BY <1>4, LaidForward
    <3> QED BY <3>1, <1>3, <2>3
  <2>5. at[i + 1] <= Len(t) + 1
    <3>1. at[i + 1] + ((n + 1) - (i + 1)) <= at[n + 1]
      BY <1>4, LaidForward
    <3> QED BY <3>1, <1>2, <1>5, <2>3
  <2>6. at[i] \in 1..Len(t) /\ (i \in L => \A m \in {1, 2, 3} : at[i] + m \in 1..Len(t))
    <3>1. at[i + 1] = at[i] + 4 \/ (at[i + 1] = at[i] + 1 /\ i \notin L)
      BY <2>2
    <3>2. \A x, y, z \in Nat : x >= 1 /\ y <= z + 1 =>
             /\ y = x + 1 => x \in 1..z
             /\ y = x + 4 => x \in 1..z /\ \A m \in {1, 2, 3} : x + m \in 1..z
      OBVIOUS
    <3> QED BY <1>2, <2>3, <2>4, <2>5, <3>1, <3>2, Zenon
  <2>7. u[at[i]] = t[at[i]] /\ (i \in L => \A m \in {1, 2, 3} : u[at[i] + m] = t[at[i] + m])
    BY <1>1, <2>6
  <2> QED BY <2>1, <2>2, <2>7
<1>9. /\ after[n + 2] = IF n + 1 \in L THEN after[n + 1] + 4 ELSE after[n + 1] + 1
      /\ u[after[n + 1]] = cmd[n + 1]
      /\ n + 1 \in L => /\ u[after[n + 1] + 1] = "-S"
                        /\ u[after[n + 1] + 2] = "-p"
                        /\ u[after[n + 1] + 3] = "''"
  <2>1. after[n + 1] = Len(t) + 1 /\ after[n + 2] = Len(t) + Len(s) + 1
    BY <1>1, <1>4, <1>5, <1>6
  <2>2. /\ Len(s) = IF n + 1 \in L THEN 4 ELSE 1
        /\ s[1] = cmd[n + 1]
        /\ n + 1 \in L => s[2] = "-S" /\ s[3] = "-p" /\ s[4] = "''"
    BY DEF Spelled
  <2>3. /\ Len(t) + 4 + 1 = (Len(t) + 1) + 4 /\ Len(t) + 1 + 1 = (Len(t) + 1) + 1
        /\ Len(t) + 2 = (Len(t) + 1) + 1
        /\ Len(t) + 3 = (Len(t) + 1) + 2 /\ Len(t) + 4 = (Len(t) + 1) + 3
    BY <1>2
  <2>4. 1 \in 1..Len(s) /\ (n + 1 \in L => 2 \in 1..Len(s) /\ 3 \in 1..Len(s) /\ 4 \in 1..Len(s))
    BY <2>2
  <2>5. /\ u[Len(t) + 1] = s[1]
        /\ n + 1 \in L => /\ u[Len(t) + 2] = s[2]
                          /\ u[Len(t) + 3] = s[3]
                          /\ u[Len(t) + 4] = s[4]
    BY <1>1, <2>4
  <2> QED BY <2>1, <2>2, <2>3, <2>5
<1>10. Laid(cmd, L, u, after, n + 1)
  <2>1. after[1] = 1
    BY <1>3, <1>4, <1>6
  <2>2. Len(u) = after[n + 2] - 1
    BY <1>2, <1>6
  <2>3. ASSUME NEW i \in 1..(n + 1)
        PROVE  /\ after[i + 1] = IF i \in L THEN after[i] + 4 ELSE after[i] + 1
               /\ u[after[i]] = cmd[i]
               /\ i \in L => /\ u[after[i] + 1] = "-S"
                             /\ u[after[i] + 2] = "-p"
                             /\ u[after[i] + 3] = "''"
    <3>1. i \in 1..n \/ i = n + 1
      OBVIOUS
    <3>2. CASE i = n + 1
      BY <3>2, <1>4, <1>9
    <3> QED BY <3>1, <3>2, <1>8
  <2>4. (n + 1) + 1 = n + 2
    OBVIOUS
  <2> QED BY <1>1, <1>7, <2>1, <2>2, <2>3, <2>4, Zenon DEF Laid
<1> QED BY <1>10, Zenon DEF u

LEMMA LaidNothing == ASSUME NEW cmd, NEW L PROVE \E at : Laid(cmd, L, <<>>, at, 0)
<1> DEFINE at == [i \in 1..1 |-> 1]
<1>1. at \in [1..(0 + 1) -> Nat] /\ at[1] = 1 /\ at[0 + 1] = 1
  OBVIOUS
<1>2. <<>> \in Seq(Words) /\ Len(<<>>) = at[0 + 1] - 1
  BY <1>1
<1>3. \A i \in 1..0 : FALSE
  OBVIOUS
<1> HIDE DEF at
<1>4. Laid(cmd, L, <<>>, at, 0)
  BY <1>1, <1>2, <1>3, Zenon DEF Laid
<1> QED BY <1>4, Zenon

LEMMA NothingBefore == ASSUME NEW S, NEW s \in Seq(S) PROVE <<>> \o s = s
OBVIOUS

LEMMA SpelledIsSeq == ASSUME NEW cmd, NEW L, NEW i, NEW s, Spelled(cmd, L, i, s) PROVE s \in Seq(Words)
BY Zenon DEF Spelled

\* Word after word, a sequence is laid out.
LEMMA LaidAll ==
    ASSUME NEW cmd, NEW L, NEW n \in Nat, n >= 1, NEW f, NEW seqs,
           f[1] = seqs[1],
           \A i \in 2..n : f[i] = f[i - 1] \o seqs[i],
           \A i \in 1..n : Spelled(cmd, L, i, seqs[i])
    PROVE  \E at : Laid(cmd, L, f[n], at, n)
<1> DEFINE S == {m \in Nat : \E at : Laid(cmd, L, f[m + 1], at, m + 1)}
<1>1. 0 \in S
  <2>1. Spelled(cmd, L, 0 + 1, f[1])
    <3>1. 1 \in 1..n /\ 0 + 1 = 1
      OBVIOUS
    <3> QED BY <3>1
  <2>2. PICK at : Laid(cmd, L, <<>>, at, 0)
    BY LaidNothing, Zenon
  <2>3. \E after : Laid(cmd, L, <<>> \o f[1], after, 0 + 1)
    <3>1. 0 \in Nat
      OBVIOUS
    <3> QED BY <2>1, <2>2, <3>1, LaidNext, Zenon
  <2>4. <<>> \o f[1] = f[1]
    BY <2>1, SpelledIsSeq, NothingBefore, Zenon
  <2>5. \E after : Laid(cmd, L, f[0 + 1], after, 0 + 1)
    <3>1. f[0 + 1] = f[1]
      OBVIOUS
    <3> QED BY <2>3, <2>4, <3>1, Zenon
  <2> QED BY <2>5
<1>2. ASSUME NEW m \in 0..((n - 1) - 1), m \in S PROVE m + 1 \in S
  <2>1. /\ m + 1 \in Nat /\ (m + 1) + 1 \in 2..n /\ (m + 1) + 1 \in 1..n
        /\ ((m + 1) + 1) - 1 = m + 1
    OBVIOUS
  <2>2. PICK at : Laid(cmd, L, f[m + 1], at, m + 1)
    BY <1>2
  <2>3. Spelled(cmd, L, (m + 1) + 1, seqs[(m + 1) + 1])
    BY <2>1
  <2>4. \E after : Laid(cmd, L, f[m + 1] \o seqs[(m + 1) + 1], after, (m + 1) + 1)
    BY <2>1, <2>2, <2>3, LaidNext, Zenon
  <2>5. f[(m + 1) + 1] = f[m + 1] \o seqs[(m + 1) + 1]
    <3>1. f[(m + 1) + 1] = f[((m + 1) + 1) - 1] \o seqs[(m + 1) + 1]
      BY <2>1, Zenon
    <3> QED BY <2>1, <3>1, Zenon
  <2>6. \E after : Laid(cmd, L, f[(m + 1) + 1], after, (m + 1) + 1)
    BY <2>4, <2>5, Zenon
  <2> QED BY <2>1, <2>6
<1>3. \A m \in 0..(n - 1) : m \in S
  <2> HIDE DEF S
  <2>1. n - 1 \in Nat
    OBVIOUS
  <2> QED BY <2>1, <1>1, <1>2, UpTo
<1>4. n - 1 \in 0..(n - 1) /\ (n - 1) + 1 = n
  OBVIOUS
<1>5. \E at : Laid(cmd, L, f[(n - 1) + 1], at, (n - 1) + 1)
  <2>1. n - 1 \in S
    BY <1>3, <1>4, Zenon
  <2> QED BY <2>1
<1> QED BY <1>4, <1>5, Zenon

LEMMA FunctionLen ==
    ASSUME NEW S, NEW n \in Nat, NEW f \in [1..n -> S]
    PROVE  Len(f) = n
OBVIOUS

LEMMA RewriteLaysOut ==
    ASSUME NEW cmd \in Seq(Words), cmd # <<>>
    PROVE  \E at : Laid(cmd, Rewritten(cmd), RewriteSudo(cmd), at, Len(cmd))
<1> DEFINE n == Len(cmd)
           L == Rewritten(cmd)
           seqs == [i \in DOMAIN cmd |-> IF i \in L THEN <<cmd[i]>> \o Inserted ELSE <<cmd[i]>>]
<1>1. n \in Nat /\ n >= 1 /\ DOMAIN cmd = 1..n
  OBVIOUS
<1>2. RewriteSudo(cmd) = FlattenSeq(seqs)
  BY Zenon DEF RewriteSudo
<1>3. ASSUME NEW i \in 1..n PROVE Spelled(cmd, L, i, seqs[i])
  <2>1. seqs[i] = IF i \in L THEN <<cmd[i]>> \o Inserted ELSE <<cmd[i]>>
    BY <1>1, Zenon
  <2> HIDE DEF seqs, L
  <2> QED BY <2>1, WordSpelled, Zenon
<1>4. seqs \in [1..n -> Seq(Words)]
  <2>1. \A i \in 1..n : seqs[i] \in Seq(Words)
    BY <1>3, SpelledIsSeq, Zenon
  <2>2. seqs = [i \in DOMAIN cmd |-> seqs[i]]
    BY Zenon
  <2>3. \A T, D, g : (\A i \in D : g[i] \in T) /\ g = [i \in D |-> g[i]] => g \in [D -> T]
    OBVIOUS
  <2> HIDE DEF seqs, n
  <2> QED BY <1>1, <2>1, <2>2, <2>3, Zenon
<1> HIDE DEF L, seqs
<1>5. Len(seqs) = n
  BY <1>1, <1>4, FunctionLen, Zenon
<1> HIDE DEF n
<1>6. PICK f : /\ FlattenSeq(seqs) = f[n]
               /\ f[1] = seqs[1]
               /\ \A i \in 2..n : f[i] = f[i - 1] \o seqs[i]
  <2>1. \A s : Len(s) = n =>
          \E f : /\ FlattenSeq(s) = f[n]
                 /\ f[1] = s[1]
                 /\ \A i \in 2..n : f[i] = f[i - 1] \o s[i]
    BY <1>1, FlattenIs, Zenon
  <2> QED BY <1>5, <2>1, Zenon
<1>7. \E at : Laid(cmd, L, f[n], at, n)
  BY <1>1, <1>3, <1>6, LaidAll, Zenon
<1> QED BY <1>2, <1>6, <1>7, Zenon DEF L, n

------------------------------------------------------------------------------
(* The segments of what is laid out *)

\* The n words of cmd stand in t from at[1], .., at[n], alone the words of cut,
\* and between the others none of cut.
Spread(cmd, t, at, n, cut) ==
    /\ at[1] = 1
    /\ \A i \in 1..(n + 1) : at[i] \in Nat
    /\ \A i \in 1..n : at[i + 1] > at[i] /\ t[at[i]] = cmd[i]
    /\ \A i \in 1..n : \A k \in (at[i] + 1)..(at[i + 1] - 1) : t[k] \notin cut
    /\ \A i \in 1..n : cmd[i] \in cut => at[i + 1] = at[i] + 1

\* Every word of t belongs to one of cmd.
LEMMA Covers ==
    ASSUME NEW n \in Nat, NEW at, at[1] = 1,
           \A i \in 1..(n + 1) : at[i] \in Nat,
           \A i \in 1..n : at[i + 1] > at[i],
           NEW k \in 1..(at[n + 1] - 1)
    PROVE  \E i \in 1..n : at[i] <= k /\ k < at[i + 1]
<1> DEFINE S == {m \in Nat : k < at[m + 1] => \E i \in 1..m : at[i] <= k /\ k < at[i + 1]}
<1>0. k \in Nat /\ k >= 1 /\ k < at[n + 1]
  <2>1. at[n + 1] \in Nat
    OBVIOUS
  <2> QED BY <2>1
<1>1. 0 \in S
  BY <1>0
<1>2. ASSUME NEW m \in 0..(n - 1), m \in S PROVE m + 1 \in S
  <2>1. m + 1 \in 1..n /\ m + 1 \in 1..(n + 1) /\ \A i \in 1..m : i \in 1..(m + 1)
    OBVIOUS
  <2>2. at[m + 1] \in Nat
    BY <2>1
  <2>3. at[m + 1] <= k \/ k < at[m + 1]
    BY <1>0, <2>2
  <2>4. CASE at[m + 1] <= k
    <3>1. m + 1 \in 1..(m + 1)
      BY <2>1
    <3> QED BY <2>4, <3>1
  <2>5. CASE k < at[m + 1]
    <3>1. PICK i \in 1..m : at[i] <= k /\ k < at[i + 1]
      BY <1>2, <2>5
    <3>2. i \in 1..(m + 1)
      BY <2>1
    <3> QED BY <3>1, <3>2
  <2> QED BY <2>3, <2>4, <2>5
<1>3. n \in S
  <2> HIDE DEF S
  <2> QED BY <1>1, <1>2, UpTo
<1> QED BY <1>0, <1>3

\* A stretch of cmd is one of t ...
LEMMA StretchSpread ==
    ASSUME NEW cmd, NEW t, NEW n \in Nat, NEW at, NEW cut, Spread(cmd, t, at, n, cut),
           NEW a \in 1..n, NEW b \in 1..n, Stretch(cmd, n, cut, a, b)
    PROVE  Stretch(t, at[n + 1] - 1, cut, at[a], at[b + 1] - 1)
<1>1. /\ at[1] = 1 /\ \A i \in 1..(n + 1) : at[i] \in Nat
      /\ \A i \in 1..n : at[i + 1] > at[i]
      /\ \A i, j \in 1..(n + 1) : i <= j => at[i] + (j - i) <= at[j]
  <2>1. at[1] = 1 /\ (\A i \in 1..(n + 1) : at[i] \in Nat) /\ \A i \in 1..n : at[i + 1] > at[i]
    BY Zenon DEF Spread
  <2> QED BY <2>1, Forward, Zenon
<1>2. \A i \in 1..n : t[at[i]] = cmd[i] /\ (cmd[i] \in cut => at[i + 1] = at[i] + 1)
  BY Zenon DEF Spread
<1>3. \A i \in 1..n : \A k \in (at[i] + 1)..(at[i + 1] - 1) : t[k] \notin cut
  BY Zenon DEF Spread
<1>4. /\ a <= b
      /\ \A i \in a..b : cmd[i] \notin cut
      /\ a = 1 \/ cmd[a - 1] \in cut
      /\ b = n \/ cmd[b + 1] \in cut
  BY Zenon DEF Stretch
<1>5. /\ a \in 1..(n + 1) /\ b + 1 \in 1..(n + 1) /\ n + 1 \in 1..(n + 1) /\ 1 \in 1..(n + 1)
      /\ a < b + 1 /\ b + 1 <= n + 1 /\ 1 <= a
  BY <1>4
<1>6. /\ at[a] \in Nat /\ at[b + 1] \in Nat /\ at[n + 1] \in Nat
      /\ at[a] >= 1 /\ at[a] < at[b + 1] /\ at[b + 1] <= at[n + 1]
  <2>1. at[a] \in Nat /\ at[b + 1] \in Nat /\ at[n + 1] \in Nat
    BY <1>1, <1>5
  <2>2. at[1] + (a - 1) <= at[a] /\ at[a] + ((b + 1) - a) <= at[b + 1]
        /\ at[b + 1] + ((n + 1) - (b + 1)) <= at[n + 1]
    BY <1>1, <1>5
  <2> QED BY <2>1, <2>2, <1>1, <1>5
<1>7. ASSUME NEW k \in at[a]..(at[b + 1] - 1) PROVE t[k] \notin cut
  <2>1. k \in 1..(at[n + 1] - 1)
    BY <1>6
  <2>2. PICK i \in 1..n : at[i] <= k /\ k < at[i + 1]
    BY <2>1, <1>1, Covers
  <2>3. i \in 1..(n + 1) /\ i + 1 \in 1..(n + 1)
    OBVIOUS
  <2>4. at[i] \in Nat /\ at[i + 1] \in Nat
    BY <2>3, <1>1
  <2>5. i >= a
    <3> SUFFICES ASSUME i < a PROVE FALSE
      OBVIOUS
    <3>1. at[i + 1] + (a - (i + 1)) <= at[a]
      BY <1>1, <1>5, <2>3
    <3> QED BY <3>1, <2>2, <2>4, <1>6
  <2>6. i <= b
    <3> SUFFICES ASSUME i > b PROVE FALSE
      OBVIOUS
    <3>1. at[b + 1] + (i - (b + 1)) <= at[i]
      BY <1>1, <1>5, <2>3
    <3> QED BY <3>1, <2>2, <2>4, <1>6
  <2>7. CASE k = at[i]
    BY <2>5, <2>6, <2>7, <1>2, <1>4
  <2>8. CASE k # at[i]
    <3>1. k \in (at[i] + 1)..(at[i + 1] - 1)
      BY <2>2, <2>4, <2>8
    <3> QED BY <3>1, <1>3
  <2> QED BY <2>7, <2>8
<1>8. at[a] = 1 \/ t[at[a] - 1] \in cut
  <2>1. CASE a = 1
    BY <2>1, <1>1
  <2>2. CASE a # 1
    <3>1. a - 1 \in 1..n /\ (a - 1) + 1 = a /\ a - 1 \in 1..(n + 1)
      BY <2>2
    <3>2. cmd[a - 1] \in cut
      BY <2>2, <1>4
    <3>3. at[a] = at[a - 1] + 1 /\ t[at[a - 1]] = cmd[a - 1]
      <4>1. at[(a - 1) + 1] = at[a - 1] + 1 /\ t[at[a - 1]] = cmd[a - 1]
        BY <3>1, <3>2, <1>2, Zenon
      <4> QED BY <3>1, <4>1
    <3>4. at[a - 1] \in Nat
      BY <3>1, <1>1
    <3>5. at[a] - 1 = at[a - 1]
      BY <3>3, <3>4
    <3> QED BY <3>2, <3>3, <3>5
  <2> QED BY <2>1, <2>2
<1>9. at[b + 1] - 1 = at[n + 1] - 1 \/ t[(at[b + 1] - 1) + 1] \in cut
  <2>1. CASE b = n
    BY <2>1
  <2>2. CASE b # n
    <3>1. b + 1 \in 1..n
      BY <2>2
    <3>2. t[at[b + 1]] = cmd[b + 1] /\ cmd[b + 1] \in cut
      BY <3>1, <1>2, <1>4, <2>2
    <3>3. (at[b + 1] - 1) + 1 = at[b + 1]
      BY <1>6
    <3> QED BY <3>2, <3>3
  <2> QED BY <2>1, <2>2
<1>10. /\ at[a] \in 1..(at[n + 1] - 1) /\ at[b + 1] - 1 \in 1..(at[n + 1] - 1)
       /\ at[a] <= at[b + 1] - 1
  BY <1>6
<1> QED BY <1>7, <1>8, <1>9, <1>10, Zenon DEF Stretch

\* <<x, y>> is where a stretch of cmd stands.
ComesFrom(cmd, n, at, cut, x, y) ==
    \E a, b \in 1..n : Stretch(cmd, n, cut, a, b) /\ x = at[a] /\ y = at[b + 1] - 1

\* ... and t has no other.
LEMMA SpreadStretch ==
    ASSUME NEW cmd, NEW t, NEW n \in Nat, NEW at, NEW cut, Spread(cmd, t, at, n, cut),
           NEW x, NEW y, Stretch(t, at[n + 1] - 1, cut, x, y)
    PROVE  ComesFrom(cmd, n, at, cut, x, y)
<1>1. /\ at[1] = 1 /\ \A i \in 1..(n + 1) : at[i] \in Nat
      /\ \A i \in 1..n : at[i + 1] > at[i]
      /\ \A i, j \in 1..(n + 1) : i <= j => at[i] + (j - i) <= at[j]
  <2>1. at[1] = 1 /\ (\A i \in 1..(n + 1) : at[i] \in Nat) /\ \A i \in 1..n : at[i + 1] > at[i]
    BY Zenon DEF Spread
  <2> QED BY <2>1, Forward, Zenon
<1>2. \A i \in 1..n : t[at[i]] = cmd[i] /\ (cmd[i] \in cut => at[i + 1] = at[i] + 1)
  BY Zenon DEF Spread
<1>3. \A i \in 1..n : \A k \in (at[i] + 1)..(at[i + 1] - 1) : t[k] \notin cut
  BY Zenon DEF Spread
<1> DEFINE N == at[n + 1] - 1
<1>4. /\ x \in 1..N /\ y \in 1..N /\ x <= y
      /\ \A i \in x..y : t[i] \notin cut
      /\ x = 1 \/ t[x - 1] \in cut
      /\ y = N \/ t[y + 1] \in cut
  BY Zenon DEF Stretch
<1>5. N + 1 = at[n + 1] /\ N \in Int /\ n >= 1
  <2>1. n + 1 \in 1..(n + 1)
    OBVIOUS
  <2>2. at[n + 1] \in Nat
    BY <2>1, <1>1
  <2>3. n # 0
    BY <1>1, <1>4
  <2> QED BY <2>2, <2>3
\* Words of cut stand alone.
<1>6. ASSUME NEW k \in 1..N, t[k] \in cut
      PROVE  \E i \in 1..n : k = at[i] /\ at[i + 1] = k + 1 /\ cmd[i] \in cut
  <2>1. PICK i \in 1..n : at[i] <= k /\ k < at[i + 1]
    BY <1>1, Covers
  <2>2. i \in 1..(n + 1) /\ i + 1 \in 1..(n + 1)
    OBVIOUS
  <2>3. at[i] \in Nat /\ at[i + 1] \in Nat
    BY <2>2, <1>1
  <2>4. k = at[i]
    <3> SUFFICES ASSUME k # at[i] PROVE FALSE
      OBVIOUS
    <3>1. k \in (at[i] + 1)..(at[i + 1] - 1)
      BY <2>1, <2>3
    <3> QED BY <3>1, <1>3, <1>6
  <2>5. cmd[i] \in cut
    BY <2>4, <1>2, <1>6
  <2> QED BY <2>4, <2>5, <1>2
<1> HIDE DEF N
<1>7. \E a \in 1..n : x = at[a] /\ (a = 1 \/ cmd[a - 1] \in cut)
  <2>1. CASE x = 1
    BY <2>1, <1>1, <1>5
  <2>2. CASE x # 1
    <3>1. x - 1 \in 1..N /\ (x - 1) + 1 = x /\ x < N + 1
      <4>1. x \in 1..N
        BY <1>4
      <4> QED BY <2>2, <1>5, <4>1
    <3>2. PICK i \in 1..n : x - 1 = at[i] /\ at[i + 1] = (x - 1) + 1 /\ cmd[i] \in cut
      BY <3>1, <2>2, <1>4, <1>6
    <3>3. i # n
      BY <3>1, <3>2, <1>5
    <3>4. i + 1 \in 1..n /\ (i + 1) - 1 = i
      BY <3>3
    <3> QED BY <3>1, <3>2, <3>4
  <2> QED BY <2>1, <2>2
<1>8. \E b \in 1..n : y = at[b + 1] - 1 /\ (b = n \/ cmd[b + 1] \in cut)
  <2>1. CASE y = N
    <3>1. n \in 1..n
      BY <1>5
    <3> QED BY <2>1, <3>1 DEF N
  <2>2. CASE y # N
    <3>1. y + 1 \in 1..N /\ y >= 1 /\ y \in Nat
      <4>1. y \in 1..N
        BY <1>4
      <4> QED BY <2>2, <1>5, <4>1
    <3>2. PICK i \in 1..n : y + 1 = at[i] /\ cmd[i] \in cut
      BY <3>1, <2>2, <1>4, <1>6
    <3>3. i # 1
      BY <3>1, <3>2, <1>1
    <3>4. i - 1 \in 1..n /\ (i - 1) + 1 = i
      BY <3>3
    <3>5. y = at[i] - 1
      BY <3>1, <3>2
    <3> QED BY <3>2, <3>4, <3>5
  <2> QED BY <2>1, <2>2
<1>9. PICK a \in 1..n : x = at[a] /\ (a = 1 \/ cmd[a - 1] \in cut)
  BY <1>7
<1>10. PICK b \in 1..n : y = at[b + 1] - 1 /\ (b = n \/ cmd[b + 1] \in cut)
  BY <1>8
<1>11. /\ a \in 1..(n + 1) /\ b + 1 \in 1..(n + 1)
       /\ at[a] \in Nat /\ at[b + 1] \in Nat
  <2>1. a \in 1..(n + 1) /\ b + 1 \in 1..(n + 1)
    OBVIOUS
  <2> QED BY <2>1, <1>1
<1>12. a <= b
  <2> SUFFICES ASSUME b + 1 <= a PROVE FALSE
    OBVIOUS
  <2>1. at[b + 1] + (a - (b + 1)) <= at[a]
    BY <1>1, <1>11
  <2>2. at[a] <= at[b + 1] - 1
    BY <1>4, <1>9, <1>10
  <2> QED BY <2>1, <2>2, <1>11
<1>13. ASSUME NEW i \in a..b PROVE cmd[i] \notin cut
  <2>1. i \in 1..n /\ i \in 1..(n + 1) /\ a <= i /\ i <= b + 1 /\ i < b + 1
    OBVIOUS
  <2>2. at[a] + (i - a) <= at[i] /\ at[i] + ((b + 1) - i) <= at[b + 1] /\ at[i] \in Nat
    BY <2>1, <1>1, <1>11
  <2>3. at[i] \in at[a]..(at[b + 1] - 1)
    BY <2>1, <2>2, <1>11
  <2>4. at[i] \in x..y
    BY <2>3, <1>9, <1>10
  <2>5. t[at[i]] \notin cut
    BY <2>4, <1>4, Zenon
  <2> QED BY <2>1, <2>5, <1>2
<1>14. Stretch(cmd, n, cut, a, b)
  BY <1>9, <1>10, <1>12, <1>13, Zenon DEF Stretch
<1> QED BY <1>9, <1>10, <1>14, Zenon DEF ComesFrom

------------------------------------------------------------------------------
(* What rewrite_sudo leaves alone *)

LEMMA SudoSeparatesNot ==
    ASSUME NEW word, BaseName(word) \in {"sudo", "doas"}
    PROVE  word \notin Separators
<1>1. CASE word \in DOMAIN BaseNames
  BY <1>1, PolicyAssumption
<1>2. CASE word \notin DOMAIN BaseNames
  BY <1>2 DEF BaseName, Separators
<1> QED BY <1>1, <1>2

LEMMA FirstOfStretch ==
    ASSUME NEW S, NEW cmd \in Seq(S), NEW a \in 1..Len(cmd), NEW b \in 1..Len(cmd), a <= b
    PROVE  /\ SubSeq(cmd, a, b) \in Seq(S) /\ Len(SubSeq(cmd, a, b)) = (b - a) + 1
           /\ \A i \in 1..((b - a) + 1) : SubSeq(cmd, a, b)[i] = cmd[a + i - 1]
           /\ Head(SubSeq(cmd, a, b)) = cmd[a]
<1>1. SubSeq(cmd, a, b) \in Seq(S) /\ Len(SubSeq(cmd, a, b)) = (b - a) + 1
  <2>1. \A i \in a..b : i \in 1..Len(cmd)
    OBVIOUS
  <2> QED BY <2>1, SubSeqProperties
<1>2. \A i \in 1..((b - a) + 1) : SubSeq(cmd, a, b)[i] = cmd[a + i - 1]
  BY SubSeqProperties
<1>3. Head(SubSeq(cmd, a, b)) = SubSeq(cmd, a, b)[1]
  BY <1>1
<1>4. 1 \in 1..((b - a) + 1) /\ a + 1 - 1 = a
  OBVIOUS
<1> QED BY <1>1, <1>2, <1>3, <1>4

\* Options are put behind the sudo that leads a piece.
LEMMA RewrittenIs ==
    ASSUME NEW cmd \in Seq(Words), NEW l \in Rewritten(cmd)
    PROVE  /\ l \in 1..Len(cmd)
           /\ BaseName(cmd[l]) \in {"sudo", "doas"}
           /\ l = 1 \/ cmd[l - 1] \in PieceEnds
           /\ l = 1 \/ cmd[l - 1] \in Separators
<1>1. PICK q \in Between(cmd, PieceEnds) : l = q[1] /\ LedBySudo(SubSeq(cmd, q[1], q[2]))
  BY Zenon DEF Rewritten
<1>2. q = <<q[1], q[2]>>
  BY DEF Between
<1>3. Stretch(cmd, Len(cmd), PieceEnds, q[1], q[2])
  BY <1>2, BetweenIs, Zenon
<1>4. /\ q[1] \in 1..Len(cmd) /\ q[2] \in 1..Len(cmd) /\ q[1] <= q[2]
      /\ q[1] = 1 \/ cmd[q[1] - 1] \in PieceEnds
  BY <1>3, Zenon DEF Stretch
<1>5. Head(SubSeq(cmd, q[1], q[2])) = cmd[q[1]]
  BY <1>4, FirstOfStretch, Zenon
<1>6. PieceEnds \subseteq Separators
  BY DEF PieceEnds, Separators
<1> QED BY <1>1, <1>4, <1>5, <1>6, Zenon DEF LedBySudo

LEMMA InsertedQuiet ==
    \A word \in {"-S", "-p", "''"} :
        /\ word \notin Separators /\ word \notin OnDevices /\ word \notin EndInSudo
        /\ word \notin {":(){", ">", ">>", "/proc/sysrq-trigger"}
<1>1. {"-S", "-p", "''"} \cap Separators = {}
  BY DEF Separators
<1>2. {"-S", "-p", "''"} \cap (OnDevices \cup EndInSudo) = {}
  BY PolicyAssumption
<1>3. {"-S", "-p", "''"} \cap {":(){", ">", ">>", "/proc/sysrq-trigger"} = {}
  OBVIOUS
<1> QED BY <1>1, <1>2, <1>3, Zenon

\* Between the words that are laid out there are only the options.
LEMMA LaidBetween ==
    ASSUME NEW cmd, NEW L, NEW t, NEW n \in Nat, NEW at, Laid(cmd, L, t, at, n),
           NEW i \in 1..n, NEW k \in (at[i] + 1)..(at[i + 1] - 1)
    PROVE  i \in L /\ t[k] \in {"-S", "-p", "''"}
<1>1. at[i] \in Nat /\ at[i + 1] \in Nat
  <2>1. i \in 1..(n + 1) /\ i + 1 \in 1..(n + 1)
    OBVIOUS
  <2> QED BY <2>1 DEF Laid
<1>2. at[i + 1] = IF i \in L THEN at[i] + 4 ELSE at[i] + 1
  BY DEF Laid
<1>3. i \in L
  BY <1>1, <1>2
<1>4. k = at[i] + 1 \/ k = at[i] + 2 \/ k = at[i] + 3
  BY <1>1, <1>2, <1>3
<1>5. t[at[i] + 1] = "-S" /\ t[at[i] + 2] = "-p" /\ t[at[i] + 3] = "''"
  BY <1>3, Zenon DEF Laid
<1> QED BY <1>3, <1>4, <1>5, Zenon

\* A word of what is laid out is one of cmd, unless it is one of the options.
LEMMA LaidWord ==
    ASSUME NEW cmd, NEW L, NEW t, NEW n \in Nat, NEW at, Laid(cmd, L, t, at, n),
           NEW k \in 1..Len(t), t[k] \notin {"-S", "-p", "''"}
    PROVE  \E i \in 1..n : k = at[i] /\ t[k] = cmd[i]
<1>1. /\ at[1] = 1 /\ (\A i \in 1..(n + 1) : at[i] \in Nat)
      /\ Len(t) = at[n + 1] - 1
      /\ \A i \in 1..n : /\ at[i + 1] = IF i \in L THEN at[i] + 4 ELSE at[i] + 1
                         /\ t[at[i]] = cmd[i]
  BY DEF Laid
<1>2. ASSUME NEW i \in 1..n PROVE at[i + 1] > at[i]
  <2>1. at[i] \in Nat
    BY <1>1
  <2>2. at[i + 1] = IF i \in L THEN at[i] + 4 ELSE at[i] + 1
    BY <1>1
  <2> QED BY <2>1, <2>2
<1>3. k \in 1..(at[n + 1] - 1)
  BY <1>1
<1>4. PICK i \in 1..n : at[i] <= k /\ k < at[i + 1]
  BY <1>1, <1>2, <1>3, Covers, Zenon
<1>5. at[i] \in Nat /\ at[i + 1] \in Nat
  <2>1. i \in 1..(n + 1) /\ i + 1 \in 1..(n + 1)
    OBVIOUS
  <2> QED BY <2>1, <1>1
<1>6. k = at[i]
  <2> SUFFICES ASSUME k # at[i] PROVE FALSE
    OBVIOUS
  <2>1. k \in (at[i] + 1)..(at[i + 1] - 1)
    BY <1>4, <1>5
  <2>2. t[k] \in {"-S", "-p", "''"}
    BY <2>1, LaidBetween
  <2> QED BY <2>2
<1> QED BY <1>1, <1>6

LEMMA LaidIsSpread ==
    ASSUME NEW cmd \in Seq(Words), NEW L, NEW t, NEW at, Laid(cmd, L, t, at, Len(cmd)),
           \A l \in L : cmd[l] \notin Separators
    PROVE  Spread(cmd, t, at, Len(cmd), Separators)
<1>1. Len(cmd) \in Nat
  OBVIOUS
<1>2. /\ at[1] = 1
      /\ \A i \in 1..(Len(cmd) + 1) : at[i] \in Nat
      /\ \A i \in 1..Len(cmd) : /\ at[i + 1] = IF i \in L THEN at[i] + 4 ELSE at[i] + 1
                                /\ t[at[i]] = cmd[i]
  BY DEF Laid
<1>3. ASSUME NEW i \in 1..Len(cmd)
      PROVE  at[i + 1] > at[i] /\ (cmd[i] \in Separators => at[i + 1] = at[i] + 1)
  <2>1. at[i] \in Nat
    <3>1. i \in 1..(Len(cmd) + 1)
      BY <1>1
    <3> QED BY <3>1, <1>2
  <2>2. at[i + 1] = IF i \in L THEN at[i] + 4 ELSE at[i] + 1
    BY <1>2
  <2> QED BY <2>1, <2>2
<1>4. ASSUME NEW i \in 1..Len(cmd), NEW k \in (at[i] + 1)..(at[i + 1] - 1)
      PROVE  t[k] \notin Separators
  <2>1. t[k] \in {"-S", "-p", "''"}
    BY <1>1, LaidBetween
  <2> QED BY <2>1, InsertedQuiet, Zenon
<1> QED BY <1>2, <1>3, <1>4, Zenon DEF Spread

LEMMA LaidSpread ==
    ASSUME NEW cmd \in Seq(Words), NEW t, NEW at, Laid(cmd, Rewritten(cmd), t, at, Len(cmd))
    PROVE  Spread(cmd, t, at, Len(cmd), Separators)
<1>1. ASSUME NEW l \in Rewritten(cmd) PROVE cmd[l] \notin Separators
  <2>1. BaseName(cmd[l]) \in {"sudo", "doas"}
    BY RewrittenIs, Zenon
  <2> QED BY <2>1, SudoSeparatesNot
<1> QED BY <1>1, LaidIsSpread, Zenon

LEMMA SameStretch ==
    ASSUME NEW cmd, NEW t, NEW a \in Nat, NEW b \in Nat, NEW x \in Nat, NEW y \in Nat,
           a <= b, y - x = b - a,
           \A i \in a..b : t[x + (i - a)] = cmd[i]
    PROVE  SubSeq(t, x, y) = SubSeq(cmd, a, b)
<1>1. SubSeq(t, x, y) = [i \in 1..(y - x + 1) |-> t[i + x - 1]]
  OBVIOUS
<1>2. SubSeq(cmd, a, b) = [i \in 1..(b - a + 1) |-> cmd[i + a - 1]]
  OBVIOUS
<1>3. y - x + 1 = b - a + 1
  OBVIOUS
<1>4. ASSUME NEW i \in 1..(b - a + 1) PROVE t[i + x - 1] = cmd[i + a - 1]
  <2>1. i + a - 1 \in a..b /\ x + ((i + a - 1) - a) = i + x - 1
    OBVIOUS
  <2> QED BY <2>1
<1> QED BY <1>1, <1>2, <1>3, <1>4

\* Behind the a-th word, up to the b-th, every word stands next to the other.
Steady(at, a, b) ==
    \A i \in a..b : /\ at[i + 1] = at[a + 1] + (i - a)
                    /\ i # a => at[i] = at[a + 1] + (i - a) - 1

\* Within a stretch only its first word has options put behind it.
LEMMA StretchLaid ==
    ASSUME NEW cmd, NEW L, NEW t, NEW n \in Nat, NEW at, Laid(cmd, L, t, at, n),
           NEW a \in 1..n, NEW b \in 1..n, a <= b,
           \A i \in (a + 1)..b : i \notin L
    PROVE  Steady(at, a, b)
<1> DEFINE S == {m \in Nat : a + m <= b => at[(a + m) + 1] = at[a + 1] + m}
<1>0. \A i \in 1..(n + 1) : at[i] \in Nat
  BY DEF Laid
<1>1. 0 \in S
  <2>1. a + 1 \in 1..(n + 1) /\ (a + 0) + 1 = a + 1
    OBVIOUS
  <2>2. at[a + 1] \in Nat
    BY <2>1, <1>0
  <2> QED BY <2>1, <2>2
<1>2. ASSUME NEW m \in 0..((b - a) - 1), m \in S PROVE m + 1 \in S
  <2>1. /\ (a + m) + 1 \in (a + 1)..b /\ (a + m) + 1 \in 1..n /\ (a + m) + 1 \in 1..(n + 1)
        /\ a + (m + 1) = (a + m) + 1 /\ a + m <= b /\ a + 1 \in 1..(n + 1)
    OBVIOUS
  <2>2. at[((a + m) + 1) + 1] = at[(a + m) + 1] + 1
    <3>1. \A i \in 1..n : at[i + 1] = IF i \in L THEN at[i] + 4 ELSE at[i] + 1
      BY DEF Laid
    <3>2. (a + m) + 1 \notin L
      BY <2>1
    <3> QED BY <2>1, <3>1, <3>2, Zenon
  <2>3. at[(a + m) + 1] = at[a + 1] + m
    BY <1>2, <2>1
  <2>4. at[a + 1] \in Nat
    BY <2>1, <1>0
  <2>5. at[(a + (m + 1)) + 1] = at[a + 1] + (m + 1)
    BY <2>1, <2>2, <2>3, <2>4
  <2> QED BY <2>5
<1>3. \A m \in 0..(b - a) : m \in S
  <2> HIDE DEF S
  <2>1. b - a \in Nat
    OBVIOUS
  <2> QED BY <2>1, <1>1, <1>2, UpTo
<1>4. ASSUME NEW i \in a..b PROVE at[i + 1] = at[a + 1] + (i - a)
  <2>1. i - a \in 0..(b - a) /\ a + (i - a) = i /\ i <= b
    OBVIOUS
  <2>2. i - a \in S
    BY <2>1, <1>3
  <2> QED BY <2>1, <2>2
<1>5. ASSUME NEW i \in a..b, i # a PROVE at[i] = at[a + 1] + (i - a) - 1
  <2>1. i - 1 \in a..b /\ (i - 1) + 1 = i /\ a + 1 \in 1..(n + 1)
    BY <1>5
  <2>2. at[(i - 1) + 1] = at[a + 1] + ((i - 1) - a)
    BY <1>4, <2>1, Zenon
  <2>3. at[a + 1] \in Nat
    BY <1>0, <2>1
  <2>4. \A x \in Nat : x + ((i - 1) - a) = x + (i - a) - 1
    OBVIOUS
  <2> QED BY <2>1, <2>2, <2>3, <2>4, Zenon
<1> QED BY <1>4, <1>5, Zenon DEF Steady

\* Each segment of what is sent runs what it ran before.
LEMMA SegmentKept ==
    ASSUME NEW cmd \in Seq(Words), ~AssignsSudo(cmd), NEW t, NEW at,
           Laid(cmd, Rewritten(cmd), t, at, Len(cmd)),
           NEW a, NEW b, Stretch(cmd, Len(cmd), Separators, a, b)
    PROVE  Effective(SubSeq(t, at[a], at[b + 1] - 1)) = Effective(SubSeq(cmd, a, b))
<1> DEFINE L == Rewritten(cmd)
           n == Len(cmd)
           x == at[a]
           y == at[b + 1] - 1
           s == SubSeq(cmd, a, b)
           u == SubSeq(t, x, y)
<1>1. /\ a \in 1..n /\ b \in 1..n /\ a <= b
      /\ \A i \in a..b : cmd[i] \notin Separators
  BY Zenon DEF Stretch
<1>2. n \in Nat
  OBVIOUS
<1>3. \A i \in L : i = 1 \/ cmd[i - 1] \in Separators
  BY RewrittenIs, Zenon
<1>4. /\ at[1] = 1 /\ (\A i \in 1..(n + 1) : at[i] \in Nat)
      /\ t \in Seq(Words) /\ Len(t) = at[n + 1] - 1
      /\ \A i \in 1..n : /\ at[i + 1] = IF i \in L THEN at[i] + 4 ELSE at[i] + 1
                         /\ t[at[i]] = cmd[i]
  BY DEF Laid
<1>5. \A i, j \in 1..(n + 1) : i <= j => at[i] + (j - i) <= at[j]
  BY <1>2, LaidForward, Zenon
<1>6. s \in Seq(Words) /\ Len(s) = (b - a) + 1 /\ \A i \in 1..((b - a) + 1) : s[i] = cmd[a + i - 1]
  BY <1>1, FirstOfStretch, Zenon
<1>7. ASSUME a \in L
      PROVE  /\ BaseName(cmd[a]) \in {"sudo", "doas"} /\ cmd[a] \notin Assignments
             /\ t[x + 1] = "-S" /\ t[x + 2] = "-p" /\ t[x + 3] = "''"
  <2>1. BaseName(cmd[a]) \in {"sudo", "doas"}
    BY <1>7, RewrittenIs, Zenon
  <2>2. cmd[a] \notin Assignments
    BY <2>1, <1>1, Zenon DEF AssignsSudo
  <2>3. t[x + 1] = "-S" /\ t[x + 2] = "-p" /\ t[x + 3] = "''"
    BY <1>1, <1>7, Zenon DEF Laid
  <2> QED BY <2>1, <2>2, <2>3
<1>8. Laid(cmd, L, t, at, n)
  OBVIOUS
<1> HIDE DEF L, n
<1>9. \A i \in (a + 1)..b : i \notin L
  <2> SUFFICES ASSUME NEW i \in (a + 1)..b, i \in L PROVE FALSE
    OBVIOUS
  <2>1. i # 1 /\ i - 1 \in a..b
    BY <1>1, <1>2
  <2> QED BY <2>1, <1>1, <1>3
<1>10. \A i \in a..b : /\ at[i + 1] = at[a + 1] + (i - a)
                       /\ i # a => at[i] = at[a + 1] + (i - a) - 1
  <2>1. Steady(at, a, b)
    BY <1>1, <1>2, <1>8, <1>9, StretchLaid, Zenon
  <2> QED BY <2>1, Zenon DEF Steady
<1>11. /\ a \in 1..(n + 1) /\ a + 1 \in 1..(n + 1) /\ b + 1 \in 1..(n + 1) /\ n + 1 \in 1..(n + 1)
       /\ 1 \in 1..(n + 1) /\ 1 <= a /\ b + 1 <= n + 1 /\ b \in a..b /\ a \in Nat /\ b \in Nat
       /\ a + 1 <= b + 1
  BY <1>1, <1>2
<1>12. x \in Nat /\ at[b + 1] \in Nat /\ at[a + 1] \in Nat /\ at[n + 1] \in Nat
  BY <1>4, <1>11
<1>13. at[b + 1] = at[a + 1] + (b - a) /\ at[a + 1] = (IF a \in L THEN x + 4 ELSE x + 1)
  BY <1>1, <1>4, <1>10, <1>11, Zenon
<1>14. x >= 1 /\ y <= Len(t) /\ x <= y
  <2>1. at[1] + (a - 1) <= at[a] /\ at[b + 1] + ((n + 1) - (b + 1)) <= at[n + 1]
    BY <1>5, <1>11, Zenon
  <2>2. 1 + (a - 1) = a /\ a >= 1 /\ (n + 1) - (b + 1) >= 0 /\ (n + 1) - (b + 1) \in Nat
    BY <1>1, <1>2
  <2>3. x >= 1
    <3>1. at[1] = 1
      BY <1>4
    <3>2. 1 + (a - 1) <= x
      BY <2>1, <3>1, Zenon
    <3>3. \A p \in Nat : 1 + (a - 1) <= p => p >= 1
      BY <2>2, <1>11
    <3> QED BY <3>2, <3>3, <1>12, Zenon
  <2>4. at[b + 1] <= at[n + 1]
    <3>1. \A p, q, r \in Nat : p + q <= r => p <= r
      OBVIOUS
    <3> QED BY <3>1, <2>1, <2>2, <1>12, Zenon
  <2>5. y <= Len(t)
    BY <2>4, <1>4, <1>12
  <2>6. x <= y
    <3>1. at[a] + ((b + 1) - a) <= at[b + 1]
      <4>1. a <= b + 1
        BY <1>11
      <4> QED BY <4>1, <1>5, <1>11, Zenon
    <3>2. (b + 1) - a >= 1 /\ (b + 1) - a \in Nat
      BY <1>1, <1>11
    <3>3. \A p, q, r \in Nat : p + q <= r /\ q >= 1 => p <= r - 1
      OBVIOUS
    <3> QED BY <3>1, <3>2, <3>3, <1>12
  <2> QED BY <2>3, <2>5, <2>6
\* Words of cmd in t, counted from where the stretch begins.
<1>15. ASSUME NEW i \in a..b, i # a PROVE t[at[a + 1] + (i - a) - 1] = cmd[i]
  <2>1. i \in 1..n
    BY <1>1, <1>2
  <2>2. at[i] = at[a + 1] + (i - a) - 1
    BY <1>10, <1>15
  <2>3. t[at[i]] = cmd[i]
    BY <2>1, <1>4
  <2> QED BY <2>2, <2>3
<1>16. t[x] = cmd[a]
  BY <1>1, <1>4
<1>17. y \in Nat
  BY <1>12, <1>14
<1> HIDE DEF x, y
<1>18. CASE a \notin L
  <2>1. at[a + 1] = x + 1
    BY <1>13, <1>18
  <2>2. y - x = b - a
    BY <2>1, <1>13, <1>11, <1>12 DEF y
  <2>3. ASSUME NEW i \in a..b PROVE t[x + (i - a)] = cmd[i]
    <3>1. CASE i = a
      <4>1. x + (i - a) = x
        BY <3>1, <1>11, <1>12
      <4> QED BY <3>1, <4>1, <1>16
    <3>2. CASE i # a
      <4>1. t[at[a + 1] + (i - a) - 1] = cmd[i]
        BY <3>2, <1>15
      <4>2. (x + 1) + (i - a) - 1 = x + (i - a)
        BY <1>11, <1>12
      <4> QED BY <4>1, <4>2, <2>1
    <3> QED BY <3>1, <3>2
  <2>4. u = s
    BY <1>1, <1>11, <1>12, <1>17, <2>2, <2>3, SameStretch
  <2> QED BY <2>4 DEF x, y
<1>19. CASE a \in L
  <2>1. at[a + 1] = x + 4
    BY <1>13, <1>19
  <2>2. y = x + 3 + (b - a)
    BY <2>1, <1>13, <1>11, <1>12 DEF y
  <2>3. /\ u \in Seq(Words) /\ Len(u) = (y - x) + 1
        /\ \A i \in 1..((y - x) + 1) : u[i] = t[x + i - 1]
    <3>1. x \in 1..Len(t) /\ y \in 1..Len(t) /\ x <= y
      BY <1>4, <1>12, <1>14, <1>17
    <3>2. t \in Seq(Words)
      BY <1>4
    <3>3. \A p, q \in 1..Len(t) : p <= q =>
            /\ SubSeq(t, p, q) \in Seq(Words) /\ Len(SubSeq(t, p, q)) = (q - p) + 1
            /\ \A i \in 1..((q - p) + 1) : SubSeq(t, p, q)[i] = t[p + i - 1]
      BY <3>2, FirstOfStretch, Zenon
    <3> QED BY <3>1, <3>3, Zenon
  <2>4. (y - x) + 1 = ((b - a) + 1) + 3
    BY <2>2, <1>11, <1>12
  <2>5. Len(u) = Len(s) + 3 /\ Len(s) >= 1
    BY <2>3, <2>4, <1>1, <1>6, <1>11
  <2>6. s[1] = cmd[a]
    <3>1. 1 \in 1..((b - a) + 1) /\ a + 1 - 1 = a
      BY <1>1, <1>11
    <3> QED BY <3>1, <1>6
  <2>7. /\ \A k \in {1, 2, 3, 4} : k \in 1..((y - x) + 1)
        /\ x + 1 - 1 = x /\ x + 2 - 1 = x + 1 /\ x + 3 - 1 = x + 2 /\ x + 4 - 1 = x + 3
    BY <2>4, <1>1, <1>11, <1>12
  <2>8. u[1] = t[x] /\ u[2] = t[x + 1] /\ u[3] = t[x + 2] /\ u[4] = t[x + 3]
    BY <2>3, <2>7
  <2>9. ASSUME NEW i \in 2..Len(s) PROVE u[i + 3] = s[i]
    <3> DEFINE j == a + i - 1
    <3>1. i \in 1..((b - a) + 1) /\ i + 3 \in 1..((y - x) + 1) /\ j \in a..b /\ j # a
      BY <1>6, <1>11, <2>4
    <3>2. u[i + 3] = t[x + (i + 3) - 1] /\ s[i] = cmd[j]
      BY <3>1, <1>6, <2>3
    <3>3. x + (i + 3) - 1 = (x + 4) + (j - a) - 1
      BY <1>11, <1>12
    <3>4. t[(x + 4) + (j - a) - 1] = cmd[j]
      BY <3>1, <1>15, <2>1
    <3> QED BY <3>2, <3>3, <3>4
  <2>10. BaseName(s[1]) \in {"sudo", "doas"} /\ s[1] \notin Assignments
    BY <1>7, <1>19, <2>6
  <2>11. u[1] = s[1] /\ u[2] = "-S" /\ u[3] = "-p" /\ u[4] = "''"
    BY <1>7, <1>16, <1>19, <2>6, <2>8 DEF x
  <2> HIDE DEF s, u
  <2>12. Effective(u) = Effective(s)
    BY <1>6, <2>3, <2>5, <2>9, <2>10, <2>11, InsertedSkipped, Zenon
  <2> QED BY <2>12 DEF s, u, x, y
<1> QED BY <1>18, <1>19

LEMMA LaidLen ==
    ASSUME NEW cmd \in Seq(Words), cmd # <<>>, NEW L, NEW t, NEW at,
           Laid(cmd, L, t, at, Len(cmd))
    PROVE  /\ Len(cmd) \in Nat /\ Len(cmd) >= 1
           /\ t \in Seq(Words) /\ Len(t) = at[Len(cmd) + 1] - 1
           /\ Len(t) \in Nat /\ Len(t) >= 1
<1>1. Len(cmd) \in Nat /\ Len(cmd) >= 1
  OBVIOUS
<1>2. t \in Seq(Words) /\ Len(t) = at[Len(cmd) + 1] - 1
  BY DEF Laid
<1>3. Len(t) \in Nat
  BY <1>2
<1>4. at[1] = 1 /\ \A i \in 1..(Len(cmd) + 1) : at[i] \in Nat
  BY DEF Laid
<1>5. 1 \in 1..(Len(cmd) + 1) /\ Len(cmd) + 1 \in 1..(Len(cmd) + 1) /\ 1 <= Len(cmd) + 1
      /\ 1 + ((Len(cmd) + 1) - 1) = Len(cmd) + 1
  BY <1>1
<1>6. at[1] + ((Len(cmd) + 1) - 1) <= at[Len(cmd) + 1]
  BY <1>1, <1>5, LaidForward
<1>7. Len(cmd) + 1 <= at[Len(cmd) + 1] /\ at[Len(cmd) + 1] \in Nat
  <2>1. at[Len(cmd) + 1] \in Nat
    BY <1>4, <1>5, Zenon
  <2>2. 1 + ((Len(cmd) + 1) - 1) <= at[Len(cmd) + 1]
    BY <1>4, <1>6, Zenon
  <2> QED BY <2>1, <2>2, <1>5, Zenon
<1>8. Len(t) >= 1
  <2>1. \A p, q \in Nat : p >= 1 /\ p + 1 <= q => q - 1 >= 1
    OBVIOUS
  <2> QED BY <2>1, <1>1, <1>2, <1>7, Zenon
<1> QED BY <1>1, <1>2, <1>3, <1>8

\* What is sent runs the same programs with the same arguments.
LEMMA ProgramsKept ==
    ASSUME NEW cmd \in Seq(Words), cmd # <<>>, ~AssignsSudo(cmd)
    PROVE  Programs(RewriteSudo(cmd)) = Programs(cmd)
<1> DEFINE t == RewriteSudo(cmd)
           n == Len(cmd)
<1>1. PICK at : Laid(cmd, Rewritten(cmd), t, at, n)
  BY RewriteLaysOut, Zenon
<1> HIDE DEF t
<1>2. n \in Nat /\ t \in Seq(Words) /\ Len(t) = at[n + 1] - 1
  BY <1>1, LaidLen, Zenon
<1>3. Spread(cmd, t, at, n, Separators)
  BY <1>1, LaidSpread, Zenon
<1>4. \A p : p \in Segments(cmd)
        <=> \E a, b : Stretch(cmd, n, Separators, a, b) /\ p = SubSeq(cmd, a, b)
  BY SegmentIs, Zenon
<1>5. \A p : p \in Segments(t)
        <=> \E a, b : Stretch(t, Len(t), Separators, a, b) /\ p = SubSeq(t, a, b)
  BY <1>2, SegmentIs, Zenon
<1>6. ASSUME NEW a, NEW b, Stretch(cmd, n, Separators, a, b)
      PROVE  Effective(SubSeq(t, at[a], at[b + 1] - 1)) = Effective(SubSeq(cmd, a, b))
  BY <1>1, <1>6, SegmentKept
<1> HIDE DEF n
<1>7. ASSUME NEW p \in Segments(cmd) PROVE Effective(p) \in Programs(t)
  <2>1. PICK a, b : Stretch(cmd, n, Separators, a, b) /\ p = SubSeq(cmd, a, b)
    BY <1>4, <1>7, Zenon
  <2>2. a \in 1..n /\ b \in 1..n
    BY <2>1, Zenon DEF Stretch
  <2>3. Stretch(t, Len(t), Separators, at[a], at[b + 1] - 1)
    <3>1. Stretch(t, at[n + 1] - 1, Separators, at[a], at[b + 1] - 1)
      BY <1>2, <1>3, <2>1, <2>2, StretchSpread, Zenon
    <3> QED BY <3>1, <1>2, Zenon
  <2>4. SubSeq(t, at[a], at[b + 1] - 1) \in Segments(t)
    BY <2>3, <1>5, Zenon
  <2>5. Effective(p) = Effective(SubSeq(t, at[a], at[b + 1] - 1))
    BY <2>1, <1>6, Zenon
  <2> QED BY <2>4, <2>5, Zenon DEF Programs
<1>8. ASSUME NEW p \in Segments(t) PROVE Effective(p) \in Programs(cmd)
  <2>1. PICK x, y : Stretch(t, Len(t), Separators, x, y) /\ p = SubSeq(t, x, y)
    BY <1>5, <1>8, Zenon
  <2>2. PICK a, b \in 1..n : /\ Stretch(cmd, n, Separators, a, b)
                             /\ x = at[a] /\ y = at[b + 1] - 1
    <3>1. Stretch(t, at[n + 1] - 1, Separators, x, y)
      BY <2>1, <1>2, Zenon
    <3>2. ComesFrom(cmd, n, at, Separators, x, y)
      BY <3>1, <1>2, <1>3, SpreadStretch
    <3> QED BY <3>2, Zenon DEF ComesFrom
  <2>3. SubSeq(cmd, a, b) \in Segments(cmd)
    BY <2>2, <1>4, Zenon
  <2>4. Effective(p) = Effective(SubSeq(cmd, a, b))
    BY <2>1, <2>2, <1>6, Zenon
  <2> QED BY <2>3, <2>4, Zenon DEF Programs
<1>9. Programs(t) = Programs(cmd)
  <2>1. \A q : q \in Programs(t) => q \in Programs(cmd)
    BY <1>8, Zenon DEF Programs
  <2>2. \A q : q \in Programs(cmd) => q \in Programs(t)
    BY <1>7, Zenon DEF Programs
  <2> QED BY <2>1, <2>2
<1> QED BY <1>9 DEF t

\* ... and has no catastrophic pattern that was not there before.
LEMMA PatternKept ==
    ASSUME NEW cmd \in Seq(Words), cmd # <<>>, CatastrophicPattern(RewriteSudo(cmd))
    PROVE  CatastrophicPattern(cmd)
<1> DEFINE t == RewriteSudo(cmd)
           n == Len(cmd)
           L == Rewritten(cmd)
<1>1. PICK at : Laid(cmd, L, t, at, n)
  BY RewriteLaysOut, Zenon
<1> HIDE DEF t, L
<1>2. n \in Nat /\ t \in Seq(Words) /\ Len(t) = at[n + 1] - 1 /\ Len(t) \in Nat
  BY <1>1, LaidLen, Zenon
<1>3. PICK k \in 1..Len(t) : PatternAt(t, Len(t), k)
  <2>1. CatastrophicPattern(t)
    BY DEF t
  <2> QED BY <2>1, <1>2, PatternIs, Zenon
<1> HIDE DEF n
<1>4. /\ at[1] = 1 /\ (\A i \in 1..(n + 1) : at[i] \in Nat)
      /\ \A i \in 1..n : /\ at[i + 1] = IF i \in L THEN at[i] + 4 ELSE at[i] + 1
                         /\ t[at[i]] = cmd[i]
                         /\ i \in L => t[at[i] + 1] = "-S"
  BY <1>1 DEF Laid
<1>5. PICK i \in 1..n : k = at[i] /\ t[k] = cmd[i]
  <2>1. t[k] \in {":(){", ">", ">>"}
    BY <1>3, Zenon DEF PatternAt
  <2>2. t[k] \notin {"-S", "-p", "''"}
    BY <2>1, InsertedQuiet
  <2> QED BY <1>1, <1>2, <2>2, LaidWord
<1>6. PatternAt(cmd, n, i)
  <2>1. CASE t[k] = ":(){"
    BY <2>1, <1>5, Zenon DEF PatternAt
  <2>2. CASE /\ t[k] \in {">", ">>"} /\ k < Len(t)
             /\ t[k + 1] \in OnDevices \cup {"/proc/sysrq-trigger"}
    <3>1. i \notin L
      <4> SUFFICES ASSUME i \in L PROVE FALSE
        OBVIOUS
      <4>1. t[k + 1] = "-S"
        BY <1>4, <1>5
      <4> QED BY <4>1, <2>2, InsertedQuiet
    <3>2. at[i + 1] = k + 1
      BY <3>1, <1>4, <1>5
    <3>3. i # n
      <4>1. at[n + 1] # k + 1
        BY <2>2, <1>2
      <4> QED BY <4>1, <3>2
    <3>4. i < n /\ i + 1 \in 1..n
      BY <3>3, <1>2
    <3>5. t[k + 1] = cmd[i + 1]
      BY <3>2, <3>4, <1>4
    <3> QED BY <2>2, <3>4, <3>5, <1>5, Zenon DEF PatternAt
  <2> QED BY <2>1, <2>2, <1>3, Zenon DEF PatternAt
<1> QED BY <1>6, PatternIs, Zenon DEF n

\* So the policy would let pass what is sent, too.
LEMMA SentPasses ==
    ASSUME NEW cmd \in Seq(Words), ~AssignsSudo(cmd), ~Denies(cmd)
    PROVE  Programs(RewriteSudo(cmd)) = Programs(cmd) /\ ~Denies(RewriteSudo(cmd))
<1>1. cmd # <<>> /\ ~CatastrophicPattern(cmd)
  BY Zenon DEF Denies
<1>2. Programs(RewriteSudo(cmd)) = Programs(cmd)
  BY <1>1, ProgramsKept, Zenon
<1>3. ~CatastrophicPattern(RewriteSudo(cmd))
  BY <1>1, PatternKept, Zenon
<1>4. RewriteSudo(cmd) # <<>>
  <2>1. PICK at : Laid(cmd, Rewritten(cmd), RewriteSudo(cmd), at, Len(cmd))
    BY <1>1, RewriteLaysOut, Zenon
  <2>2. Len(RewriteSudo(cmd)) >= 1
    BY <1>1, <2>1, LaidLen, Zenon
  <2> QED BY <2>2
<1>5. ASSUME NEW p \in Segments(RewriteSudo(cmd)) PROVE ~DeniedProgram(Effective(p))
  <2>1. Effective(p) \in Programs(cmd)
    <3>1. Effective(p) \in Programs(RewriteSudo(cmd))
      BY Zenon DEF Programs
    <3> QED BY <3>1, <1>2, Zenon
  <2>2. PICK q \in Segments(cmd) : Effective(p) = Effective(q)
    BY <2>1, Zenon DEF Programs
  <2> QED BY <2>2, Zenon DEF Denies
<1> QED BY <1>2, <1>3, <1>4, <1>5, Zenon DEF Denies

\* A word that separates nothing is in a stretch, which ends somewhere.
LEMMA StretchEnds ==
    ASSUME NEW t, NEW n \in Nat, NEW cut, NEW k \in 1..n, t[k] \notin cut,
           k = 1 \/ t[k - 1] \in cut
    PROVE  \E y \in k..n : Stretch(t, n, cut, k, y)
<1> SUFFICES ASSUME \A y \in k..n : ~Stretch(t, n, cut, k, y) PROVE FALSE
  OBVIOUS
<1> DEFINE S == {m \in Nat : \A i \in k..(k + m) : t[i] \notin cut}
<1>1. 0 \in S
  OBVIOUS
<1>2. ASSUME NEW m \in 0..((n - k) - 1), m \in S PROVE m + 1 \in S
  <2>1. k + m \in k..n /\ k + m \in 1..n /\ k <= k + m /\ k + m # n
        /\ (k + m) + 1 = k + (m + 1)
    OBVIOUS
  <2>2. \A i \in k..(k + m) : t[i] \notin cut
    BY <1>2
  <2>3. t[(k + m) + 1] \notin cut
    <3>1. ~Stretch(t, n, cut, k, k + m)
      BY <2>1, Zenon
    <3> QED BY <2>1, <2>2, <3>1, Zenon DEF Stretch
  <2>4. \A i \in k..(k + (m + 1)) : i \in k..(k + m) \/ i = (k + m) + 1
    OBVIOUS
  <2>5. \A i \in k..(k + (m + 1)) : t[i] \notin cut
    BY <2>2, <2>3, <2>4, Zenon
  <2> QED BY <2>5
<1>3. \A m \in 0..(n - k) : m \in S
  <2> HIDE DEF S
  <2>1. n - k \in Nat
    OBVIOUS
  <2> QED BY <2>1, <1>1, <1>2, UpTo
<1>4. n - k \in 0..(n - k) /\ k + (n - k) = n
  OBVIOUS
<1>5. \A i \in k..n : t[i] \notin cut
  <2>1. n - k \in S
    BY <1>3, <1>4, Zenon
  <2>2. \A i \in k..(k + (n - k)) : t[i] \notin cut
    BY <2>1
  <2> QED BY <2>2, <1>4
<1>6. n \in k..n /\ n \in 1..n /\ k <= n
  OBVIOUS
<1>7. ~Stretch(t, n, cut, k, n)
  BY <1>6, Zenon
<1> QED BY <1>5, <1>6, <1>7, Zenon DEF Stretch

\* The word before the first of a segment stays before it.
LEMMA WordBefore ==
    ASSUME NEW cmd \in Seq(Words), NEW t, NEW at,
           Laid(cmd, Rewritten(cmd), t, at, Len(cmd)),
           NEW i \in 1..Len(cmd), i # 1, cmd[i - 1] \in Separators
    PROVE  at[i] \in Nat /\ at[i] > 1 /\ t[at[i] - 1] = cmd[i - 1]
<1> DEFINE n == Len(cmd)
           L == Rewritten(cmd)
<1>1. i - 1 \notin L
  <2> SUFFICES ASSUME i - 1 \in L PROVE FALSE
    OBVIOUS
  <2>1. BaseName(cmd[i - 1]) \in {"sudo", "doas"}
    BY RewrittenIs, Zenon
  <2> QED BY <2>1, SudoSeparatesNot
<1> HIDE DEF L
<1>2. /\ at[1] = 1 /\ (\A j \in 1..(n + 1) : at[j] \in Nat)
      /\ \A j \in 1..n : /\ at[j + 1] = IF j \in L THEN at[j] + 4 ELSE at[j] + 1
                         /\ t[at[j]] = cmd[j]
  BY DEF Laid, L
<1>3. \A j, m \in 1..(n + 1) : j <= m => at[j] + (m - j) <= at[m]
  <2>1. n \in Nat
    OBVIOUS
  <2> QED BY <2>1, LaidForward, Zenon DEF L
<1>4. /\ n \in Nat /\ i - 1 \in 1..n /\ (i - 1) + 1 = i
      /\ i - 1 \in 1..(n + 1) /\ 1 \in 1..(n + 1) /\ 1 <= i - 1
  OBVIOUS
<1> HIDE DEF n
<1>5. at[(i - 1) + 1] = at[i - 1] + 1 /\ t[at[i - 1]] = cmd[i - 1]
  BY <1>1, <1>2, <1>4, Zenon
<1>6. at[i - 1] \in Nat /\ at[1] + ((i - 1) - 1) <= at[i - 1]
  BY <1>2, <1>3, <1>4, Zenon
<1>7. at[i] = at[i - 1] + 1 /\ at[i - 1] >= 1
  BY <1>2, <1>4, <1>5, <1>6
<1>8. at[i] - 1 = at[i - 1]
  BY <1>6, <1>7
<1> QED BY <1>5, <1>6, <1>7, <1>8

\* The words "sudo -S" that are sent, where they come from no mention of a sudo
\* and from nothing that has its input elsewhere: they lead a segment that has
\* the input, as they did in the command.
LEMMA SudoOnInput ==
    ASSUME NEW cmd \in Seq(Words), cmd # <<>>, ~MentionsSudo(cmd), ~InputElsewhere(cmd),
           NEW t, NEW at, Laid(cmd, Rewritten(cmd), t, at, Len(cmd)),
           NEW k \in 1..(Len(t) - 1), t[k] \in EndInSudo, t[k + 1] = "-S"
    PROVE  \E i \in 1..Len(cmd) :
              /\ k = at[i] /\ t[k] = cmd[i]
              /\ BaseName(cmd[i]) = "sudo" /\ cmd[i] \notin Assignments
              /\ i = 1 \/ cmd[i - 1] \in PieceEnds
<1> DEFINE n == Len(cmd)
           L == Rewritten(cmd)
<1>1. n \in Nat /\ t \in Seq(Words) /\ Len(t) = at[n + 1] - 1 /\ Len(t) \in Nat
  BY LaidLen, Zenon
<1>2. k \in Nat /\ k \in 1..Len(t) /\ k < Len(t)
  BY <1>1
<1>3. PICK i \in 1..n : k = at[i] /\ t[k] = cmd[i]
  <2>1. t[k] \notin {"-S", "-p", "''"}
    BY InsertedQuiet
  <2> QED BY <1>1, <1>2, <2>1, LaidWord
<1>4. /\ BaseName(cmd[i]) = "sudo" /\ cmd[i] \notin Assignments
      /\ i > 1 => cmd[i - 1] \in Separators
  BY <1>3, Zenon DEF MentionsSudo
<1>5. i = 1 \/ cmd[i - 1] \in PieceEnds
  <2>1. CASE i \in L
    BY <2>1, RewrittenIs, Zenon
  <2>2. CASE i \notin L /\ i # 1
    <3>1. i > 1 /\ i - 1 \in 1..n
      BY <2>2, <1>1
    <3>2. at[i + 1] = at[i] + 1 /\ i \in Nat
      BY <2>2 DEF Laid
    <3>3. i # n
      BY <3>2, <1>1, <1>2, <1>3
    <3>4. i + 1 \in 1..n /\ i - 1 \in 1..(n - 2) /\ (i - 1) + 1 = i /\ (i - 1) + 2 = i + 1
      BY <3>1, <3>3, <1>1
    <3>5. cmd[i + 1] = "-S"
      <4>1. t[at[i + 1]] = cmd[i + 1]
        BY <3>4 DEF Laid
      <4> QED BY <4>1, <3>2, <1>3
    <3>6. cmd[i - 1] # "|"
      BY <3>4, <3>5, <1>4 DEF InputElsewhere
    <3>7. cmd[i - 1] # "&"
      <4>1. "&" \notin ToSet(cmd)
        BY Zenon DEF InputElsewhere
      <4> QED BY <4>1, <3>1 DEF ToSet
    <3> QED BY <3>1, <3>6, <3>7, <1>4 DEF Separators, PieceEnds
  <2> QED BY <2>1, <2>2
<1> QED BY <1>3, <1>4, <1>5, Zenon

\* A program that reads the input of what is sent does so in the command: the
\* words put behind a sudo make no other.
LEMMA ReadsAlready ==
    ASSUME NEW cmd \in Seq(Words), cmd # <<>>, ~AssignsSudo(cmd),
           NEW t, NEW at, Laid(cmd, Rewritten(cmd), t, at, Len(cmd)),
           NEW q \in OnInput(t), Reads(t, q)
    PROVE  \E a, b \in 1..Len(cmd) :
              /\ q[1] = at[a]
              /\ <<a, b>> \in OnInput(cmd) /\ Reads(cmd, <<a, b>>)
<1> DEFINE n == Len(cmd)
<1>1. n \in Nat /\ t \in Seq(Words) /\ Len(t) = at[n + 1] - 1
  BY LaidLen, Zenon
<1>2. q \in Between(t, Separators) /\ (q[1] = 1 \/ t[q[1] - 1] \in PieceEnds)
  BY Zenon DEF OnInput
<1>3. Stretch(t, at[n + 1] - 1, Separators, q[1], q[2])
  <2>1. q = <<q[1], q[2]>>
    BY <1>2 DEF Between
  <2>2. Stretch(t, Len(t), Separators, q[1], q[2])
    BY <1>1, <1>2, <2>1, BetweenIs, Zenon
  <2> QED BY <1>1, <2>2, Zenon
<1>4. PICK a, b \in 1..n : /\ Stretch(cmd, n, Separators, a, b)
                           /\ q[1] = at[a] /\ q[2] = at[b + 1] - 1
  <2>1. Spread(cmd, t, at, n, Separators)
    BY LaidSpread, Zenon
  <2>2. ComesFrom(cmd, n, at, Separators, q[1], q[2])
    BY <1>1, <1>3, <2>1, SpreadStretch
  <2> QED BY <2>2, Zenon DEF ComesFrom
<1>5. a = 1 \/ cmd[a - 1] \in PieceEnds
  <2>1. CASE a # 1
    <3>1. cmd[a - 1] \in Separators
      BY <1>4, <2>1, Zenon DEF Stretch
    <3>2. at[a] \in Nat /\ at[a] > 1 /\ t[at[a] - 1] = cmd[a - 1]
      BY <2>1, <3>1, WordBefore
    <3> QED BY <3>2, <1>2, <1>4
  <2> QED BY <2>1
<1>6. <<a, b>> \in OnInput(cmd)
  <2>1. <<a, b>> \in Between(cmd, Separators)
    BY <1>4, BetweenIs, Zenon
  <2>2. <<a, b>>[1] = a
    OBVIOUS
  <2> QED BY <1>5, <2>1, <2>2, Zenon DEF OnInput
<1>7. Reads(cmd, <<a, b>>)
  <2>1. Effective(SubSeq(t, q[1], q[2])) = Effective(SubSeq(cmd, a, b))
    <3>1. Effective(SubSeq(t, at[a], at[b + 1] - 1)) = Effective(SubSeq(cmd, a, b))
      BY <1>4, SegmentKept
    <3> QED BY <3>1, <1>4, Zenon
  <2>2. <<a, b>>[1] = a /\ <<a, b>>[2] = b
    OBVIOUS
  <2> QED BY <2>1, <2>2, Zenon DEF Reads
<1> QED BY <1>4, <1>6, <1>7, Zenon

\* The password is read by a sudo, when the words "sudo -S" are sent and none of
\* the exceptions of FedSudoReads holds of the command.
LEMMA SudoReads ==
    ASSUME NEW cmd \in Seq(Words), cmd # <<>>, ~MentionsSudo(cmd), ~AssignsSudo(cmd),
           ~InputElsewhere(cmd), ~ReaderBeforeSudo(cmd),
           NEW t, NEW at, Laid(cmd, Rewritten(cmd), t, at, Len(cmd)), SaysSudoS(t)
    PROVE  \E r \in OnInput(t) :
              /\ Asks(t, r)
              /\ \A q \in OnInput(t) : q[1] < r[1] => ~Reads(t, q)
<1> DEFINE n == Len(cmd)
<1>1. n \in Nat /\ at[1] = 1 /\ \A j \in 1..(n + 1) : at[j] \in Nat
  <2>1. n \in Nat
    OBVIOUS
  <2>2. at \in [1..(n + 1) -> Nat] /\ at[1] = 1
    BY Zenon DEF Laid
  <2> HIDE DEF n
  <2> QED BY <2>1, <2>2
<1>2. PICK k \in 1..(Len(t) - 1) : t[k] \in EndInSudo /\ t[k + 1] = "-S"
  BY Zenon DEF SaysSudoS
<1>3. t \in Seq(Words) /\ Len(t) \in Nat
  BY LaidLen, Zenon
<1>4. k \in Nat /\ k \in 1..Len(t) /\ k + 1 \in 1..Len(t)
  BY <1>3
<1>5. PICK i \in 1..n : /\ k = at[i] /\ t[k] = cmd[i]
                        /\ BaseName(cmd[i]) = "sudo" /\ cmd[i] \notin Assignments
                        /\ i = 1 \/ cmd[i - 1] \in PieceEnds
  BY <1>2, SudoOnInput
<1>6. cmd[i] \notin Separators
  <2>1. BaseName(cmd[i]) \in {"sudo", "doas"}
    BY <1>5
  <2> QED BY <2>1, SudoSeparatesNot
<1>7. PieceEnds \subseteq Separators
  BY DEF PieceEnds, Separators
<1>8. k = 1 \/ t[k - 1] \in PieceEnds
  <2>1. CASE i = 1
    BY <2>1, <1>1, <1>5
  <2>2. CASE i # 1
    <3>1. cmd[i - 1] \in Separators
      BY <2>2, <1>5, <1>7
    <3>2. t[at[i] - 1] = cmd[i - 1]
      BY <2>2, <3>1, WordBefore
    <3> QED BY <2>2, <3>2, <1>5
  <2> QED BY <2>1, <2>2
<1>9. PICK y \in k..Len(t) : Stretch(t, Len(t), Separators, k, y)
  BY <1>3, <1>4, <1>5, <1>6, <1>7, <1>8, StretchEnds
<1> DEFINE r == <<k, y>>
<1>10. r[1] = k /\ r[2] = y
  OBVIOUS
<1>11. r \in OnInput(t)
  <2>1. r \in Between(t, Separators)
    BY <1>3, <1>9, BetweenIs, Zenon
  <2> QED BY <1>8, <1>10, <2>1, Zenon DEF OnInput
<1>12. Asks(t, r)
  <2>1. y # k
    <3>1. y = Len(t) \/ t[y + 1] \in Separators
      BY <1>9, Zenon DEF Stretch
    <3>2. "-S" \notin Separators
      BY InsertedQuiet
    <3> QED BY <1>2, <1>3, <1>4, <3>1, <3>2
  <2>2. /\ y \in 1..Len(t) /\ k <= y /\ y \in Nat
        /\ 2 \in 1..((y - k) + 1) /\ k + 2 - 1 = k + 1 /\ 2 \in 2..((y - k) + 1)
    BY <1>3, <1>4, <2>1
  <2> DEFINE segment == SubSeq(t, k, y)
  <2>3. /\ Len(segment) = (y - k) + 1
        /\ \A j \in 1..((y - k) + 1) : segment[j] = t[k + j - 1]
    BY <1>3, <1>4, <2>2, FirstOfStretch, Zenon
  <2> HIDE DEF segment
  <2>4. segment[2] = "-S" /\ 2 \in 2..Len(segment)
    BY <1>2, <2>2, <2>3
  <2>5. \A m \in 2..2 : segment[m] \in Options
    <3>1. \A m \in 2..2 : m = 2
      OBVIOUS
    <3>2. "-S" \in Options
      BY PolicyAssumption
    <3> QED BY <2>4, <3>1, <3>2, Zenon
  <2>6. 2 \in {j \in 2..Len(segment) : \A m \in 2..j : segment[m] \in Options}
    BY <2>4, <2>5, Zenon
  <2>7. "-S" \in LeadingOptions(segment)
    BY <2>4, <2>6, Zenon DEF LeadingOptions
  <2>8. "-S" \in LeadingOptions(SubSeq(t, r[1], r[2]))
    BY <2>7, <1>10, Zenon DEF segment
  <2>9. BaseName(t[r[1]]) = "sudo" /\ t[r[1]] \notin Assignments
    BY <1>5, <1>10, Zenon
  <2> QED BY <2>8, <2>9, Zenon DEF Asks
<1>13. ASSUME NEW q \in OnInput(t), q[1] < k PROVE ~Reads(t, q)
  <2> SUFFICES ASSUME Reads(t, q) PROVE FALSE
    OBVIOUS
  <2>1. PICK a, b \in 1..n : /\ q[1] = at[a]
                             /\ <<a, b>> \in OnInput(cmd) /\ Reads(cmd, <<a, b>>)
    BY ReadsAlready
  <2>2. a < i
    <3>1. \A j, m \in 1..(n + 1) : j <= m => at[j] + (m - j) <= at[m]
      BY <1>1, LaidForward, Zenon
    <3>2. at[i] \in Nat /\ at[a] \in Nat /\ (i <= a => at[i] + (a - i) <= at[a])
      <4>1. i \in 1..(n + 1) /\ a \in 1..(n + 1)
        BY <1>1
      <4> QED BY <4>1, <3>1, <1>1, Zenon
    <3> QED BY <3>2, <1>1, <1>5, <1>13, <2>1
  <2>3. PICK z \in i..n : Stretch(cmd, n, Separators, i, z)
    <3>1. i = 1 \/ cmd[i - 1] \in Separators
      BY <1>5, <1>7
    <3> QED BY <3>1, <1>1, <1>6, StretchEnds
  <2>4. <<i, z>> \in OnInput(cmd)
    <3>1. <<i, z>> \in Between(cmd, Separators)
      BY <2>3, BetweenIs, Zenon
    <3>2. <<i, z>>[1] = i
      OBVIOUS
    <3> QED BY <3>1, <3>2, <1>5, Zenon DEF OnInput
  <2>5. <<a, b>>[1] < <<i, z>>[1] /\ BaseName(cmd[<<i, z>>[1]]) = "sudo"
    BY <2>2, <1>5
  <2> QED BY <2>1, <2>4, <2>5, Zenon DEF ReaderBeforeSudo
<1> QED
  <2> HIDE DEF r
  <2> QED BY <1>10, <1>11, <1>12, <1>13, Zenon

------------------------------------------------------------------------------
(* The gate *)

\* A step of the gate is one of the limiter, or none.
LEMMA GateIsLimiter == GateSpec => Spec
<1>1. GateInit => Init
  BY DEF GateInit
<1>2. [GateNext]_gateVars => [Next]_vars
  <2>1. ASSUME NEW cmd \in Commands, ExecLimited(cmd) PROVE Next
    BY <2>1 DEF ExecLimited, Next
  <2>2. ASSUME NEW cmd \in Commands, ExecDenied(cmd) PROVE Next
    BY <2>2 DEF ExecDenied, Check, Next
  <2>3. ASSUME NEW cmd \in Commands, NEW has_password \in BOOLEAN,
               ExecRuns(cmd, has_password)
        PROVE  Next
    BY <2>3 DEF ExecRuns, Check, Next
  <2>4. ExecReturns => UNCHANGED vars
    BY DEF ExecReturns
  <2>5. Elsewhere => Next
    BY DEF Elsewhere
  <2>6. UNCHANGED gateVars => UNCHANGED vars
    BY DEF gateVars
  <2> QED BY <2>1, <2>2, <2>3, <2>4, <2>5, <2>6 DEF GateNext
<1> QED BY <1>1, <1>2, PTL DEF GateSpec, Spec

\* A burst of exec calls, beside all other tools, is bounded as ratelimit.rs
\* says: a command that the policy denies counts like one that runs.
THEOREM GateBurstBounded == GateSpec => []BurstBounded
BY GateIsLimiter, BurstBoundKept, PTL

\* Behind the gate, too, the limiter refuses nobody too early or too late.
THEOREM GateKeepsLimit == GateSpec => LimitSpec
BY GateIsLimiter, ImplementsLimit, PTL

\* What the last exec was given, what it was told and what was sent.
GateInv ==
    \/ last = Nothing
    \/ \E cmd \in Commands : last = Answered(cmd, "ratelimit")
    \/ \E cmd \in Commands : Denies(cmd) /\ last = Answered(cmd, "denied")
    \/ \E cmd \in Commands, has_password \in BOOLEAN :
          /\ ~Denies(cmd)
          /\ last = [cmd |-> cmd, answer |-> "ran",
                     sent |-> FinalCommand(cmd, has_password),
                     fed |-> FeedsPassword(cmd, has_password)]

LEMMA GateInvKept == GateSpec => []GateInv
<1>1. GateInit => GateInv
  BY Zenon DEF GateInit, GateInv
<1>2. GateInv /\ [GateNext]_gateVars => GateInv'
  <2> SUFFICES ASSUME GateInv, [GateNext]_gateVars PROVE GateInv'
    OBVIOUS
  <2>1. ASSUME NEW cmd \in Commands, ExecLimited(cmd) PROVE GateInv'
    BY <2>1, Zenon DEF ExecLimited, GateInv
  <2>2. ASSUME NEW cmd \in Commands, ExecDenied(cmd) PROVE GateInv'
    BY <2>2, Zenon DEF ExecDenied, GateInv
  <2>3. ASSUME NEW cmd \in Commands, NEW has_password \in BOOLEAN,
               ExecRuns(cmd, has_password)
        PROVE  GateInv'
    BY <2>3, Zenon DEF ExecRuns, GateInv
  <2>4. CASE ExecReturns
    BY <2>4, Zenon DEF ExecReturns, GateInv, Nothing
  <2>5. CASE Elsewhere
    <3>1. last' = last
      BY <2>5 DEF Elsewhere
    <3> QED BY <3>1, Zenon DEF GateInv, Nothing, Answered
  <2>6. CASE UNCHANGED gateVars
    <3>1. last' = last
      BY <2>6 DEF gateVars
    <3> QED BY <3>1, Zenon DEF GateInv, Nothing, Answered
  <2> QED BY <2>1, <2>2, <2>3, <2>4, <2>5, <2>6, Zenon DEF GateNext
<1> QED BY <1>1, <1>2, PTL DEF GateSpec

\* Whatever commands and wrapper forms there are, a wrapper hides no program
\* from the policy, and adds none.
THEOREM GateWrapperBlind == GateSpec => []WrapperBlind
<1>1. GateInv => WrapperBlind
  <2> SUFFICES ASSUME GateInv, NEW form \in WrapperForms,
                      last.answer \in {"ran", "denied"}, last.cmd # <<>>,
                      ~OptionFirst(last.cmd)
               PROVE  Denies(form \o last.cmd) <=> last.answer = "denied"
    BY Zenon DEF WrapperBlind
  <2>1. form \in Seq(Words) /\ IsWrapperForm(form)
    BY GateAssumption, Zenon
  <2>2. last.cmd \in Commands /\ (Denies(last.cmd) <=> last.answer = "denied")
    <3>1. last # Nothing /\ \A cmd : last # Answered(cmd, "ratelimit")
      <4>1. Nothing.answer = "none" /\ \A cmd : Answered(cmd, "ratelimit").answer = "ratelimit"
        BY DEF Nothing, Answered
      <4>2. last.answer # "none" /\ last.answer # "ratelimit"
        OBVIOUS
      <4> QED BY <4>1, <4>2
    <3>2. CASE \E cmd \in Commands : Denies(cmd) /\ last = Answered(cmd, "denied")
      <4>1. PICK cmd \in Commands : Denies(cmd) /\ last = Answered(cmd, "denied")
        BY <3>2
      <4>2. last.cmd = cmd /\ last.answer = "denied"
        BY <4>1 DEF Answered, Nothing
      <4> QED BY <4>1, <4>2
    <3>3. CASE \E cmd \in Commands, has_password \in BOOLEAN :
                  /\ ~Denies(cmd)
                  /\ last = [cmd |-> cmd, answer |-> "ran",
                             sent |-> FinalCommand(cmd, has_password),
                             fed |-> FeedsPassword(cmd, has_password)]
      <4>1. PICK cmd \in Commands, has_password \in BOOLEAN :
                  /\ ~Denies(cmd)
                  /\ last = [cmd |-> cmd, answer |-> "ran",
                             sent |-> FinalCommand(cmd, has_password),
                             fed |-> FeedsPassword(cmd, has_password)]
        BY <3>3, Zenon
      <4>2. last.cmd = cmd /\ last.answer = "ran"
        BY <4>1
      <4> QED BY <4>1, <4>2
    <3> QED BY <3>1, <3>2, <3>3, Zenon DEF GateInv
  <2>3. last.cmd \in Seq(Words)
    BY <2>2, GateAssumption
  <2> QED BY <2>1, <2>2, <2>3, FormUnseen, Zenon
<1> QED BY <1>1, GateInvKept, PTL

\* What ran was in the commands, and was let pass.
LEMMA RanIs ==
    ASSUME GateInv, last.answer = "ran" \/ last.fed
    PROVE  \E cmd \in Commands, has_password \in BOOLEAN :
              /\ ~Denies(cmd)
              /\ last.cmd = cmd
              /\ last.sent = FinalCommand(cmd, has_password)
              /\ last.fed = FeedsPassword(cmd, has_password)
<1>1. /\ Nothing.answer = "none" /\ Nothing.fed = FALSE
      /\ \A cmd, answer : Answered(cmd, answer).answer = answer
                          /\ Answered(cmd, answer).fed = FALSE
  BY DEF Nothing, Answered
<1>2. last # Nothing
  BY <1>1
<1>3. \A cmd : last # Answered(cmd, "ratelimit") /\ last # Answered(cmd, "denied")
  BY <1>1
<1>4. PICK cmd \in Commands, has_password \in BOOLEAN :
         /\ ~Denies(cmd)
         /\ last = [cmd |-> cmd, answer |-> "ran",
                    sent |-> FinalCommand(cmd, has_password),
                    fed |-> FeedsPassword(cmd, has_password)]
  BY <1>2, <1>3, Zenon DEF GateInv
<1>5. /\ last.cmd = cmd
      /\ last.sent = FinalCommand(cmd, has_password)
      /\ last.fed = FeedsPassword(cmd, has_password)
  BY <1>4
<1> QED BY <1>4, <1>5, Zenon

\* Whatever commands there are, what is sent runs what the policy judged.
THEOREM GateSentAsJudged == GateSpec => []SentAsJudged
<1>1. GateInv => SentAsJudged
  <2> SUFFICES ASSUME GateInv, last.answer = "ran", ~AssignsSudo(last.cmd)
               PROVE  Programs(last.sent) = Programs(last.cmd) /\ ~Denies(last.sent)
    BY Zenon DEF SentAsJudged
  <2>1. PICK cmd \in Commands, has_password \in BOOLEAN :
           ~Denies(cmd) /\ last.cmd = cmd /\ last.sent = FinalCommand(cmd, has_password)
    BY RanIs, Zenon
  <2>2. cmd \in Seq(Words)
    BY GateAssumption
  <2>3. CASE last.sent = cmd
    BY <2>1, <2>3, Zenon
  <2>4. CASE last.sent = RewriteSudo(cmd)
    BY <2>1, <2>2, <2>4, SentPasses, Zenon
  <2> QED BY <2>1, <2>3, <2>4, Zenon DEF FinalCommand
<1> QED BY <1>1, GateInvKept, PTL

\* Whatever commands there are, and whatever programs read their input: where
\* the password is fed, the first that reads it is a sudo with -S, but for a
\* command that only mentions or assigns a sudo, one whose sudo has its input
\* elsewhere, and one in which a program that reads stands before a sudo.
THEOREM GateFedSudoReads == GateSpec => []FedSudoReads
<1>1. GateInv => FedSudoReads
  <2> SUFFICES ASSUME GateInv, last.fed,
                      ~MentionsSudo(last.cmd), ~AssignsSudo(last.cmd),
                      ~InputElsewhere(last.cmd), ~ReaderBeforeSudo(last.cmd)
               PROVE  \E r \in OnInput(last.sent) :
                         /\ Asks(last.sent, r)
                         /\ \A q \in OnInput(last.sent) :
                               q[1] < r[1] => ~Reads(last.sent, q)
    BY Zenon DEF FedSudoReads
  <2>1. PICK cmd \in Commands, has_password \in BOOLEAN :
           /\ ~Denies(cmd) /\ last.cmd = cmd /\ last.sent = FinalCommand(cmd, has_password)
           /\ last.fed = FeedsPassword(cmd, has_password)
    BY RanIs, Zenon
  <2>2. cmd \in Seq(Words)
    BY GateAssumption
  <2>3. has_password /\ CommandUsesSudo(cmd) /\ SaysSudoS(RewriteSudo(cmd))
    BY <2>1, Zenon DEF FeedsPassword
  <2>4. last.sent = RewriteSudo(cmd)
    BY <2>1, <2>3, Zenon DEF FinalCommand
  <2>5. cmd # <<>>
    BY <2>1, Zenon DEF Denies
  <2>6. PICK at : Laid(cmd, Rewritten(cmd), RewriteSudo(cmd), at, Len(cmd))
    BY <2>2, <2>5, RewriteLaysOut, Zenon
  <2> QED BY <2>1, <2>2, <2>3, <2>4, <2>5, <2>6, SudoReads, Zenon
<1> QED BY <1>1, GateInvKept, PTL
==============================================================================
