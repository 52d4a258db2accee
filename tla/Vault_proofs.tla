---------------------------- MODULE Vault_proofs ----------------------------
(***************************************************************************)
(* TLAPS proofs about the two ends of the vault's pipe.  Of VaultDaemon:   *)
(* types, the circuit breaker, the alignment of requests with answers on a *)
(* daemon that was never kept after a failed retry, and that one child at  *)
(* most is in use and is discarded only for a failure.  Of RoyalDocument:  *)
(* types and what an answer without the stale mark may be relied on for.   *)
(***************************************************************************)
EXTENDS VaultDaemon, RoyalDocument, FiniteSetTheorems, TLAPS

\* TypeOK, with what every step relies on: the program point belongs to a
\* holder, a spawn follows a grant of the breaker and finds the cell empty, and
\* a child that was sent a kill is neither in the cell nor in use.
Typed ==
    /\ TypeOK
    /\ queue = <<>> => step = "enter"
    /\ step = "spawn" => spawnedAt # <<>> /\ Len(spawnedAt) \notin running
    /\ step \in {"spawn", "ready"} => cell = 0
    /\ cell \notin abandoned
    /\ handle \notin abandoned

\* The requests and answers are the only data the child handles.
LEMMA SettleTyped ==
    ASSUME Typed, NEW reply \in Answers, queue # <<>>, outbox # <<>>,
           Settle(reply), UNCHANGED <<now, calls, want>>
    PROVE  Typed'
<1>1. Head(queue) \in Callers /\ Tail(queue) \in Seq(Callers)
  BY DEF Typed, TypeOK
<1>2. Tail(outbox) \in Seq(Answers)
  BY DEF Typed, TypeOK
<1>3. result' \in [Callers -> Results]
  BY <1>1 DEF Settle, Return, Returned, Results, Answers, Typed, TypeOK
<1> QED
  BY <1>1, <1>2, <1>3
  DEF Settle, Return, Typed, TypeOK, Daemons, children, breaker

\* A return with an error keeps the caller's variables typed.
LEMMA ReturnErrorTyped ==
    ASSUME TypeOK, NEW b \in BOOLEAN, queue # <<>>,
           Return("error", want[Head(queue)], b)
    PROVE  /\ queue' \in Seq(Callers)
           /\ result' \in [Callers -> Results]
           /\ step' = "enter"
           /\ attempt' = 1
<1>1. Head(queue) \in Callers /\ Tail(queue) \in Seq(Callers)
  BY DEF TypeOK
<1>2. want[Head(queue)] \in Requests
  BY <1>1 DEF TypeOK
<1> QED
  BY <1>1, <1>2 DEF Return, Returned, Results, TypeOK

\* Discarding the daemon and asking the breaker for another one.
LEMMA ReplaceTyped ==
    ASSUME Typed, NEW try \in {1, 2}, queue # <<>>,
           Discard, EnsureRespawnBudget(try), UNCHANGED <<now, calls, want>>
    PROVE  Typed'
<1>1. Recent \subseteq respawns
  BY DEF Recent
<1>2. CASE RespawnAllowed
  <2>1. /\ respawns' = Recent \cup {Len(spawnedAt) + 1}
        /\ spawnedAt' = Append(spawnedAt, now)
        /\ step' = "spawn"
        /\ attempt' = try
        /\ UNCHANGED <<queue, result>>
    BY <1>2 DEF EnsureRespawnBudget
  <2>2. spawnedAt' \in Seq(Nat) /\ Len(spawnedAt') = Len(spawnedAt) + 1
    BY <2>1 DEF Typed, TypeOK
  <2>3. respawns' \subseteq Daemons'
    <3>1. Daemons \subseteq Daemons' /\ Len(spawnedAt) + 1 \in Daemons'
      BY <2>2 DEF Daemons, Typed, TypeOK
    <3> QED
      BY <1>1, <2>1, <3>1 DEF Typed, TypeOK
  <2>4. /\ running' \subseteq Daemons' /\ abandoned' \subseteq running'
        /\ Len(spawnedAt') \notin running'
    BY <2>2 DEF Discard, Daemons, Typed, TypeOK
  <2>5. inbox' \in Seq(Requests) /\ outbox' \in Seq(Answers)
    BY DEF Discard
  <2>6. spawnedAt' # <<>>
    BY <2>2 DEF Typed, TypeOK
  <2>7. queue' # <<>>
    BY <2>1
  <2>8. cell' \in Daemons' \cup {0} /\ handle' \in Daemons' \cup {0}
    BY DEF Discard
  <2>9. TypeOK'
    BY <2>1, <2>2, <2>3, <2>4, <2>5, <2>8 DEF Discard, Typed, TypeOK
  <2>10. cell' = 0 /\ handle' = 0 /\ 0 \notin abandoned'
    BY DEF Discard, Typed, TypeOK, Daemons
  <2> QED
    BY <2>1, <2>4, <2>6, <2>7, <2>9, <2>10 DEF Typed
<1>3. CASE ~RespawnAllowed
  <2>1. /\ respawns' = Recent
        /\ spawnedAt' = spawnedAt
        /\ Return("error", want[Head(queue)], FALSE)
    BY <1>3 DEF EnsureRespawnBudget
  <2>2. /\ queue' \in Seq(Callers)
        /\ result' \in [Callers -> Results]
        /\ step' = "enter"
        /\ attempt' = 1
    BY <2>1, ReturnErrorTyped DEF Typed
  <2>3. /\ respawns' \subseteq Daemons' /\ running' \subseteq Daemons'
        /\ abandoned' \subseteq running'
    BY <1>1, <2>1 DEF Discard, Daemons, Typed, TypeOK
  <2>4. inbox' \in Seq(Requests) /\ outbox' \in Seq(Answers)
    BY DEF Discard
  <2>5. cell' \in Daemons' \cup {0} /\ handle' \in Daemons' \cup {0}
    BY DEF Discard
  <2>6. TypeOK'
    BY <2>1, <2>2, <2>3, <2>4, <2>5 DEF Discard, Typed, TypeOK
  <2>7. cell' = 0 /\ handle' = 0 /\ 0 \notin abandoned'
    BY DEF Discard, Typed, TypeOK, Daemons
  <2> QED
    BY <2>2, <2>6, <2>7 DEF Typed
<1> QED
  BY <1>2, <1>3

\* Either outcome of a failed exchange.
LEMMA FailureTyped ==
    ASSUME Typed, queue # <<>>, Failure, UNCHANGED <<now, calls, want>>
    PROVE  Typed'
<1>1. CASE attempt = 1
  BY <1>1, ReplaceTyped DEF Failure
<1>2. CASE attempt = 2
  <2>1. /\ cell' = handle
        /\ kept' = TRUE
        /\ Return("error", want[Head(queue)], FALSE)
        /\ UNCHANGED <<handle, children, pipes, breaker>>
    <3>1. attempt # 1
      BY <1>2
    <3> QED
      BY <3>1, Zenon DEF Failure, children, pipes, breaker
  <2>2. /\ queue' \in Seq(Callers)
        /\ result' \in [Callers -> Results]
        /\ step' = "enter"
        /\ attempt' = 1
    BY <2>1, ReturnErrorTyped DEF Typed
  <2> QED
    BY <2>1, <2>2 DEF Typed, TypeOK, Daemons, children, pipes, breaker
<1> QED
  BY <1>1, <1>2 DEF Typed, TypeOK

LEMMA InitTyped == Init => Typed
<1> SUFFICES ASSUME Init PROVE Typed
  OBVIOUS
<1>1. want \in [Callers -> Requests] /\ result \in [Callers -> Results]
  BY DEF Init, Requests, Results, Returned
<1>2. /\ queue \in Seq(Callers) /\ spawnedAt \in Seq(Nat)
      /\ inbox \in Seq(Requests) /\ outbox \in Seq(Answers)
  BY DEF Init
<1>3. /\ respawns \subseteq Daemons /\ running \subseteq Daemons
      /\ abandoned \subseteq running
  BY DEF Init
<1>4. now \in Nat /\ calls \in Nat
  BY DEF Init
<1> QED
  BY <1>1, <1>2, <1>3, <1>4 DEF Init, Typed, TypeOK

LEMMA NextTyped == Typed /\ [Next]_vars => Typed'
<1> SUFFICES ASSUME Typed, [Next]_vars PROVE Typed'
  OBVIOUS
<1> USE DEF Typed, TypeOK, Daemons, Holds, children
<1>1. ASSUME NEW c \in Callers, NEW r \in Requests, Call(c, r) PROVE Typed'
  <2>1. queue' \in Seq(Callers) /\ queue' # <<>>
    BY <1>1 DEF Call
  <2>2. result' \in [Callers -> Results]
    BY <1>1 DEF Call, Returned, Results
  <2>3. want' \in [Callers -> Requests]
    BY <1>1 DEF Call
  <2>4. calls' \in Nat
    BY <1>1 DEF Call
  <2> QED
    BY <1>1, <2>1, <2>2, <2>3, <2>4 DEF Call, pipes, breaker
<1>2. CASE EnterAlive
  BY <1>2 DEF EnterAlive, pipes, breaker
<1>3. CASE EnterDead
  BY <1>3, ReplaceTyped DEF EnterDead
<1>4. CASE StartChild
  <2>1. Len(spawnedAt) \in Daemons
    BY <1>4 DEF StartChild
  <2> QED
    BY <1>4, <2>1 DEF StartChild, pipes, breaker
<1>5. CASE StartChildFails
  <2>1. /\ queue' \in Seq(Callers)
        /\ result' \in [Callers -> Results]
        /\ step' = "enter"
        /\ attempt' = 1
    BY <1>5, ReturnErrorTyped DEF StartChildFails
  <2> QED
    BY <1>5, <2>1 DEF StartChildFails, pipes, breaker
<1>17. CASE ChildReady
  BY <1>17 DEF ChildReady, pipes, breaker
<1>18. CASE ReadyFails
  <2>1. /\ queue' \in Seq(Callers)
        /\ result' \in [Callers -> Results]
        /\ step' = "enter"
        /\ attempt' = 1
    BY <1>18, ReturnErrorTyped DEF ReadyFails
  <2>2. cell' = 0 /\ handle' = 0 /\ 0 \notin abandoned'
    BY <1>18 DEF ReadyFails
  <2> QED
    BY <1>18, <2>1, <2>2 DEF ReadyFails, breaker
<1>19. ASSUME NEW d \in Daemons, Reap(d) PROVE Typed'
  BY <1>19 DEF Reap, caller, pipes, breaker
<1>6. CASE Send
  <2>1. Head(queue) \in Callers
    BY <1>6 DEF Send
  <2> QED
    BY <1>6, <2>1 DEF Send, breaker
<1>7. CASE SendFails
  BY <1>7, FailureTyped DEF SendFails
<1>8. CASE Receive
  <2>1. Head(outbox) \in Answers
    BY <1>8 DEF Receive
  <2> QED
    BY <1>8, <2>1, SettleTyped DEF Receive
<1>9. CASE ReceiveNoise
  <2>1. CASE attempt = 1
    BY <1>9, <2>1, FailureTyped DEF ReceiveNoise
  <2>2. CASE attempt = 2
    <3>1. /\ queue # <<>>
          /\ noise' = FALSE
          /\ cell' = handle
          /\ kept' = TRUE
          /\ Return("error", want[Head(queue)], FALSE)
          /\ UNCHANGED <<now, calls, want, handle, running, abandoned, inbox,
                         outbox, respawns, spawnedAt>>
      <4>1. attempt # 1
        BY <2>2
      <4> QED
        BY <1>9, <4>1, Zenon DEF ReceiveNoise, breaker, children
    <3>2. /\ queue' \in Seq(Callers)
          /\ result' \in [Callers -> Results]
          /\ step' = "enter"
          /\ attempt' = 1
      BY <3>1, ReturnErrorTyped
    <3> QED
      BY <3>1, <3>2
  <2> QED
    BY <2>1, <2>2
<1>10. CASE ReceiveEof
  BY <1>10, FailureTyped DEF ReceiveEof
<1>11. CASE RequestTimeout
  BY <1>11, FailureTyped DEF RequestTimeout
<1>12. ASSUME NEW kind \in {"ok", "error"}, Serve(kind) PROVE Typed'
  <2>1. [kind |-> kind, of |-> Head(inbox)] \in Answers
    BY <1>12 DEF Serve, Answers
  <2>2. outbox' \in Seq(Answers) /\ inbox' \in Seq(Requests)
    BY <1>12, <2>1 DEF Serve
  <2> QED
    BY <1>12, <2>2 DEF Serve, caller, breaker
<1>13. CASE MakeNoise
  BY <1>13 DEF MakeNoise, caller, breaker
<1>14. CASE Die
  BY <1>14 DEF Die, caller, breaker
<1>15. CASE Tick
  BY <1>15 DEF Tick, caller, pipes, breaker
<1>16. CASE UNCHANGED vars
  BY <1>16 DEF vars, caller, pipes, breaker
<1> QED
  BY <1>1, <1>2, <1>3, <1>4, <1>5, <1>6, <1>7, <1>8, <1>9, <1>10, <1>11,
     <1>12, <1>13, <1>14, <1>15, <1>16, <1>17, <1>18, <1>19
  DEF Next, Server, Environment

\* Every variable keeps its type, for any number of callers, hosts and calls.
THEOREM TypeCorrect == Spec => []TypeOK
<1>1. Spec => []Typed
  BY InitTyped, NextTyped, PTL DEF Spec
<1> QED
  BY <1>1, PTL DEF Typed

------------------------------------------------------------------------------
(* The circuit breaker *)

\* The retained instants are the young ones: what retain dropped has aged.
\* Together with the order of the instants this bounds the spawns per window.
BudgetInv ==
    /\ \A i, j \in Daemons : i <= j => spawnedAt[i] <= spawnedAt[j]
    /\ \A i \in Daemons : spawnedAt[i] <= now
    /\ \A i \in Daemons \ respawns : now - spawnedAt[i] >= Window
    /\ SpawnBudget

\* An interval of daemons that are all recent exhausts the breaker.
LEMMA RecentInterval ==
    ASSUME TypeOK, NEW i \in Daemons, i..Len(spawnedAt) \subseteq Recent,
           RespawnAllowed
    PROVE  Len(spawnedAt) - i + 1 < MaxRespawns
<1> DEFINE n == Len(spawnedAt)
<1>1. n \in Nat
  BY DEF TypeOK
<1>2. IsFiniteSet(1..n)
  BY <1>1, FS_Interval
<1>3. IsFiniteSet(Recent)
  BY <1>2, FS_Subset DEF Recent, Daemons, TypeOK
<1>4. Cardinality(i..n) = n - i + 1
  BY <1>1, FS_Interval DEF Daemons
<1>5. Cardinality(i..n) <= Cardinality(Recent)
  BY <1>3, FS_Subset
<1>6. Cardinality(Recent) \in Nat
  BY <1>3, FS_CardinalityType
<1>7. Cardinality(i..n) \in Nat
  BY <1>3, FS_Subset, FS_CardinalityType
<1> HIDE DEF n
<1> QED
  BY <1>1, <1>4, <1>5, <1>6, <1>7, RespawnAssumption DEF RespawnAllowed, n, Daemons

\* A grant keeps the budget: were the new spawn within a window of the one
\* MaxRespawns before it, all those in between would still be recent.
LEMMA GrantKeepsBudget ==
    ASSUME TypeOK, BudgetInv, RespawnAllowed, now' = now,
           respawns' = Recent \cup {Len(spawnedAt) + 1},
           spawnedAt' = Append(spawnedAt, now)
    PROVE  BudgetInv'
<1> DEFINE n == Len(spawnedAt)
<1>1. /\ n \in Nat
      /\ Len(spawnedAt') = n + 1
      /\ spawnedAt'[n + 1] = now
      /\ \A i \in 1..n : spawnedAt'[i] = spawnedAt[i]
      /\ Daemons' = 1..(n + 1)
  BY DEF TypeOK, Daemons
<1>2. now \in Nat /\ \A i \in 1..n : spawnedAt[i] \in Nat
  BY DEF TypeOK
<1>3. \A i, j \in Daemons' : i <= j => spawnedAt'[i] <= spawnedAt'[j]
  BY <1>1, <1>2 DEF BudgetInv, Daemons
<1>4. \A i \in Daemons' : spawnedAt'[i] <= now'
  BY <1>1, <1>2 DEF BudgetInv, Daemons
<1>5. \A i \in Daemons' \ respawns' : now' - spawnedAt'[i] >= Window
  BY <1>1, <1>2, RespawnAssumption DEF BudgetInv, Daemons, Recent, TypeOK
<1>6. SpawnBudget'
  <2> SUFFICES ASSUME NEW i \in 1..(n + 1), i + MaxRespawns <= n + 1
               PROVE  spawnedAt'[i + MaxRespawns] - spawnedAt'[i] >= Window
    BY <1>1 DEF SpawnBudget
  <2>1. CASE i + MaxRespawns <= n
    BY <1>1, <2>1, RespawnAssumption DEF BudgetInv, SpawnBudget
  <2>2. CASE i + MaxRespawns = n + 1
    <3>1. i \in 1..n
      BY <1>1, <2>2, RespawnAssumption
    <3>2. SUFFICES ASSUME now - spawnedAt[i] < Window PROVE FALSE
      BY <1>1, <1>2, <2>2, <3>1, RespawnAssumption
    <3>3. ASSUME NEW j \in i..n PROVE j \in Recent
      <4>1. j \in 1..n /\ spawnedAt[i] <= spawnedAt[j]
        BY <1>1, <3>1 DEF BudgetInv, Daemons
      <4>2. now - spawnedAt[j] < Window
        BY <1>2, <3>1, <3>2, <4>1, RespawnAssumption
      <4>3. j \in respawns
        BY <1>2, <4>1, <4>2, RespawnAssumption DEF BudgetInv, Daemons
      <4> QED
        BY <4>2, <4>3 DEF Recent
    <3>4. n - i + 1 < MaxRespawns
      BY <3>1, <3>3, RecentInterval DEF Daemons
    <3> QED
      BY <1>1, <2>2, <3>1, <3>4, RespawnAssumption
  <2> QED
    BY <1>1, <2>1, <2>2, RespawnAssumption
<1> QED
  BY <1>3, <1>4, <1>5, <1>6 DEF BudgetInv

\* A refusal only forgets instants that have aged.
LEMMA RefusalKeepsBudget ==
    ASSUME TypeOK, BudgetInv, now' = now, respawns' = Recent,
           spawnedAt' = spawnedAt
    PROVE  BudgetInv'
<1>1. \A i \in Daemons : spawnedAt[i] \in Nat
  BY DEF TypeOK, Daemons
<1> QED
  BY <1>1, RespawnAssumption
  DEF BudgetInv, SpawnBudget, Daemons, Recent, TypeOK

LEMMA BreakerKeepsBudget ==
    ASSUME TypeOK, BudgetInv, NEW try \in {1, 2}, EnsureRespawnBudget(try),
           now' = now
    PROVE  BudgetInv'
BY GrantKeepsBudget, RefusalKeepsBudget DEF EnsureRespawnBudget

LEMMA FailureKeepsBudget ==
    ASSUME TypeOK, BudgetInv, Failure, now' = now
    PROVE  BudgetInv'
<1>1. CASE UNCHANGED breaker
  BY <1>1 DEF breaker, BudgetInv, SpawnBudget, Daemons
<1>2. CASE EnsureRespawnBudget(2)
  BY <1>2, BreakerKeepsBudget
<1> QED
  BY <1>1, <1>2, Zenon DEF Failure

\* Time only makes the instants older.
LEMMA TickKeepsBudget ==
    ASSUME TypeOK, BudgetInv, Tick
    PROVE  BudgetInv'
<1>1. now \in Nat /\ \A i \in Daemons : spawnedAt[i] \in Nat
  BY DEF TypeOK, Daemons
<1>2. now' = now + 1 /\ respawns' = respawns /\ spawnedAt' = spawnedAt
  BY DEF Tick, breaker
<1>3. Daemons' = Daemons
  BY <1>2 DEF Daemons
<1>4. SpawnBudget'
  BY <1>2 DEF BudgetInv, SpawnBudget
<1> QED
  BY <1>1, <1>2, <1>3, <1>4, RespawnAssumption DEF BudgetInv

LEMMA NextBudget == TypeOK /\ BudgetInv /\ [Next]_vars => BudgetInv'
<1> SUFFICES ASSUME TypeOK, BudgetInv, [Next]_vars PROVE BudgetInv'
  OBVIOUS
<1>1. CASE UNCHANGED <<now, breaker>>
  BY <1>1 DEF breaker, BudgetInv, SpawnBudget, Daemons
<1>2. CASE EnterDead
  BY <1>2, BreakerKeepsBudget DEF EnterDead
<1>3. CASE SendFails
  BY <1>3, FailureKeepsBudget DEF SendFails
<1>4. CASE ReceiveNoise
  <2>1. CASE attempt = 1
    BY <1>4, <2>1, FailureKeepsBudget DEF ReceiveNoise
  <2>2. CASE attempt # 1
    BY <1>1, <1>4, <2>2, Zenon DEF ReceiveNoise
  <2> QED
    BY <2>1, <2>2
<1>5. CASE ReceiveEof
  BY <1>5, FailureKeepsBudget DEF ReceiveEof
<1>6. CASE RequestTimeout
  BY <1>6, FailureKeepsBudget DEF RequestTimeout
<1>7. CASE Tick
  BY <1>7, TickKeepsBudget
<1>8. ASSUME NEW c \in Callers, NEW r \in Requests, Call(c, r)
      PROVE  UNCHANGED <<now, breaker>>
  BY <1>8 DEF Call
<1>9. ASSUME NEW kind \in {"ok", "error"}, Serve(kind)
      PROVE  UNCHANGED <<now, breaker>>
  BY <1>9 DEF Serve
<1>10. CASE \/ EnterAlive \/ StartChild \/ StartChildFails
           \/ ChildReady \/ ReadyFails \/ Send
  BY <1>1, <1>10 DEF EnterAlive, StartChild, StartChildFails, ChildReady,
     ReadyFails, Send
<1>11. CASE Receive
  BY <1>1, <1>11 DEF Receive, Settle
<1>12. CASE MakeNoise \/ Die \/ \E d \in Daemons : Reap(d)
  BY <1>1, <1>12 DEF MakeNoise, Die, Reap
<1>13. CASE UNCHANGED vars
  BY <1>1, <1>13 DEF vars
<1> QED
  BY <1>1, <1>2, <1>3, <1>4, <1>5, <1>6, <1>7, <1>8, <1>9, <1>10, <1>11,
     <1>12, <1>13
  DEF Next, Server, Environment

\* The breaker keeps its promise for every MaxRespawns and Window.
THEOREM BudgetKept == Spec => []SpawnBudget
<1>1. Init => BudgetInv
  BY DEF Init, BudgetInv, SpawnBudget, Daemons
<1> QED
  BY <1>1, TypeCorrect, NextBudget, PTL DEF Spec, BudgetInv

------------------------------------------------------------------------------
(* Requests and answers *)

\* What ties an answer to its request is that nothing else is in the pipes.
AlignInv == InSync /\ MisdeliveryTraced

\* A return with an error hands nobody an answer and ends the exchange.
LEMMA ReturnErrorAligns ==
    ASSUME Typed, AlignInv, queue # <<>>, NEW b \in BOOLEAN, want' = want,
           Return("error", want[Head(queue)], b)
    PROVE  MisdeliveryTraced' /\ step' = "enter"
<1>1. result' = [result EXCEPT ![Head(queue)] =
                    Returned("error", want[Head(queue)], b)]
  BY DEF Return
<1>2. \A c \in Callers :
        result'[c] = result[c] \/ result'[c].status = "error"
  BY <1>1 DEF Typed, TypeOK, Returned
<1> QED
  BY <1>2 DEF Return, AlignInv, MisdeliveryTraced

\* Discarding empties the pipes, whether or not the breaker grants a spawn.
LEMMA ReplaceAligns ==
    ASSUME Typed, AlignInv, queue # <<>>, NEW try \in {1, 2}, want' = want,
           Discard, EnsureRespawnBudget(try)
    PROVE  AlignInv'
<1>1. CASE RespawnAllowed
  <2>1. step' = "spawn" /\ UNCHANGED <<queue, result>>
    BY <1>1 DEF EnsureRespawnBudget
  <2> QED
    BY <2>1 DEF Discard, AlignInv, InSync, MisdeliveryTraced, Holds
<1>2. CASE ~RespawnAllowed
  <2>1. Return("error", want[Head(queue)], FALSE)
    BY <1>2 DEF EnsureRespawnBudget
  <2>2. MisdeliveryTraced' /\ step' = "enter"
    BY <2>1, ReturnErrorAligns
  <2> QED
    BY <2>2 DEF Discard, AlignInv, InSync, Holds
<1> QED
  BY <1>1, <1>2

\* After a failed retry the daemon is marked as kept, and InSync says no more.
LEMMA KeepAligns ==
    ASSUME Typed, AlignInv, queue # <<>>, want' = want, kept' = TRUE,
           Return("error", want[Head(queue)], FALSE)
    PROVE  AlignInv'
BY ReturnErrorAligns DEF AlignInv, InSync

LEMMA FailureAligns ==
    ASSUME Typed, AlignInv, queue # <<>>, Failure, want' = want
    PROVE  AlignInv'
<1>1. CASE attempt = 1 /\ Discard /\ EnsureRespawnBudget(2)
  BY <1>1, ReplaceAligns
<1>2. CASE kept' = TRUE /\ Return("error", want[Head(queue)], FALSE)
  BY <1>2, KeepAligns
<1> QED
  BY <1>1, <1>2, Zenon DEF Failure

\* The line read is the only one there is, and answers the holder's request.
LEMMA ReceiveAligns ==
    ASSUME Typed, AlignInv, Receive
    PROVE  AlignInv'
<1>1. /\ queue # <<>> /\ step = "await" /\ outbox # <<>>
      /\ Settle(Head(outbox)) /\ want' = want
  BY DEF Receive, Holds
<1>2. Head(queue) \in Callers
  BY <1>1 DEF Typed, TypeOK
<1>3. UNCHANGED <<inbox, kept>> /\ outbox' = Tail(outbox) /\ step' = "enter"
  BY <1>1 DEF Settle, Return
<1>4. PICK status \in {"ok", "error"} :
        result' = [result EXCEPT ![Head(queue)] =
                      Returned(status, Head(outbox).of, kept)]
  BY <1>1 DEF Settle, Return
<1>5. ~kept => /\ Head(outbox).of = want[Head(queue)]
               /\ Tail(outbox) = <<>> /\ inbox = <<>>
  <2> SUFFICES ASSUME ~kept
               PROVE  /\ Head(outbox).of = want[Head(queue)]
                      /\ Tail(outbox) = <<>> /\ inbox = <<>>
    OBVIOUS
  <2>1. PICK kind \in {"ok", "error"} :
          /\ inbox = <<>>
          /\ outbox = <<[kind |-> kind, of |-> want[Head(queue)]]>>
    BY <1>1, Zenon DEF AlignInv, InSync, Holds
  <2>2. Head(outbox) = [kind |-> kind, of |-> want[Head(queue)]]
    BY <2>1
  <2>3. Tail(outbox) = <<>>
    BY <2>1
  <2> QED
    BY <2>1, <2>2, <2>3
<1>6. InSync'
  BY <1>3, <1>5 DEF InSync, Holds
<1>7. MisdeliveryTraced'
  <2> SUFFICES ASSUME NEW c \in Callers, result'[c].status = "ok",
                      ~result'[c].fromKept
               PROVE  result'[c].of = want[c]
    BY <1>1 DEF MisdeliveryTraced
  <2>1. CASE c = Head(queue)
    BY <1>2, <1>4, <1>5, <2>1 DEF Returned, Typed, TypeOK
  <2>2. CASE c # Head(queue)
    BY <1>2, <1>4, <2>2 DEF AlignInv, MisdeliveryTraced, Typed, TypeOK
  <2> QED
    BY <2>1, <2>2
<1> QED
  BY <1>6, <1>7 DEF AlignInv

\* A new call waits behind the holder, whose request does not change.
LEMMA CallAligns ==
    ASSUME Typed, AlignInv, NEW c \in Callers, NEW r \in Requests, Call(c, r)
    PROVE  AlignInv'
<1>1. MisdeliveryTraced'
  BY DEF Call, Returned, AlignInv, MisdeliveryTraced, Typed, TypeOK
<1>2. CASE queue = <<>>
  <2>1. step' = "enter" /\ UNCHANGED <<inbox, outbox, kept>>
    BY <1>2 DEF Call, pipes, Typed
  <2> QED
    BY <1>1, <1>2, <2>1 DEF AlignInv, InSync, Holds
<1>3. CASE queue # <<>>
  <2>1. /\ queue' # <<>> /\ Head(queue') = Head(queue)
        /\ Head(queue) \in Callers /\ Head(queue) # c
    <3>1. queue \in Seq(Callers) /\ queue' = Append(queue, c)
      BY DEF Call, Typed, TypeOK
    <3>2. Head(queue) = queue[1] /\ 1 \in 1..Len(queue)
      BY <1>3, <3>1
    <3>3. Head(queue) # c
      BY <3>2 DEF Call, InQueue
    <3> QED
      BY <1>3, <3>1, <3>3
  <2>2. want'[Head(queue')] = want[Head(queue)]
    BY <2>1 DEF Call, Typed, TypeOK
  <2>3. UNCHANGED <<step, handle, running, inbox, outbox, kept>>
    BY DEF Call, pipes, children
  <2>4. InSync'
    BY <1>3, <2>1, <2>2, <2>3 DEF AlignInv, InSync, Holds
  <2> QED
    BY <1>1, <2>4 DEF AlignInv
<1> QED
  BY <1>2, <1>3

\* The child only moves the request it was sent to its answer, or loses it.
LEMMA ServeAligns ==
    ASSUME Typed, AlignInv, NEW kind \in {"ok", "error"}, Serve(kind)
    PROVE  AlignInv'
<1>1. /\ inbox # <<>> /\ inbox' = Tail(inbox) /\ handle \in running
      /\ outbox' = Append(outbox, [kind |-> kind, of |-> Head(inbox)])
      /\ UNCHANGED <<queue, step, want, result, kept>>
  BY DEF Serve, caller
<1>2. ASSUME ~kept
      PROVE  /\ step = "await" /\ queue # <<>> /\ inbox' = <<>>
             /\ outbox' = <<[kind |-> kind, of |-> want[Head(queue)]]>>
  <2>1. /\ step = "await" /\ queue # <<>>
        /\ inbox = <<want[Head(queue)]>> /\ outbox = <<>>
    BY <1>1, <1>2, Zenon DEF AlignInv, InSync, Holds
  <2>2. Head(inbox) = want[Head(queue)] /\ Tail(inbox) = <<>>
    BY <2>1
  <2>3. outbox' = Append(<<>>, [kind |-> kind, of |-> want[Head(queue)]])
    BY <1>1, <2>1, <2>2
  <2> QED
    BY <1>1, <2>1, <2>2, <2>3
<1>3. InSync'
  BY <1>1, <1>2, Zenon DEF InSync, Holds
<1> QED
  BY <1>1, <1>3 DEF AlignInv, MisdeliveryTraced

LEMMA NextAligns == Typed /\ AlignInv /\ [Next]_vars => AlignInv'
<1> SUFFICES ASSUME Typed, AlignInv, [Next]_vars PROVE AlignInv'
  OBVIOUS
<1> USE DEF Holds, children
<1>1. ASSUME NEW c \in Callers, NEW r \in Requests, Call(c, r)
      PROVE  AlignInv'
  BY <1>1, CallAligns
<1>2. CASE EnterAlive
  BY <1>2 DEF EnterAlive, pipes, AlignInv, InSync, MisdeliveryTraced
<1>3. CASE EnterDead
  BY <1>3, ReplaceAligns DEF EnterDead
<1>4. CASE StartChild \/ ChildReady
  BY <1>4 DEF StartChild, ChildReady, pipes, AlignInv, InSync, MisdeliveryTraced
<1>5. CASE StartChildFails \/ ReadyFails
  <2>1. MisdeliveryTraced' /\ step' = "enter"
    BY <1>5, ReturnErrorAligns DEF StartChildFails, ReadyFails
  <2> QED
    BY <1>5, <2>1 DEF StartChildFails, ReadyFails, pipes, AlignInv, InSync
<1>6. CASE Send
  <2>1. ~kept => inbox' = <<want[Head(queue)]>> /\ outbox' = <<>>
    BY <1>6 DEF Send, AlignInv, InSync
  <2> QED
    BY <1>6, <2>1 DEF Send, AlignInv, InSync, MisdeliveryTraced
<1>7. CASE SendFails
  BY <1>7, FailureAligns DEF SendFails
<1>8. CASE Receive
  BY <1>8, ReceiveAligns
<1>9. CASE ReceiveNoise
  <2>1. CASE attempt = 1 /\ Failure
    BY <1>9, <2>1, FailureAligns DEF ReceiveNoise
  <2>2. CASE kept' = TRUE /\ Return("error", want[Head(queue)], FALSE)
    BY <1>9, <2>2, KeepAligns DEF ReceiveNoise
  <2> QED
    BY <1>9, <2>1, <2>2, Zenon DEF ReceiveNoise
<1>10. CASE ReceiveEof
  BY <1>10, FailureAligns DEF ReceiveEof
<1>11. CASE RequestTimeout
  BY <1>11, FailureAligns DEF RequestTimeout
<1>12. ASSUME NEW kind \in {"ok", "error"}, Serve(kind) PROVE AlignInv'
  BY <1>12, ServeAligns
<1>13. CASE MakeNoise
  BY <1>13 DEF MakeNoise, caller, AlignInv, InSync, MisdeliveryTraced
<1>14. CASE Die
  BY <1>14 DEF Die, caller, AlignInv, InSync, MisdeliveryTraced
<1>17. ASSUME NEW d \in Daemons, Reap(d) PROVE AlignInv'
  <2>1. handle \notin running => handle \notin running'
    BY <1>17 DEF Reap
  <2> QED
    BY <1>17, <2>1
    DEF Reap, caller, pipes, AlignInv, InSync, MisdeliveryTraced
<1>15. CASE Tick
  BY <1>15 DEF Tick, caller, pipes, AlignInv, InSync, MisdeliveryTraced
<1>16. CASE UNCHANGED vars
  BY <1>16 DEF vars, caller, pipes, AlignInv, InSync, MisdeliveryTraced
<1> QED
  BY <1>1, <1>2, <1>3, <1>4, <1>5, <1>6, <1>7, <1>8, <1>9, <1>10, <1>11,
     <1>12, <1>13, <1>14, <1>15, <1>16, <1>17
  DEF Next, Server, Environment

LEMMA Aligned == Spec => [](InSync /\ MisdeliveryTraced)
<1>1. Init => AlignInv
  BY DEF Init, AlignInv, InSync, MisdeliveryTraced, Holds, Returned
<1>2. Spec => [](Typed /\ AlignInv)
  BY <1>1, InitTyped, NextTyped, NextAligns, PTL DEF Spec
<1> QED
  BY <1>2, PTL DEF AlignInv

\* The pipes of a daemon that never failed a retry hold nothing but the
\* exchange under way.
THEOREM PipesInSync == Spec => []InSync
BY Aligned, PTL

\* A wrong answer always comes from a daemon kept after a failed retry.
THEOREM MisdeliveryOnlyFromKept == Spec => []MisdeliveryTraced
BY Aligned, PTL

------------------------------------------------------------------------------
(* One child at a time *)

\* Where the one child is that nobody sent a kill: the cell knows it from the
\* first attempt on once it is ready, the retry only when it has ended, and
\* there is none while one is about to be started.
Alone ==
    /\ running \ abandoned \subseteq {handle}
    /\ attempt = 1 /\ step # "ready" => cell = handle
    /\ attempt = 2 => cell = 0
    /\ step = "enter" => attempt = 1
    /\ step = "spawn" => handle = 0

\* Discarding leaves no child, whether or not the breaker grants another one.
LEMMA ReplaceAlone ==
    ASSUME Typed, Alone, attempt = 1, step # "ready", NEW try \in {1, 2},
           Discard, EnsureRespawnBudget(try)
    PROVE  Alone'
<1>1. running' \ abandoned' = {} /\ cell' = 0 /\ handle' = 0
  BY DEF Discard, Alone
<1>2. \/ step' = "spawn" /\ attempt' = try
      \/ step' = "enter" /\ attempt' = 1
  BY DEF EnsureRespawnBudget, Return
<1> QED
  BY <1>1, <1>2 DEF Alone

LEMMA FailureAlone ==
    ASSUME Typed, Alone, step # "ready", Failure
    PROVE  Alone'
<1>1. CASE attempt = 1
  BY <1>1, ReplaceAlone DEF Failure
<1>2. CASE attempt # 1
  <2>1. cell' = handle /\ attempt' = 1 /\ step' = "enter"
        /\ UNCHANGED <<handle, running, abandoned>>
    BY <1>2, Zenon DEF Failure, Return, children
  <2> QED
    BY <2>1 DEF Alone
<1> QED
  BY <1>1, <1>2

LEMMA NextAlone == Typed /\ Alone /\ [Next]_vars => Alone'
<1> SUFFICES ASSUME Typed, Alone, [Next]_vars PROVE Alone'
  OBVIOUS
<1>1. ASSUME NEW c \in Callers, NEW r \in Requests, Call(c, r) PROVE Alone'
  BY <1>1 DEF Call, children, Alone
<1>2. CASE EnterAlive
  BY <1>2 DEF EnterAlive, children, Alone, Holds
<1>3. CASE EnterDead
  BY <1>3, ReplaceAlone DEF EnterDead, Holds, Alone
<1>4. CASE StartChild
  <2>1. 0 \notin running
    BY DEF Typed, TypeOK, Daemons
  <2>2. /\ handle' = Len(spawnedAt) /\ abandoned' = abandoned
        /\ running' = running \cup {Len(spawnedAt)}
        /\ running \ abandoned = {}
    BY <1>4, <2>1 DEF StartChild, Holds, Alone
  <2> QED
    BY <1>4, <2>2 DEF StartChild, Alone
<1>5. CASE StartChildFails
  BY <1>5 DEF StartChildFails, Return, Holds, Alone, children, Typed, TypeOK
<1>16. CASE ChildReady
  BY <1>16 DEF ChildReady, Holds, children, Alone, Typed, TypeOK
<1>17. CASE ReadyFails
  BY <1>17 DEF ReadyFails, Return, Holds, Alone, Typed, TypeOK
<1>18. ASSUME NEW d \in Daemons, Reap(d) PROVE Alone'
  BY <1>18 DEF Reap, caller, Alone
<1>6. CASE Send
  BY <1>6 DEF Send, children, Holds, Alone
<1>7. CASE SendFails
  BY <1>7, FailureAlone DEF SendFails, Holds
<1>8. CASE Receive
  BY <1>8 DEF Receive, Settle, Return, children, Alone
<1>9. CASE ReceiveNoise
  <2>1. CASE attempt = 1
    BY <1>9, <2>1, FailureAlone DEF ReceiveNoise, Holds
  <2>2. CASE attempt # 1
    <3>1. cell' = handle /\ attempt' = 1 /\ step' = "enter"
          /\ UNCHANGED <<handle, running, abandoned>>
      BY <1>9, <2>2, Zenon DEF ReceiveNoise, Return, children
    <3> QED
      BY <3>1 DEF Alone
  <2> QED
    BY <2>1, <2>2
<1>10. CASE ReceiveEof
  BY <1>10, FailureAlone DEF ReceiveEof, Holds
<1>11. CASE RequestTimeout
  BY <1>11, FailureAlone DEF RequestTimeout, Holds
<1>12. ASSUME NEW kind \in {"ok", "error"}, Serve(kind) PROVE Alone'
  BY <1>12 DEF Serve, caller, children, Alone
<1>13. CASE MakeNoise \/ Tick
  BY <1>13 DEF MakeNoise, Tick, caller, children, Alone
<1>14. CASE Die
  BY <1>14 DEF Die, caller, Alone
<1>15. CASE UNCHANGED vars
  BY <1>15 DEF vars, caller, children, Alone
<1> QED
  BY <1>1, <1>2, <1>3, <1>4, <1>5, <1>6, <1>7, <1>8, <1>9, <1>10, <1>11,
     <1>12, <1>13, <1>14, <1>15, <1>16, <1>17, <1>18
  DEF Next, Server, Environment

LEMMA AlwaysAlone == Spec => [](Typed /\ Alone)
<1>1. Init => Alone
  BY DEF Init, Alone
<1> QED
  BY <1>1, InitTyped, NextTyped, NextAlone, PTL DEF Spec

\* However the daemons fail, hang and die, and whoever replaces them: what runs
\* beside the daemon in use has never got ready and was sent its kill.
THEOREM NeverTwoDaemons == Spec => []OneLiveDaemon
<1>1. Alone => OneLiveDaemon
  BY DEF Alone, OneLiveDaemon
<1> QED
  BY <1>1, AlwaysAlone, PTL

\* No step throws away a daemon that lives, unless the exchange under way has
\* brought a line of noise, or nothing until the timeout.
THEOREM OnlyFailedDiscarded == Spec => HealthyDaemonKept
<1> DEFINE Discarded == cell \in running /\ cell' = 0
           Failed == Holds("await") /\ (noise \/ outbox = <<>>)
<1>1. ASSUME Typed, Alone, [Next]_vars, Discarded PROVE Failed
  <2>1. cell \in running /\ cell # 0 /\ cell' = 0 /\ cell = handle
    BY <1>1 DEF Typed, TypeOK, Daemons, Alone
  <2>2. ~EnterDead /\ ~SendFails
    BY <2>1 DEF EnterDead, SendFails
  <2>3. ~ChildReady
    BY <1>1, <2>1 DEF ChildReady, Holds, Typed
  <2>4. ~Receive
    BY <2>1 DEF Receive, Settle
  <2>5. CASE UNCHANGED cell
    BY <2>1, <2>5
  <2>6. CASE ReceiveNoise \/ ReceiveEof \/ RequestTimeout
    BY <2>6 DEF ReceiveNoise, ReceiveEof, RequestTimeout
  <2> QED
    BY <1>1, <2>2, <2>3, <2>4, <2>5, <2>6
    DEF Next, Server, Environment, Call, EnterAlive, StartChild,
        StartChildFails, ReadyFails, Send, Serve, MakeNoise, Die, Reap, Tick,
        vars
<1>2. Typed /\ Alone /\ [Next]_vars => [Discarded => Failed]_vars
  BY <1>1
<1> QED
  BY <1>2, AlwaysAlone, PTL DEF Spec, HealthyDaemonKept

------------------------------------------------------------------------------
(* The document: types *)

Envelope == [kind : {"none", "found", "notfound", "reloaded", "error"},
             version : Nat, stale : BOOLEAN]

LEMMA ReplyTyped ==
    ASSUME NEW kind \in {"none", "found", "notfound", "reloaded", "error"},
           NEW version \in Nat, NEW old \in BOOLEAN, Reply(kind, version, old)
    PROVE  pc' = "loop" /\ answer' \in Envelope
BY DEF Reply, Envelope

LEMMA AttemptTyped ==
    ASSUME DocTypeOK, AttemptFails
    PROVE  /\ attempts' \in 0..(Attempts - 1)
           /\ pc' \in {"down", "loop", "open", "look"}
           /\ stale' \in BOOLEAN
           /\ answer' \in Envelope
<1>1. attempts' \in 0..(Attempts - 1)
  BY DEF DocTypeOK, AttemptFails, Attempts
<1>2. CASE UNCHANGED <<stale, answer>> /\ pc' \in {"down", "open"}
  BY <1>1, <1>2 DEF DocTypeOK, Envelope
<1>3. CASE pc' = "look" /\ stale' = TRUE /\ UNCHANGED answer
  BY <1>1, <1>3 DEF DocTypeOK, Envelope
<1>4. CASE Reply("error", 0, FALSE) /\ UNCHANGED stale
  BY <1>1, <1>4, ReplyTyped DEF DocTypeOK
<1> QED
  BY <1>2, <1>3, <1>4 DEF AttemptFails

LEMMA NoAnswerTyped == NoAnswer \in Envelope
BY DEF NoAnswer, Envelope

LEMMA DocInitTyped == DocInit => DocTypeOK
<1> SUFFICES ASSUME DocInit PROVE DocTypeOK
  OBVIOUS
<1>1. /\ disk \in Nat \ {0} /\ diskTime \in Nat \ {0} /\ store \in Nat
      /\ mtime \in Nat /\ asked \in Nat /\ attempts \in 0..(Attempts - 1)
  BY DEF DocInit, Attempts
<1>2. answer \in Envelope
  BY NoAnswerTyped DEF DocInit
<1>3. /\ pc \in {"down", "loop", "compare", "open", "note", "look"}
      /\ request \in DocRequests /\ lostBy \in DocRequests
      /\ locked \in BOOLEAN /\ stale \in BOOLEAN /\ raced \in BOOLEAN
  BY DEF DocInit, DocRequests
<1> QED
  BY <1>1, <1>2, <1>3 DEF DocTypeOK, Envelope

LEMMA DocNextTyped == DocTypeOK /\ [DocNext]_docVars => DocTypeOK'
<1> SUFFICES ASSUME DocTypeOK, [DocNext]_docVars PROVE DocTypeOK'
  OBVIOUS
<1>0. /\ answer \in Envelope /\ NoAnswer \in Envelope
      /\ 0 \in 0..(Attempts - 1)
  BY NoAnswerTyped DEF DocTypeOK, Envelope, Attempts
<1>1. CASE Start
  <2>1. disk \in Nat /\ "start" \in DocRequests
    BY DEF DocTypeOK, DocRequests
  <2> QED
    BY <1>0, <1>1, <2>1 DEF Start, DocTypeOK, file, Envelope
<1>2. CASE Kill
  BY <1>2 DEF Kill, DocTypeOK, file, history
<1>3. ASSUME NEW r \in {"resolve", "reload"}, Read(r) PROVE DocTypeOK'
  BY <1>0, <1>3 DEF Read, DocTypeOK, file, Attempts, DocRequests, Envelope
<1>4. CASE Compare
  BY <1>4 DEF Compare, DocTypeOK, file, history
<1>5. CASE CompareFails
  <2>1. pc' = "loop" /\ answer' \in Envelope
    BY <1>5, ReplyTyped DEF CompareFails
  <2> QED
    BY <1>5, <2>1 DEF CompareFails, DocTypeOK, file, history, Envelope
<1>6. CASE OpenOk
  BY <1>6 DEF OpenOk, DocTypeOK, file, history
<1>7. CASE OpenFails
  BY <1>7, AttemptTyped DEF OpenFails, DocTypeOK, file, Envelope
<1>8. CASE Note
  <2>1. /\ pc' \in {"loop", "look"} /\ answer' \in Envelope
        /\ stale' \in BOOLEAN
    <3>1. CASE Reply("reloaded", store, FALSE) /\ UNCHANGED stale
      BY <3>1, ReplyTyped DEF DocTypeOK
    <3>2. CASE UNCHANGED answer
      BY <1>0, <1>8, <3>2 DEF Note, DocTypeOK, Reply
    <3> QED
      BY <1>8, <3>1, <3>2 DEF Note
  <2> QED
    BY <1>8, <2>1 DEF Note, DocTypeOK, file, Envelope, Attempts
<1>9. CASE NoteFails
  BY <1>9, AttemptTyped DEF NoteFails, DocTypeOK, file, history, Envelope
<1>10. CASE Look
  <2>1. pc' = "loop" /\ answer' \in Envelope
    BY <1>10, ReplyTyped DEF Look, DocTypeOK
  <2> QED
    BY <1>10, <2>1 DEF Look, DocTypeOK, file, history, Envelope
<1>11. CASE Lock
  BY <1>11 DEF Lock, DocTypeOK, history
<1>12. CASE Unlock
  <2>1. disk' \in Nat \ {0} /\ diskTime' \in Nat \ {0}
    BY <1>12 DEF Unlock, DocTypeOK
  <2> QED
    BY <1>12, <2>1 DEF Unlock, DocTypeOK, history
<1>13. CASE UNCHANGED docVars
  BY <1>13 DEF docVars, DocTypeOK, file, history
<1> QED
  BY <1>1, <1>2, <1>3, <1>4, <1>5, <1>6, <1>7, <1>8, <1>9, <1>10, <1>11,
     <1>12, <1>13 DEF DocNext, Daemon

\* Every variable keeps its type.
THEOREM DocTypeCorrect == DocSpec => []DocTypeOK
BY DocInitTyped, DocNextTyped, PTL DEF DocSpec

------------------------------------------------------------------------------
(* The document: freshness *)

\* The mtime that was noted is one the file has had.
NotedPast ==
    /\ mtime <= diskTime
    /\ asked <= disk

\* The store has the file's version as long as the mtime says so.
StoreCurrent == (~raced /\ mtime = diskTime /\ store # 0) => store = disk

\* What the daemon is about to answer with is not older than the request.
AboutToAnswer ==
    /\ pc = "note" => store # 0 /\ store >= asked
    /\ pc \notin {"loop", "down"} => answer.kind = "none"
    /\ (pc = "look" /\ ~stale /\ ~raced /\ store # 0) => store >= asked

\* While a resolve opens the document again, and ever after it has lost it,
\* the file is newer than the mtime that was noted.
Behind ==
    /\ (request = "resolve" /\ pc \in {"open", "note"}) => mtime < diskTime
    /\ (store = 0 /\ lostBy = "resolve") => mtime < diskTime

Fresh == NotedPast /\ StoreCurrent /\ AboutToAnswer /\ Behind /\ FreshUnlessRaced

LEMMA InitFresh == DocInit => Fresh
BY DEF DocInit, Fresh, NotedPast, StoreCurrent, AboutToAnswer, Behind,
       FreshUnlessRaced, NoAnswer

\* What an attempt that fails leads to, as far as freshness is concerned.
LEMMA AttemptLeads ==
    ASSUME AttemptFails
    PROVE  \/ pc' \in {"down", "open"} /\ UNCHANGED answer
           \/ pc' = "look" /\ stale' = TRUE /\ UNCHANGED answer
           \/ pc' = "loop" /\ answer'.kind = "error"
BY DEF AttemptFails, Reply

LEMMA NextFresh == DocTypeOK /\ Fresh /\ [DocNext]_docVars => Fresh'
<1> SUFFICES ASSUME DocTypeOK, Fresh, [DocNext]_docVars PROVE Fresh'
  OBVIOUS
<1>0. /\ disk \in Nat \ {0} /\ diskTime \in Nat \ {0} /\ store \in Nat
      /\ mtime \in Nat /\ asked \in Nat
  BY DEF DocTypeOK
<1> USE DEF Fresh, NotedPast, StoreCurrent, AboutToAnswer, Behind,
            FreshUnlessRaced
<1>1. CASE Start
  BY <1>0, <1>1 DEF Start, file, NoAnswer
<1>2. CASE Kill
  BY <1>0, <1>2 DEF Kill, file, history
<1>3. ASSUME NEW r \in {"resolve", "reload"}, Read(r) PROVE Fresh'
  BY <1>0, <1>3 DEF Read, file, NoAnswer
<1>4. CASE Compare
  BY <1>0, <1>4 DEF Compare, file, history
<1>5. CASE CompareFails
  BY <1>0, <1>5 DEF CompareFails, Reply, file, history
<1>6. CASE OpenOk
  BY <1>0, <1>6 DEF OpenOk, file, history
<1>7. CASE OpenFails
  BY <1>0, <1>7, AttemptLeads DEF OpenFails, file
<1>8. CASE Note
  <2>1. ~raced' => store = disk
    BY <1>8 DEF Note
  <2>2. /\ mtime' = diskTime
        /\ UNCHANGED <<disk, diskTime, store, asked, lostBy>>
        /\ \/ pc' = "loop" /\ UNCHANGED answer /\ request = "start"
           \/ pc' = "look" /\ UNCHANGED answer
           \/ pc' = "loop" /\ answer'.kind = "reloaded"
              /\ answer'.version = store
    BY <1>8 DEF Note, Reply, file
  <2>3. store # 0 /\ store >= asked /\ answer.kind = "none"
    BY <1>8 DEF Note
  <2>4. NotedPast' /\ AboutToAnswer' /\ Behind'
    BY <1>0, <2>2, <2>3
  <2>5. StoreCurrent'
    BY <1>0, <2>1, <2>2
  <2>6. FreshUnlessRaced'
    BY <1>0, <2>2, <2>3
  <2> QED
    BY <2>4, <2>5, <2>6
<1>9. CASE NoteFails
  BY <1>0, <1>9, AttemptLeads DEF NoteFails, file, history
<1>10. CASE Look
  BY <1>0, <1>10 DEF Look, Reply, file, history
<1>11. CASE Lock
  BY <1>0, <1>11 DEF Lock, history
<1>12. CASE Unlock
  BY <1>0, <1>12 DEF Unlock, history
<1>13. CASE UNCHANGED docVars
  BY <1>13 DEF docVars, file, history
<1> QED
  BY <1>1, <1>2, <1>3, <1>4, <1>5, <1>6, <1>7, <1>8, <1>9, <1>10, <1>11,
     <1>12, <1>13 DEF DocNext, Daemon

LEMMA AlwaysFresh == DocSpec => [](DocTypeOK /\ Fresh)
BY DocInitTyped, DocNextTyped, InitFresh, NextFresh, PTL DEF DocSpec

\* Whatever the daemon, the client and the savers of the file interleave, an
\* answer without the stale mark is current but after the one race.
THEOREM AnswersFresh == DocSpec => []FreshUnlessRaced
BY AlwaysFresh, PTL DEF Fresh

\* A resolve that lost the document is followed by another opening.
THEOREM LostIsRetried == DocSpec => []ResolveTriesAgain
<1>1. DocTypeOK /\ Fresh => ResolveTriesAgain
  BY DEF DocTypeOK, Fresh, Behind, ResolveTriesAgain
<1> QED
  BY <1>1, AlwaysFresh, PTL
=============================================================================
