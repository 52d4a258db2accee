--------------------------- MODULE SshPool_proofs ---------------------------
(***************************************************************************)
(* TLAPS proofs about SshPool: types, the permits of a connection, single  *)
(* flight and the cap on channels while nothing breaks, and who may evict. *)
(***************************************************************************)
EXTENDS SshPool, FiniteSetTheorems, TLAPS

------------------------------------------------------------------------------
(* The inductive invariant *)

Unconnected == {"idle", "lookup", "entry", "lockwait", "recheck", "dial", "backoff"}
Unguarded == {"idle", "lookup", "entry", "permit", "open", "use"}
Connecting == {"dial", "backoff"}

\* What an operation holds at each of its steps.
Holding ==
    \A t \in Tasks :
        /\ conn[t] = None <=> pc[t] \in Unconnected
        /\ lock[t] = None
              <=> pc[t] \in Unguarded \/ (pc[t] \in Connecting /\ Retrying(t))
        /\ Retrying(t) => pc[t] \in Connecting \cup {"permit", "open"}

\* No more than its permits are out, of any connection.
PermitsKept == \A c \in Conns : Cardinality(Channels(c)) <= MaxChannels

\* Before the first connection: whoever wants one has the mutex of
\* connect_locks, or waits for it.
Cold ==
    /\ alive = {}
    /\ \A t \in Tasks :
          /\ pc[t] \in Unconnected
          /\ lock[t] \in {None, lockEntry}
    /\ \A t, u \in Tasks : HoldsGuard(t) /\ HoldsGuard(u) => t = u

\* After it: there is no other, and nobody makes one.
Warm ==
    /\ alive = {pooled} /\ pooled \in fresh
    /\ \A t \in Tasks : conn[t] \in {None, pooled} /\ pc[t] \notin Connecting

Calm ==
    calm => /\ \A t \in Tasks : ~Retrying(t)
            /\ IF pooled = None THEN Cold ELSE Warm

IInv == TypeOK /\ Holding /\ PermitsKept /\ Calm

------------------------------------------------------------------------------
(* Places in the queues, and free identities *)

LEMMA OthersType ==
    ASSUME NEW t \in Tasks, waiters \in Seq(Tasks)
    PROVE  OthersThan(t) \in Seq(Tasks)
<1> DEFINE i == CHOOSE i \in DOMAIN waiters : waiters[i] = t
<1>1. CASE t \in ToSet(waiters)
  <2>1. i \in 1..Len(waiters) /\ Len(waiters) \in Nat
    BY <1>1 DEF ToSet
  <2> HIDE DEF i
  <2>2. /\ SubSeq(waiters, 1, i - 1) \in Seq(Tasks)
        /\ SubSeq(waiters, i + 1, Len(waiters)) \in Seq(Tasks)
    BY <2>1
  <2>3. SubSeq(waiters, 1, i - 1) \o SubSeq(waiters, i + 1, Len(waiters))
           \in Seq(Tasks)
    BY <2>2
  <2> QED BY <1>1, <2>3 DEF OthersThan, RemoveAt, i
<1>2. CASE t \notin ToSet(waiters)
  BY <1>2 DEF OthersThan
<1> QED BY <1>1, <1>2

\* t is where it went, and everybody else where they were.
LEMMA Went ==
    ASSUME NEW t \in Tasks, NEW step \in Steps, Goto(t, step),
           pc \in [Tasks -> Steps], waiters \in Seq(Tasks)
    PROVE  /\ pc' \in [Tasks -> Steps]
           /\ waiters' \in Seq(Tasks)
           /\ pc'[t] = step
           /\ \A u \in Tasks \ {t} : pc'[u] = pc[u]
<1>1. OthersThan(t) \in Seq(Tasks)
  BY OthersType
<1>2. Append(OthersThan(t), t) \in Seq(Tasks)
  BY <1>1
<1>3. waiters' \in Seq(Tasks)
  BY <1>1, <1>2 DEF Goto
<1> QED BY <1>3 DEF Goto

\* What Tasks refer to is not more than there are tasks.
LEMMA FewReferred ==
    ASSUME NEW S, NEW f \in [Tasks -> S]
    PROVE  /\ IsFiniteSet({f[u] : u \in Tasks})
           /\ Cardinality({f[u] : u \in Tasks}) <= Cardinality(Tasks)
           /\ Cardinality({f[u] : u \in Tasks}) \in Nat
           /\ Cardinality(Tasks) \in Nat
<1> DEFINE range == {f[u] : u \in Tasks}
<1>1. f \in Surjection(Tasks, range)
  BY DEF Surjection
<1>2. IsFiniteSet(range) /\ Cardinality(range) <= Cardinality(Tasks)
  BY <1>1, FS_Surjection, PoolAssumption
<1>3. Cardinality(range) \in Nat /\ Cardinality(Tasks) \in Nat
  BY <1>2, FS_CardinalityType, PoolAssumption
<1> QED BY <1>2, <1>3

\* Two sets of references and the entry of the pool.
LEMMA FewOfTwo ==
    ASSUME conn \in [Tasks -> Conns \cup {None}],
           refused \in [Tasks -> Conns \cup {None}],
           NEW S, S = {conn[u] : u \in Tasks} \cup {refused[u] : u \in Tasks}
                        \cup {pooled}
    PROVE  /\ IsFiniteSet(S)
           /\ Cardinality(S) \in Nat
           /\ Cardinality(Tasks) \in Nat
           /\ Cardinality(S) <= 2 * Cardinality(Tasks) + 1
<1> DEFINE A == {conn[u] : u \in Tasks}
           B == {refused[u] : u \in Tasks}
<1>1. /\ IsFiniteSet(A) /\ Cardinality(A) \in Nat
      /\ Cardinality(A) <= Cardinality(Tasks) /\ Cardinality(Tasks) \in Nat
  BY FewReferred
<1>2. /\ IsFiniteSet(B) /\ Cardinality(B) \in Nat
      /\ Cardinality(B) <= Cardinality(Tasks)
  BY FewReferred
<1>3. S = (A \cup B) \cup {pooled}
  OBVIOUS
<1> HIDE DEF A, B
<1>4. /\ IsFiniteSet(A \cup B)
      /\ Cardinality(A \cup B)
            = Cardinality(A) + Cardinality(B) - Cardinality(A \cap B)
  BY <1>1, <1>2, FS_Union
<1>5. Cardinality(A \cap B) \in Nat /\ Cardinality(A \cup B) \in Nat
  BY <1>1, <1>4, FS_Intersection, FS_CardinalityType
<1>6. /\ IsFiniteSet(S)
      /\ Cardinality(S) = IF pooled \in A \cup B THEN Cardinality(A \cup B)
                                                ELSE Cardinality(A \cup B) + 1
  BY <1>3, <1>4, FS_AddElement
<1> QED BY <1>1, <1>2, <1>4, <1>5, <1>6

LEMMA FreeConn ==
    ASSUME conn \in [Tasks -> Conns \cup {None}],
           refused \in [Tasks -> Conns \cup {None}],
           NEW t \in Tasks, conn[t] = None
    PROVE  NewConn \in Conns /\ NewConn # None /\ NewConn \notin Referenced
<1> DEFINE used == {conn[u] : u \in Tasks} \cup {refused[u] : u \in Tasks}
                      \cup {pooled}
<1>1. /\ IsFiniteSet(used) /\ Cardinality(used) \in Nat
      /\ Cardinality(Tasks) \in Nat
      /\ Cardinality(used) <= 2 * Cardinality(Tasks) + 1
  BY FewOfTwo
<1>2. None \in used
  OBVIOUS
<1>3. /\ Cardinality(Conns \cup {None}) = Cardinality(Conns) + 1
      /\ Cardinality(Conns) \in Nat
  BY FS_AddElement, FS_CardinalityType, PoolAssumption
<1>4. \E c \in Conns : c \notin used
  <2>1. SUFFICES ASSUME Conns \subseteq used PROVE FALSE
    OBVIOUS
  <2>2. Conns \cup {None} \subseteq used
    BY <1>2, <2>1
  <2> HIDE DEF used
  <2>3. Cardinality(Conns \cup {None}) <= Cardinality(used)
    BY <1>1, <2>2, FS_Subset
  <2> QED BY <1>1, <1>3, <2>3, PoolAssumption
<1>5. NewConn \in Conns /\ NewConn \notin Referenced
  BY <1>4 DEF NewConn, Referenced
<1> QED BY <1>5, PoolAssumption

LEMMA FreeLock ==
    ASSUME lock \in [Tasks -> Locks \cup {None}], NEW t \in Tasks, lock[t] = None,
           lockEntry = None
    PROVE  NewLock \in Locks /\ NewLock # None
<1> DEFINE used == {lock[u] : u \in Tasks}
<1>1. /\ IsFiniteSet(used) /\ Cardinality(used) \in Nat
      /\ Cardinality(used) <= Cardinality(Tasks)
      /\ Cardinality(Tasks) \in Nat
  BY FewReferred
<1>2. /\ Cardinality(Locks \cup {None}) = Cardinality(Locks) + 1
      /\ Cardinality(Locks) \in Nat
  BY FS_AddElement, FS_CardinalityType, PoolAssumption
<1>3. None \in used
  OBVIOUS
<1>4. \E l \in Locks : l \notin used
  <2>1. SUFFICES ASSUME Locks \subseteq used PROVE FALSE
    OBVIOUS
  <2>2. Locks \cup {None} \subseteq used
    BY <1>3, <2>1
  <2> HIDE DEF used
  <2>3. Cardinality(Locks \cup {None}) <= Cardinality(used)
    BY <1>1, <2>2, FS_Subset
  <2> QED BY <1>1, <1>2, <2>3, PoolAssumption
<1>5. PICK l \in Locks : l \notin used
  BY <1>4
<1>6. StrongCount(l) = 0
  <2>1. {u \in Tasks : lock[u] = l} = {}
    BY <1>5
  <2>2. lockEntry # l
    BY PoolAssumption
  <2> QED BY <2>1, <2>2, FS_EmptySet DEF StrongCount
<1>7. NewLock \in Locks
  BY <1>6 DEF NewLock
<1> QED BY <1>7, PoolAssumption

------------------------------------------------------------------------------
(* Types, and what operations hold *)

\* A step of t that leaves it with what its new place says.
LEMMA Step ==
    ASSUME TypeOK, Holding, NEW t \in Tasks, NEW step \in Steps, Goto(t, step),
           pooled' \in Conns \cup {None}, alive' \subseteq Conns, fresh' \subseteq Conns,
           lockEntry' \in Locks \cup {None}, calm' \in BOOLEAN,
           conn' \in [Tasks -> Conns \cup {None}],
           lock' \in [Tasks -> Locks \cup {None}],
           redialed' \subseteq Tasks,
           refused' \in [Tasks -> Conns \cup {None}],
           \A u \in Tasks \ {t} :
              /\ conn'[u] = conn[u] /\ lock'[u] = lock[u]
              /\ refused'[u] = refused[u],
           conn'[t] = None <=> step \in Unconnected,
           lock'[t] = None
              <=> step \in Unguarded \/ (step \in Connecting /\ refused'[t] # None),
           refused'[t] # None => step \in Connecting \cup {"permit", "open"}
    PROVE  TypeOK' /\ Holding'
<1>1. /\ pc' \in [Tasks -> Steps] /\ waiters' \in Seq(Tasks)
      /\ pc'[t] = step /\ \A u \in Tasks \ {t} : pc'[u] = pc[u]
  BY Went DEF TypeOK
<1>2. ASSUME NEW u \in Tasks
      PROVE  /\ conn'[u] = None <=> pc'[u] \in Unconnected
             /\ lock'[u] = None
                   <=> pc'[u] \in Unguarded \/ (pc'[u] \in Connecting /\ refused'[u] # None)
             /\ refused'[u] # None => pc'[u] \in Connecting \cup {"permit", "open"}
  <2>1. CASE u = t
    BY <2>1, <1>1
  <2>2. CASE u # t
    BY <2>2, <1>1 DEF Holding, Retrying, Retrying
  <2> QED BY <2>1, <2>2
<1>3. Holding'
  BY <1>2 DEF Holding, Retrying, Retrying
<1>4. \A u \in Tasks :
         pc'[u] = "idle" => {conn'[u], refused'[u], lock'[u]} = {None}
  BY <1>2 DEF Unconnected, Unguarded, Connecting
<1> QED BY <1>1, <1>3, <1>4 DEF TypeOK

LEMMA KeptTypes ==
    ASSUME NEW open, NEW warm, Keep(open, warm), pooled' \in Conns \cup {None},
           conn' \in [Tasks -> Conns \cup {None}],
           refused' \in [Tasks -> Conns \cup {None}]
    PROVE  alive' \subseteq Conns /\ fresh' \subseteq Conns
<1>1. Referenced' \subseteq Conns
  BY DEF Referenced
<1> QED BY <1>1 DEF Keep

\* The end of an operation.
LEMMA Finished ==
    ASSUME TypeOK, Holding, NEW t \in Tasks, NEW warm, Finish(t, warm),
           pooled' \in Conns \cup {None}, lockEntry' \in Locks \cup {None},
           calm' \in BOOLEAN
    PROVE  TypeOK' /\ Holding'
<1>1. /\ conn' = [conn EXCEPT ![t] = None] /\ lock' = [lock EXCEPT ![t] = None]
      /\ redialed' = redialed \ {t} /\ refused' = [refused EXCEPT ![t] = None]
      /\ Goto(t, "idle") /\ Keep(alive, warm)
  BY DEF Finish
<1>2. /\ conn' \in [Tasks -> Conns \cup {None}] /\ lock' \in [Tasks -> Locks \cup {None}]
      /\ redialed' \subseteq Tasks /\ refused' \in [Tasks -> Conns \cup {None}]
      /\ conn'[t] = None /\ lock'[t] = None /\ refused'[t] = None
      /\ \A u \in Tasks \ {t} :
            /\ conn'[u] = conn[u] /\ lock'[u] = lock[u]
            /\ refused'[u] = refused[u]
  BY <1>1 DEF TypeOK
<1>3. alive' \subseteq Conns /\ fresh' \subseteq Conns
  BY <1>1, <1>2, KeptTypes
<1>4. "idle" \in Steps /\ "idle" \in Unconnected /\ "idle" \in Unguarded
  BY DEF Steps, Unconnected, Unguarded
<1> QED BY <1>1, <1>2, <1>3, <1>4, Step

LEMMA NextTyped ==
    ASSUME TypeOK, Holding, [Next]_vars
    PROVE  TypeOK' /\ Holding'
<1>1. ASSUME NEW t \in Tasks, Begin(t) PROVE TypeOK' /\ Holding'
  <2>1. Goto(t, "lookup") /\ "lookup" \in Steps
    BY <1>1 DEF Begin, Steps
  <2> QED
    BY <1>1, <2>1, Step
    DEF Begin, entry, TypeOK, Holding, Retrying, Unconnected, Unguarded, Connecting
<1>2. ASSUME NEW t \in Tasks, LookupMiss(t) PROVE TypeOK' /\ Holding'
  <2>1. Goto(t, "entry") /\ "entry" \in Steps
    BY <1>2 DEF LookupMiss, Steps
  <2> QED
    BY <1>2, <2>1, Step
    DEF LookupMiss, entry, TypeOK, Holding, Retrying, Unconnected, Unguarded, Connecting
<1>3. ASSUME NEW t \in Tasks, AcquireLock(t) PROVE TypeOK' /\ Holding'
  <2>1. Goto(t, "recheck") /\ "recheck" \in Steps
    BY <1>3 DEF AcquireLock, Steps
  <2> QED
    BY <1>3, <2>1, Step
    DEF AcquireLock, entry, TypeOK, Holding, Retrying, Unconnected, Unguarded, Connecting
<1>4. ASSUME NEW t \in Tasks, RecheckMiss(t) PROVE TypeOK' /\ Holding'
  <2>1. Goto(t, "dial") /\ "dial" \in Steps
    BY <1>4 DEF RecheckMiss, Steps
  <2> QED
    BY <1>4, <2>1, Step
    DEF RecheckMiss, entry, TypeOK, Holding, Retrying, Unconnected, Unguarded, Connecting
<1>5. ASSUME NEW t \in Tasks, DialTimeout(t) PROVE TypeOK' /\ Holding'
  <2>1. Goto(t, "backoff") /\ "backoff" \in Steps
    BY <1>5 DEF DialTimeout, Steps
  <2> QED
    BY <1>5, <2>1, Step
    DEF DialTimeout, entry, TypeOK, Holding, Retrying, Unconnected, Unguarded, Connecting
<1>6. ASSUME NEW t \in Tasks, Redial(t) PROVE TypeOK' /\ Holding'
  <2>1. Goto(t, "dial") /\ "dial" \in Steps
    BY <1>6 DEF Redial, Steps
  <2> QED
    BY <1>6, <2>1, Step
    DEF Redial, entry, TypeOK, Holding, Retrying, Unconnected, Unguarded, Connecting
<1>7. ASSUME NEW t \in Tasks, CountLast(t) PROVE TypeOK' /\ Holding'
  <2>1. Goto(t, "unmap") /\ "unmap" \in Steps
    BY <1>7 DEF CountLast, Steps
  <2> QED
    BY <1>7, <2>1, Step
    DEF CountLast, entry, TypeOK, Holding, Retrying, Unconnected, Unguarded, Connecting
<1>8. ASSUME NEW t \in Tasks, AcquirePermit(t) PROVE TypeOK' /\ Holding'
  <2>1. Goto(t, "open") /\ "open" \in Steps
    BY <1>8 DEF AcquirePermit, Steps
  <2> QED
    BY <1>8, <2>1, Step
    DEF AcquirePermit, entry, TypeOK, Holding, Retrying, Unconnected, Unguarded, Connecting
<1>9. ASSUME NEW t \in Tasks, LookupHit(t) PROVE TypeOK' /\ Holding'
  <2>1. Goto(t, "permit") /\ "permit" \in Steps
    BY <1>9 DEF LookupHit, Steps
  <2> QED
    BY <1>9, <2>1, Step
    DEF LookupHit, Cached, entry, TypeOK, Holding, Retrying, Unconnected, Unguarded, Connecting
<1>10. ASSUME NEW t \in Tasks, RecheckHit(t) PROVE TypeOK' /\ Holding'
  <2>1. Goto(t, "permit") /\ "permit" \in Steps
    BY <1>10 DEF RecheckHit, Steps
  <2> QED
    BY <1>10, <2>1, Step
    DEF RecheckHit, Cached, entry, TypeOK, Holding, Retrying, Unconnected, Unguarded, Connecting
<1>11. ASSUME NEW t \in Tasks, CountMore(t) PROVE TypeOK' /\ Holding'
  <2>1. Goto(t, "permit") /\ "permit" \in Steps
    BY <1>11 DEF CountMore, Steps
  <2> QED
    BY <1>11, <2>1, Step
    DEF CountMore, Cached, entry, TypeOK, Holding, Retrying, Unconnected, Unguarded, Connecting
<1>12. ASSUME NEW t \in Tasks, Unmap(t) PROVE TypeOK' /\ Holding'
  <2>1. Goto(t, "permit") /\ "permit" \in Steps
    BY <1>12 DEF Unmap, Steps
  <2> QED
    BY <1>12, <2>1, Step
    DEF Unmap, Cached, entry, TypeOK, Holding, Retrying, Unconnected, Unguarded, Connecting
<1>13. ASSUME NEW t \in Tasks, CloneLock(t) PROVE TypeOK' /\ Holding'
  <2>1. Goto(t, "lockwait") /\ "lockwait" \in Steps /\ lock[t] = None
    BY <1>13 DEF CloneLock, Steps, Holding, Retrying, Unguarded
  <2>2. lockEntry' \in Locks
    BY <1>13, <2>1, FreeLock DEF CloneLock, TypeOK
  <2> QED
    BY <1>13, <2>1, <2>2, Step, PoolAssumption
    DEF CloneLock, entry, TypeOK, Holding, Retrying, Unconnected, Unguarded, Connecting
<1>14. ASSUME NEW t \in Tasks, Connected(t) PROVE TypeOK' /\ Holding'
  <2> DEFINE step == IF Retrying(t) THEN "permit" ELSE "count"
  <2>1. Goto(t, step) /\ step \in Steps /\ conn[t] = None
    BY <1>14 DEF Connected, Steps, Holding, Retrying, Unconnected
  <2>2. NewConn \in Conns /\ NewConn # None
    BY <2>1, FreeConn DEF TypeOK
  <2>3. pooled' \in Conns /\ conn' \in [Tasks -> Conns \cup {None}] /\ conn'[t] # None
    BY <1>14, <2>2 DEF Connected, TypeOK
  <2>4. alive' \subseteq Conns /\ fresh' \subseteq Conns
    BY <1>14, <2>3, KeptTypes DEF Connected, TypeOK
  <2> QED
    BY <1>14, <2>1, <2>3, <2>4, Step
    DEF Connected, TypeOK, Holding, Retrying, Unconnected, Unguarded, Connecting
<1>15. ASSUME NEW t \in Tasks, DialFails(t) PROVE TypeOK' /\ Holding'
  BY <1>15, Finished DEF DialFails, TypeOK
<1>16. ASSUME NEW t \in Tasks, ReopenFails(t) PROVE TypeOK' /\ Holding'
  BY <1>16, Finished DEF ReopenFails, TypeOK
<1>17. ASSUME NEW t \in Tasks, OpenTimeout(t) PROVE TypeOK' /\ Holding'
  BY <1>17, Finished DEF OpenTimeout, EvictOwn, TypeOK
<1>18. ASSUME NEW t \in Tasks, EndUse(t) PROVE TypeOK' /\ Holding'
  <2>1. PICK warm \in {fresh, fresh \cup {conn[t]}} : Finish(t, warm)
    BY <1>18 DEF EndUse
  <2> QED
    BY <1>18, <2>1, Finished DEF EndUse, TypeOK
<1>19. ASSUME NEW t \in Tasks, OpenOk(t) PROVE TypeOK' /\ Holding'
  <2>1. Goto(t, "use") /\ "use" \in Steps
    BY <1>19 DEF OpenOk, Steps
  <2>2. alive' \subseteq Conns /\ fresh' \subseteq Conns
    BY <1>19, KeptTypes DEF OpenOk, TypeOK
  <2> QED
    BY <1>19, <2>1, <2>2, Step
    DEF OpenOk, TypeOK, Holding, Retrying, Unconnected, Unguarded, Connecting
<1>20. ASSUME NEW t \in Tasks, OpenFails(t) PROVE TypeOK' /\ Holding'
  <2>1. Goto(t, "dial") /\ "dial" \in Steps
    BY <1>20 DEF OpenFails, Steps
  <2>2. pooled' \in Conns \cup {None} /\ conn' \in [Tasks -> Conns \cup {None}]
    BY <1>20 DEF OpenFails, EvictOwn, TypeOK
  <2>3. alive' \subseteq Conns /\ fresh' \subseteq Conns
    BY <1>20, <2>2, KeptTypes DEF OpenFails, TypeOK
  <2> QED
    BY <1>20, <2>1, <2>2, <2>3, Step
    DEF OpenFails, TypeOK, Holding, Retrying, Unconnected, Unguarded, Connecting
<1>21. CASE Reap
  <2>1. alive' \subseteq Conns /\ fresh' \subseteq Conns
    BY <1>21, KeptTypes DEF Reap, TypeOK
  <2> QED BY <1>21, <2>1 DEF Reap, place, TypeOK, Holding, Retrying
<1>22. ASSUME NEW c \in Conns, Expire(c) PROVE TypeOK' /\ Holding'
  BY <1>22 DEF Expire, place, TypeOK, Holding, Retrying
<1>23. ASSUME NEW c \in Conns, Break(c) PROVE TypeOK' /\ Holding'
  BY <1>23 DEF Break, place, TypeOK, Holding, Retrying
<1>24. CASE UNCHANGED vars
  BY <1>24 DEF vars, entry, place, TypeOK, Holding, Retrying
<1> QED
  BY <1>1, <1>2, <1>3, <1>4, <1>5, <1>6, <1>7, <1>8, <1>9, <1>10, <1>11, <1>12, <1>13, <1>14, <1>15, <1>16, <1>17, <1>18, <1>19, <1>20, <1>21, <1>22, <1>23, <1>24 DEF Next, Operation

------------------------------------------------------------------------------
(* The permits of a connection *)

InChannel(t) == pc[t] \in {"open", "use"}

\* A step on which no channel is opened.
LEMMA NoMoreChannels ==
    ASSUME PermitsKept,
           \A u \in Tasks : InChannel(u)' => InChannel(u) /\ conn'[u] = conn[u]
    PROVE  PermitsKept'
<1> SUFFICES ASSUME NEW c \in Conns PROVE Cardinality(Channels(c)') <= MaxChannels
  BY DEF PermitsKept
<1>1. Channels(c)' \subseteq Channels(c)
  BY DEF Channels, InChannel
<1>2. IsFiniteSet(Channels(c))
  BY FS_Subset, PoolAssumption DEF Channels
<1>3. /\ Cardinality(Channels(c)') <= Cardinality(Channels(c))
      /\ Cardinality(Channels(c)') \in Nat /\ Cardinality(Channels(c)) \in Nat
  BY <1>1, <1>2, FS_Subset, FS_CardinalityType
<1>4. Cardinality(Channels(c)) <= MaxChannels
  BY DEF PermitsKept
<1> QED BY <1>3, <1>4, PoolAssumption

LEMMA PermitTaken ==
    ASSUME TypeOK, PermitsKept, NEW t \in Tasks, AcquirePermit(t)
    PROVE  PermitsKept'
<1> SUFFICES ASSUME NEW c \in Conns PROVE Cardinality(Channels(c)') <= MaxChannels
  BY DEF PermitsKept
<1>1. /\ pc[t] = "permit" /\ pc'[t] = "open" /\ conn' = conn
      /\ \A u \in Tasks \ {t} : pc'[u] = pc[u]
  BY Went DEF AcquirePermit, TypeOK, Steps
<1>2. IsFiniteSet(Channels(c)) /\ Cardinality(Channels(c)) \in Nat
  BY FS_Subset, FS_CardinalityType, PoolAssumption DEF Channels
<1>3. CASE conn[t] = c
  <2>1. Channels(c)' = Channels(c) \cup {t} /\ t \notin Channels(c)
    BY <1>1, <1>3 DEF Channels
  <2>2. Cardinality(Channels(c)') = Cardinality(Channels(c)) + 1
    BY <1>2, <2>1, FS_AddElement
  <2>3. Cardinality(Channels(c)) < MaxChannels
    BY <1>3 DEF AcquirePermit
  <2> QED BY <1>2, <2>2, <2>3, PoolAssumption
<1>4. CASE conn[t] # c
  <2>1. Channels(c)' = Channels(c)
    BY <1>1, <1>4 DEF Channels
  <2> QED BY <2>1 DEF PermitsKept
<1> QED BY <1>3, <1>4

LEMMA NextPermits ==
    ASSUME TypeOK, Holding, PermitsKept, [Next]_vars
    PROVE  PermitsKept'
<1> USE DEF InChannel
<1>1. ASSUME NEW t \in Tasks, Begin(t) PROVE PermitsKept'
  <2>1. Goto(t, "lookup") /\ "lookup" \in Steps
    BY <1>1 DEF Begin, Steps
  <2> QED
    BY <1>1, <2>1, Went, NoMoreChannels DEF Begin, TypeOK
<1>2. ASSUME NEW t \in Tasks, LookupMiss(t) PROVE PermitsKept'
  <2>1. Goto(t, "entry") /\ "entry" \in Steps
    BY <1>2 DEF LookupMiss, Steps
  <2> QED
    BY <1>2, <2>1, Went, NoMoreChannels DEF LookupMiss, TypeOK
<1>3. ASSUME NEW t \in Tasks, AcquireLock(t) PROVE PermitsKept'
  <2>1. Goto(t, "recheck") /\ "recheck" \in Steps
    BY <1>3 DEF AcquireLock, Steps
  <2> QED
    BY <1>3, <2>1, Went, NoMoreChannels DEF AcquireLock, TypeOK
<1>4. ASSUME NEW t \in Tasks, RecheckMiss(t) PROVE PermitsKept'
  <2>1. Goto(t, "dial") /\ "dial" \in Steps
    BY <1>4 DEF RecheckMiss, Steps
  <2> QED
    BY <1>4, <2>1, Went, NoMoreChannels DEF RecheckMiss, TypeOK
<1>5. ASSUME NEW t \in Tasks, DialTimeout(t) PROVE PermitsKept'
  <2>1. Goto(t, "backoff") /\ "backoff" \in Steps
    BY <1>5 DEF DialTimeout, Steps
  <2> QED
    BY <1>5, <2>1, Went, NoMoreChannels DEF DialTimeout, TypeOK
<1>6. ASSUME NEW t \in Tasks, Redial(t) PROVE PermitsKept'
  <2>1. Goto(t, "dial") /\ "dial" \in Steps
    BY <1>6 DEF Redial, Steps
  <2> QED
    BY <1>6, <2>1, Went, NoMoreChannels DEF Redial, TypeOK
<1>7. ASSUME NEW t \in Tasks, CountLast(t) PROVE PermitsKept'
  <2>1. Goto(t, "unmap") /\ "unmap" \in Steps
    BY <1>7 DEF CountLast, Steps
  <2> QED
    BY <1>7, <2>1, Went, NoMoreChannels DEF CountLast, TypeOK
<1>8. ASSUME NEW t \in Tasks, LookupHit(t) PROVE PermitsKept'
  <2>1. Goto(t, "permit") /\ "permit" \in Steps
    BY <1>8 DEF LookupHit, Steps
  <2> QED
    BY <1>8, <2>1, Went, NoMoreChannels DEF LookupHit, TypeOK
<1>9. ASSUME NEW t \in Tasks, RecheckHit(t) PROVE PermitsKept'
  <2>1. Goto(t, "permit") /\ "permit" \in Steps
    BY <1>9 DEF RecheckHit, Steps
  <2> QED
    BY <1>9, <2>1, Went, NoMoreChannels DEF RecheckHit, TypeOK
<1>10. ASSUME NEW t \in Tasks, CountMore(t) PROVE PermitsKept'
  <2>1. Goto(t, "permit") /\ "permit" \in Steps
    BY <1>10 DEF CountMore, Steps
  <2> QED
    BY <1>10, <2>1, Went, NoMoreChannels DEF CountMore, TypeOK
<1>11. ASSUME NEW t \in Tasks, Unmap(t) PROVE PermitsKept'
  <2>1. Goto(t, "permit") /\ "permit" \in Steps
    BY <1>11 DEF Unmap, Steps
  <2> QED
    BY <1>11, <2>1, Went, NoMoreChannels DEF Unmap, TypeOK
<1>12. ASSUME NEW t \in Tasks, CloneLock(t) PROVE PermitsKept'
  <2>1. Goto(t, "lockwait") /\ "lockwait" \in Steps
    BY <1>12 DEF CloneLock, Steps
  <2> QED
    BY <1>12, <2>1, Went, NoMoreChannels DEF CloneLock, TypeOK
<1>13. ASSUME NEW t \in Tasks, OpenOk(t) PROVE PermitsKept'
  <2>1. Goto(t, "use") /\ "use" \in Steps
    BY <1>13 DEF OpenOk, Steps
  <2> QED
    BY <1>13, <2>1, Went, NoMoreChannels DEF OpenOk, TypeOK
<1>14. ASSUME NEW t \in Tasks, OpenFails(t) PROVE PermitsKept'
  <2>1. Goto(t, "dial") /\ "dial" \in Steps
    BY <1>14 DEF OpenFails, Steps
  <2> QED
    BY <1>14, <2>1, Went, NoMoreChannels DEF OpenFails, TypeOK
<1>15. ASSUME NEW t \in Tasks, DialFails(t) PROVE PermitsKept'
  <2>1. Goto(t, "idle") /\ "idle" \in Steps
    BY <1>15 DEF DialFails, Finish, Steps
  <2> QED
    BY <1>15, <2>1, Went, NoMoreChannels DEF DialFails, Finish, TypeOK
<1>16. ASSUME NEW t \in Tasks, ReopenFails(t) PROVE PermitsKept'
  <2>1. Goto(t, "idle") /\ "idle" \in Steps
    BY <1>16 DEF ReopenFails, Finish, Steps
  <2> QED
    BY <1>16, <2>1, Went, NoMoreChannels DEF ReopenFails, Finish, TypeOK
<1>17. ASSUME NEW t \in Tasks, OpenTimeout(t) PROVE PermitsKept'
  <2>1. Goto(t, "idle") /\ "idle" \in Steps
    BY <1>17 DEF OpenTimeout, Finish, Steps
  <2> QED
    BY <1>17, <2>1, Went, NoMoreChannels DEF OpenTimeout, Finish, TypeOK
<1>18. ASSUME NEW t \in Tasks, EndUse(t) PROVE PermitsKept'
  <2>1. Goto(t, "idle") /\ "idle" \in Steps
    BY <1>18 DEF EndUse, Finish, Steps
  <2> QED
    BY <1>18, <2>1, Went, NoMoreChannels DEF EndUse, Finish, TypeOK
<1>19. ASSUME NEW t \in Tasks, Connected(t) PROVE PermitsKept'
  <2> DEFINE step == IF Retrying(t) THEN "permit" ELSE "count"
  <2>1. Goto(t, step) /\ step \in Steps /\ step \notin {"open", "use"}
    BY <1>19 DEF Connected, Steps
  <2> HIDE DEF step
  <2> QED
    BY <1>19, <2>1, Went, NoMoreChannels DEF Connected, TypeOK
<1>20. CASE Reap
  BY <1>20, NoMoreChannels DEF Reap, place
<1>21. ASSUME NEW c \in Conns, Expire(c) PROVE PermitsKept'
  BY <1>21, NoMoreChannels DEF Expire, place
<1>22. ASSUME NEW c \in Conns, Break(c) PROVE PermitsKept'
  BY <1>22, NoMoreChannels DEF Break, place
<1>23. CASE UNCHANGED vars
  BY <1>23, NoMoreChannels DEF vars, place
<1> QED
  BY <1>1, <1>2, <1>3, <1>4, <1>5, <1>6, <1>7, <1>8, <1>9, <1>10, <1>11, <1>12, <1>13, <1>14, <1>15, <1>16, <1>17, <1>18, <1>19, <1>20, <1>21, <1>22, <1>23, PermitTaken DEF Next, Operation

------------------------------------------------------------------------------
(* While nothing has broken *)

LEMMA NextCalm ==
    ASSUME TypeOK, Holding, Calm, [Next]_vars
    PROVE  Calm'
<1> USE DEF Unconnected, Unguarded, Connecting
<1>1. ASSUME NEW t \in Tasks, Begin(t) PROVE Calm'
  <2>1. Goto(t, "lookup") /\ "lookup" \in Steps
    BY <1>1 DEF Begin, Steps
  <2>2. pc'[t] = "lookup" /\ \A u \in Tasks \ {t} : pc'[u] = pc[u]
    BY <2>1, Went DEF TypeOK
  <2> QED
    BY <1>1, <2>2, PoolAssumption
    DEF Begin, entry, TypeOK, Holding, Retrying, Calm, Cold, Warm, HoldsGuard
<1>2. ASSUME NEW t \in Tasks, LookupMiss(t) PROVE Calm'
  <2>1. Goto(t, "entry") /\ "entry" \in Steps
    BY <1>2 DEF LookupMiss, Steps
  <2>2. pc'[t] = "entry" /\ \A u \in Tasks \ {t} : pc'[u] = pc[u]
    BY <2>1, Went DEF TypeOK
  <2> QED
    BY <1>2, <2>2, PoolAssumption
    DEF LookupMiss, Cached, entry, TypeOK, Holding, Retrying, Calm, Cold, Warm, HoldsGuard
<1>3. ASSUME NEW t \in Tasks, AcquireLock(t) PROVE Calm'
  <2>1. Goto(t, "recheck") /\ "recheck" \in Steps
    BY <1>3 DEF AcquireLock, Steps
  <2>2. pc'[t] = "recheck" /\ \A u \in Tasks \ {t} : pc'[u] = pc[u]
    BY <2>1, Went DEF TypeOK
  <2> QED
    BY <1>3, <2>2, PoolAssumption
    DEF AcquireLock, entry, TypeOK, Holding, Retrying, Calm, Cold, Warm, HoldsGuard
<1>4. ASSUME NEW t \in Tasks, RecheckMiss(t) PROVE Calm'
  <2>1. Goto(t, "dial") /\ "dial" \in Steps
    BY <1>4 DEF RecheckMiss, Steps
  <2>2. pc'[t] = "dial" /\ \A u \in Tasks \ {t} : pc'[u] = pc[u]
    BY <2>1, Went DEF TypeOK
  <2> QED
    BY <1>4, <2>2, PoolAssumption
    DEF RecheckMiss, Cached, entry, TypeOK, Holding, Retrying, Calm, Cold, Warm, HoldsGuard
<1>5. ASSUME NEW t \in Tasks, DialTimeout(t) PROVE Calm'
  <2>1. Goto(t, "backoff") /\ "backoff" \in Steps
    BY <1>5 DEF DialTimeout, Steps
  <2>2. pc'[t] = "backoff" /\ \A u \in Tasks \ {t} : pc'[u] = pc[u]
    BY <2>1, Went DEF TypeOK
  <2> QED
    BY <1>5, <2>2, PoolAssumption
    DEF DialTimeout, entry, TypeOK, Holding, Retrying, Calm, Cold, Warm, HoldsGuard
<1>6. ASSUME NEW t \in Tasks, Redial(t) PROVE Calm'
  <2>1. Goto(t, "dial") /\ "dial" \in Steps
    BY <1>6 DEF Redial, Steps
  <2>2. pc'[t] = "dial" /\ \A u \in Tasks \ {t} : pc'[u] = pc[u]
    BY <2>1, Went DEF TypeOK
  <2> QED
    BY <1>6, <2>2, PoolAssumption
    DEF Redial, entry, TypeOK, Holding, Retrying, Calm, Cold, Warm, HoldsGuard
<1>7. ASSUME NEW t \in Tasks, CountLast(t) PROVE Calm'
  <2>1. Goto(t, "unmap") /\ "unmap" \in Steps
    BY <1>7 DEF CountLast, Steps
  <2>2. pc'[t] = "unmap" /\ \A u \in Tasks \ {t} : pc'[u] = pc[u]
    BY <2>1, Went DEF TypeOK
  <2> QED
    BY <1>7, <2>2, PoolAssumption
    DEF CountLast, entry, TypeOK, Holding, Retrying, Calm, Cold, Warm, HoldsGuard
<1>8. ASSUME NEW t \in Tasks, CountMore(t) PROVE Calm'
  <2>1. Goto(t, "permit") /\ "permit" \in Steps
    BY <1>8 DEF CountMore, Steps
  <2>2. pc'[t] = "permit" /\ \A u \in Tasks \ {t} : pc'[u] = pc[u]
    BY <2>1, Went DEF TypeOK
  <2> QED
    BY <1>8, <2>2, PoolAssumption
    DEF CountMore, entry, TypeOK, Holding, Retrying, Calm, Cold, Warm, HoldsGuard
<1>9. ASSUME NEW t \in Tasks, Unmap(t) PROVE Calm'
  <2>1. Goto(t, "permit") /\ "permit" \in Steps
    BY <1>9 DEF Unmap, Steps
  <2>2. pc'[t] = "permit" /\ \A u \in Tasks \ {t} : pc'[u] = pc[u]
    BY <2>1, Went DEF TypeOK
  <2> QED
    BY <1>9, <2>2, PoolAssumption
    DEF Unmap, entry, TypeOK, Holding, Retrying, Calm, Cold, Warm, HoldsGuard
<1>10. ASSUME NEW t \in Tasks, LookupHit(t) PROVE Calm'
  <2>1. Goto(t, "permit") /\ "permit" \in Steps
    BY <1>10 DEF LookupHit, Steps
  <2>2. pc'[t] = "permit" /\ \A u \in Tasks \ {t} : pc'[u] = pc[u]
    BY <2>1, Went DEF TypeOK
  <2> QED
    BY <1>10, <2>2, PoolAssumption
    DEF LookupHit, Cached, entry, TypeOK, Holding, Retrying, Calm, Cold, Warm, HoldsGuard
<1>11. ASSUME NEW t \in Tasks, RecheckHit(t) PROVE Calm'
  <2>1. Goto(t, "permit") /\ "permit" \in Steps
    BY <1>11 DEF RecheckHit, Steps
  <2>2. pc'[t] = "permit" /\ \A u \in Tasks \ {t} : pc'[u] = pc[u]
    BY <2>1, Went DEF TypeOK
  <2> QED
    BY <1>11, <2>2, PoolAssumption
    DEF RecheckHit, Cached, entry, TypeOK, Holding, Retrying, Calm, Cold, Warm, HoldsGuard
<1>12. ASSUME NEW t \in Tasks, CloneLock(t) PROVE Calm'
  <2>1. Goto(t, "lockwait") /\ "lockwait" \in Steps
    BY <1>12 DEF CloneLock, Steps
  <2>2. pc'[t] = "lockwait" /\ \A u \in Tasks \ {t} : pc'[u] = pc[u]
    BY <2>1, Went DEF TypeOK
  <2> QED
    BY <1>12, <2>2, PoolAssumption
    DEF CloneLock, entry, TypeOK, Holding, Retrying, Calm, Cold, Warm, HoldsGuard
<1>13. ASSUME NEW t \in Tasks, OpenOk(t) PROVE Calm'
  <2>1. Goto(t, "use") /\ "use" \in Steps
    BY <1>13 DEF OpenOk, Steps
  <2>2. pc[t] = "open" /\ pc'[t] = "use" /\ \A u \in Tasks \ {t} : pc'[u] = pc[u]
    BY <1>13, <2>1, Went DEF OpenOk, TypeOK
  <2>3. /\ UNCHANGED <<pooled, conn, lock, redialed, calm>>
        /\ refused' = [refused EXCEPT ![t] = None]
        /\ alive' = alive \cap Referenced'
        /\ fresh \cap ({pooled'} \ {None}) \subseteq fresh'
    BY <1>13 DEF OpenOk, Keep
  <2>4. pooled # None => pooled \in Referenced'
    BY <2>3 DEF Referenced
  <2> QED
    BY <2>2, <2>3, <2>4 DEF TypeOK, Holding, Retrying, Calm, Cold, Warm, HoldsGuard
<1>14. ASSUME NEW t \in Tasks, Connected(t) PROVE Calm'
  <2> SUFFICES ASSUME calm PROVE Calm'
    BY <1>14 DEF Connected, Calm
  <2>1. pooled = None /\ Cold /\ ~Retrying(t) /\ pc[t] = "dial" /\ conn[t] = None
    BY <1>14 DEF Connected, Calm, Warm, Holding
  <2>2. NewConn \in Conns /\ NewConn # None
    BY <2>1, FreeConn DEF TypeOK
  <2>3. pc'[t] = "count" /\ \A u \in Tasks \ {t} : pc'[u] = pc[u]
    BY <1>14, <2>1, Went DEF Connected, TypeOK, Steps
  <2>4. \A u \in Tasks \ {t} : pc[u] \notin Connecting /\ conn[u] = None
    BY <1>14, <2>1 DEF Connected, Cold, HoldsGuard, Calm, Holding
  <2>5. conn'[t] = NewConn /\ \A u \in Tasks \ {t} : conn'[u] = None
    BY <1>14, <2>4 DEF Connected, TypeOK
  <2>6. Referenced' = {NewConn}
    <3>1. \A u \in Tasks : refused'[u] = None
      BY <1>14, <2>1 DEF Connected, Calm, Retrying
    <3> QED BY <1>14, <2>2, <2>5, <3>1, PoolAssumption DEF Connected, Referenced
  <2>7. alive' = {NewConn} /\ NewConn \in fresh' /\ pooled' = NewConn
    BY <1>14, <2>2, <2>6 DEF Connected, Keep
  <2>8. Warm'
    BY <2>3, <2>4, <2>5, <2>7 DEF Warm
  <2> QED BY <1>14, <2>2, <2>7, <2>8 DEF Connected, Calm, Retrying
<1>15. ASSUME NEW t \in Tasks, DialFails(t) PROVE Calm'
  <2>1. /\ Goto(t, "idle") /\ "idle" \in Steps
        /\ conn' = [conn EXCEPT ![t] = None] /\ lock' = [lock EXCEPT ![t] = None]
        /\ refused' = [refused EXCEPT ![t] = None] /\ UNCHANGED <<pooled, lockEntry, calm>>
        /\ alive' = alive \cap Referenced'
        /\ fresh \cap ({pooled'} \ {None}) \subseteq fresh'
    BY <1>15 DEF DialFails, Finish, Keep, Steps
  <2>2. pc'[t] = "idle" /\ \A u \in Tasks \ {t} : pc'[u] = pc[u]
    BY <2>1, Went DEF TypeOK
  <2>3. pooled # None => pooled \in Referenced'
    BY <2>1 DEF Referenced
  <2> QED
    BY <2>1, <2>2, <2>3 DEF TypeOK, Holding, Retrying, Calm, Cold, Warm, HoldsGuard
<1>16. ASSUME NEW t \in Tasks, ReopenFails(t) PROVE Calm'
  <2>1. /\ Goto(t, "idle") /\ "idle" \in Steps
        /\ conn' = [conn EXCEPT ![t] = None] /\ lock' = [lock EXCEPT ![t] = None]
        /\ refused' = [refused EXCEPT ![t] = None] /\ UNCHANGED <<pooled, lockEntry, calm>>
        /\ alive' = alive \cap Referenced'
        /\ fresh \cap ({pooled'} \ {None}) \subseteq fresh'
    BY <1>16 DEF ReopenFails, Finish, Keep, Steps
  <2>2. pc'[t] = "idle" /\ \A u \in Tasks \ {t} : pc'[u] = pc[u]
    BY <2>1, Went DEF TypeOK
  <2>3. pooled # None => pooled \in Referenced'
    BY <2>1 DEF Referenced
  <2> QED
    BY <2>1, <2>2, <2>3 DEF TypeOK, Holding, Retrying, Calm, Cold, Warm, HoldsGuard
<1>17. ASSUME NEW t \in Tasks, EndUse(t) PROVE Calm'
  <2>1. /\ Goto(t, "idle") /\ "idle" \in Steps
        /\ conn' = [conn EXCEPT ![t] = None] /\ lock' = [lock EXCEPT ![t] = None]
        /\ refused' = [refused EXCEPT ![t] = None] /\ UNCHANGED <<pooled, lockEntry, calm>>
        /\ alive' = alive \cap Referenced'
        /\ fresh \cap ({pooled'} \ {None}) \subseteq fresh'
    BY <1>17 DEF EndUse, Finish, Keep, Steps
  <2>2. pc'[t] = "idle" /\ \A u \in Tasks \ {t} : pc'[u] = pc[u]
    BY <2>1, Went DEF TypeOK
  <2>3. pooled # None => pooled \in Referenced'
    BY <2>1 DEF Referenced
  <2> QED
    BY <2>1, <2>2, <2>3 DEF TypeOK, Holding, Retrying, Calm, Cold, Warm, HoldsGuard
<1>18. ASSUME NEW t \in Tasks, OpenFails(t) PROVE Calm'
  BY <1>18 DEF OpenFails, Calm
<1>19. ASSUME NEW t \in Tasks, OpenTimeout(t) PROVE Calm'
  BY <1>19 DEF OpenTimeout, Calm
<1>20. CASE Reap
  <2>1. ~calm
    BY <1>20 DEF Reap, Calm, Warm
  <2> QED BY <1>20, <2>1 DEF Reap, Calm
<1>21. ASSUME NEW c \in Conns, Expire(c) PROVE Calm'
  BY <1>21 DEF Expire, Calm
<1>22. ASSUME NEW c \in Conns, Break(c) PROVE Calm'
  BY <1>22 DEF Break, Calm
<1>23. ASSUME NEW t \in Tasks, AcquirePermit(t) PROVE Calm'
  <2>1. pc[t] = "permit" /\ pc'[t] = "open" /\ \A u \in Tasks \ {t} : pc'[u] = pc[u]
    BY <1>23, Went DEF AcquirePermit, TypeOK, Steps
  <2> QED
    BY <1>23, <2>1 DEF AcquirePermit, entry, TypeOK, Holding, Retrying, Calm, Cold, Warm, HoldsGuard
<1>24. CASE UNCHANGED vars
  BY <1>24 DEF vars, entry, place, Calm, Cold, Warm, HoldsGuard, Retrying
<1> QED
  BY <1>1, <1>2, <1>3, <1>4, <1>5, <1>6, <1>7, <1>8, <1>9, <1>10, <1>11, <1>12, <1>13, <1>14, <1>15, <1>16, <1>17, <1>18, <1>19, <1>20, <1>21, <1>22, <1>23, <1>24 DEF Next, Operation

------------------------------------------------------------------------------
(* Theorems *)

\* What operations hold, how many permits are out and what is left to do while
\* nothing has broken, however many operations run side by side.
THEOREM Invariant == Spec => []IInv
<1>1. Init => IInv
  <2>1. Init => TypeOK /\ Holding /\ Calm
    BY PoolAssumption
    DEF Init, TypeOK, Steps, Holding, Retrying, Unconnected, Unguarded, Connecting, Calm,
        Cold, HoldsGuard
  <2>2. Init => PermitsKept
    <3>1. Init => \A c \in Conns : Channels(c) = {}
      BY DEF Init, Channels
    <3>2. \A c \in Conns : Init => Cardinality(Channels(c)) = 0
      BY <3>1, FS_EmptySet
    <3> QED BY <3>2, PoolAssumption DEF PermitsKept
  <2> QED BY <2>1, <2>2 DEF IInv
<1>2. IInv /\ [Next]_vars => IInv'
  BY NextTyped, NextPermits, NextCalm DEF IInv
<1> QED BY <1>1, <1>2, PTL DEF Spec

\* Every variable of SshPool keeps its type, and an operation that has ended
\* holds neither a connection nor a mutex.
THEOREM TypeCorrect == Spec => []TypeOK
BY Invariant, PTL DEF IInv

\* Of any number of operations on a cold host one connects, and the others get
\* its connection, until something breaks.
THEOREM SingleFlight == Spec => []SingleFlightWhenCalm
<1>1. IInv => SingleFlightWhenCalm
  <2> SUFFICES ASSUME IInv, calm
               PROVE  /\ Cardinality(alive) <= 1
                      /\ pooled # None =>
                           \A t \in Tasks : pc[t] \notin Connecting
    BY DEF SingleFlightWhenCalm, Connecting
  <2>1. pooled = None => Cold
    BY DEF IInv, Calm
  <2>2. pooled # None => Warm
    BY DEF IInv, Calm
  <2>3. CASE pooled = None
    <3>1. Cardinality(alive) = 0
      BY <2>1, <2>3, FS_EmptySet DEF Cold
    <3> QED BY <2>3, <3>1
  <2>4. CASE pooled # None
    <3>1. Cardinality(alive) = 1
      BY <2>2, <2>4, FS_Singleton DEF Warm
    <3> QED BY <2>2, <2>4, <3>1 DEF Warm
  <2> QED BY <2>3, <2>4
<1> QED BY <1>1, Invariant, PTL

\* The operations that have a channel of the host are never more than its
\* permits, until something breaks.
THEOREM ChannelCap == Spec => []ChannelCapWhenCalm
<1>1. IInv => ChannelCapWhenCalm
  <2> SUFFICES ASSUME IInv, calm
               PROVE  Cardinality({t \in Tasks : InChannel(t)}) <= MaxChannels
    BY DEF ChannelCapWhenCalm, InChannel
  <2>1. CASE pooled = None
    <3>1. {t \in Tasks : InChannel(t)} = {}
      BY <2>1 DEF IInv, Calm, Cold, InChannel, Unconnected
    <3> QED BY <3>1, FS_EmptySet, PoolAssumption
  <2>2. CASE pooled # None
    <3>1. pooled \in Conns
      BY <2>2 DEF IInv, TypeOK
    <3>2. {t \in Tasks : InChannel(t)} = Channels(pooled)
      BY <2>2 DEF IInv, Calm, Warm, Holding, Retrying, Channels, InChannel, Unconnected
    <3> QED BY <3>1, <3>2 DEF IInv, PermitsKept
  <2> QED BY <2>1, <2>2
<1> QED BY <1>1, Invariant, PTL

\* No operation and no reaper takes a connection that works out of the pool,
\* but one whose own open on it was refused or timed out.
THEOREM NoForeignEviction == Spec => HealthyNotEvicted
<1> DEFINE Evicted == pooled \in alive \cap fresh /\ pooled' = None
           ByItsUser == \E t \in Tasks :
                          conn[t] = pooled /\ (OpenFails(t) \/ OpenTimeout(t))
<1>1. IInv /\ [Next]_vars => [Evicted => ByItsUser]_vars
  <2> SUFFICES ASSUME TypeOK, Holding, [Next]_vars, Evicted PROVE ByItsUser
    BY DEF IInv
  <2>1. pooled # None /\ pooled \in alive /\ pooled \in fresh /\ pooled' # pooled
    BY PoolAssumption DEF TypeOK
  <2>2. ASSUME NEW t \in Tasks, Operation(t) \/ Begin(t) PROVE ByItsUser
    <3>1. Connected(t) => pooled' # None
      BY FreeConn DEF Connected, TypeOK, Holding, Retrying, Unconnected
    <3>2. CASE OpenFails(t)
      BY <2>1, <3>2 DEF OpenFails, EvictOwn
    <3>3. CASE OpenTimeout(t)
      BY <2>1, <3>3 DEF OpenTimeout, EvictOwn
    <3>4. CASE pooled' = pooled
      BY <2>1, <3>4
    <3> QED
      BY <2>2, <3>1, <3>2, <3>3, <3>4
      DEF Operation, Begin, LookupHit, LookupMiss, CloneLock, AcquireLock, RecheckHit,
          RecheckMiss, DialTimeout, Redial, DialFails, CountLast, CountMore, Unmap,
          AcquirePermit, OpenOk, ReopenFails, EndUse, entry
  <2>3. ~Reap
    BY <2>1 DEF Reap
  <2>4. ASSUME NEW c \in Conns, Expire(c) \/ Break(c) PROVE FALSE
    BY <2>1, <2>4 DEF Expire, Break
  <2>5. ~UNCHANGED vars
    BY <2>1 DEF vars, entry
  <2> QED BY <2>2, <2>3, <2>4, <2>5 DEF Next
<1> QED BY <1>1, Invariant, PTL DEF Spec, HealthyNotEvicted
=============================================================================
