------------------------------ MODULE SshPool ------------------------------
(***************************************************************************)
(* The connection pool of src/src/ssh.rs, seen by the operations on one    *)
(* host.  Everything the pool keeps is keyed by addr:port and the reaper   *)
(* treats each entry alone, so hosts do not interact.                      *)
(*                                                                         *)
(* An operation (exec or an SFTP call) looks the pool up, connects under   *)
(* the per-host lock when it finds nothing warm, takes a channel permit of *)
(* the connection it got, opens a channel and uses it.  If the channel     *)
(* cannot be opened it evicts the connection and connects once more, this  *)
(* time without the per-host lock.  Operations hold the connection by      *)
(* reference: evicting it from the pool closes it only when nobody uses it.*)
(* An operation that reconnects references the connection it gave up until *)
(* its second attempt has ended.                                           *)
(***************************************************************************)
EXTENDS Naturals, Sequences, FiniteSets, SequencesExt

CONSTANTS
    Tasks,        \* concurrent operations on the host
    Conns,        \* identities for connections: one is free when unreferenced
    Locks,        \* identities for the mutexes of connect_locks
    None,         \* absence of a connection or of a mutex
    MaxChannels   \* MAX_CHANNELS_PER_HOST, the permits of each connection

\* Enough identities for one to be free when a connection or a mutex is created.
ASSUME PoolAssumption ==
    /\ MaxChannels \in Nat \ {0}
    /\ None \notin Conns \cup Locks
    /\ IsFiniteSet(Tasks) /\ IsFiniteSet(Conns) /\ IsFiniteSet(Locks)
    /\ Cardinality(Conns) >= 2 * Cardinality(Tasks) + 1
    /\ Cardinality(Locks) >= Cardinality(Tasks)

VARIABLES
    pooled,     \* the entry of the host in conns
    alive,      \* connections open at both ends
    fresh,      \* the pooled connection, while its idle_for() < IDLE_TTL
    lockEntry,  \* the entry of the host in connect_locks
    pc,         \* where each operation is
    waiters,    \* operations waiting for a mutex or a permit, oldest first
    conn,       \* the connection each operation references
    lock,       \* the clone of the per-host mutex each operation holds
    redialed,   \* operations whose connect() has used its retry
    refused,    \* the connection that failed the first open of each operation
    calm        \* history: no connection has broken, idled, refused a channel or
                \* timed out yet

entry == <<pooled, alive, fresh>>
place == <<pc, waiters>>
vars == <<entry, lockEntry, place, conn, lock, redialed, refused, calm>>

Steps == {"idle", "lookup", "entry", "lockwait", "recheck", "dial", "backoff",
          "count", "unmap", "permit", "open", "use"}

TypeOK ==
    /\ pooled \in Conns \cup {None}
    /\ alive \subseteq Conns
    /\ fresh \subseteq Conns
    /\ lockEntry \in Locks \cup {None}
    /\ pc \in [Tasks -> Steps]
    /\ waiters \in Seq(Tasks)
    /\ conn \in [Tasks -> Conns \cup {None}]
    /\ lock \in [Tasks -> Locks \cup {None}]
    /\ redialed \subseteq Tasks
    /\ refused \in [Tasks -> Conns \cup {None}]
    /\ calm \in BOOLEAN
    /\ \A t \in Tasks : pc[t] = "idle" => {conn[t], refused[t], lock[t]} = {None}

Init ==
    /\ pooled = None
    /\ alive = {}
    /\ fresh = {}
    /\ lockEntry = None
    /\ pc = [t \in Tasks |-> "idle"]
    /\ waiters = <<>>
    /\ conn = [t \in Tasks |-> None]
    /\ lock = [t \in Tasks |-> None]
    /\ redialed = {}
    /\ refused = [t \in Tasks |-> None]
    /\ calm = TRUE

------------------------------------------------------------------------------
(* References and permits *)

\* The connections some Arc still points to.
Referenced ==
    ({pooled} \cup {conn[t] : t \in Tasks} \cup {refused[t] : t \in Tasks}) \ {None}

\* t has given up one connection and is in its second attempt.
Retrying(t) == refused[t] # None

\* Dropping the last Arc closes the connection.  The last use of one that left
\* the pool is not looked at again.
Keep(open, warm) ==
    /\ alive' = open \cap Referenced'
    /\ fresh' = warm \cap ({pooled'} \ {None})

\* Holders of a permit of connection c.
Channels(c) == {t \in Tasks : pc[t] \in {"open", "use"} /\ conn[t] = c}

\* The task that has locked the mutex l, if any.
HoldsGuard(t) ==
    \/ pc[t] \in {"recheck", "count", "unmap"}
    \/ pc[t] \in {"dial", "backoff"} /\ ~Retrying(t)

\* Arc::strong_count of the mutex l: the map's reference and every clone.
StrongCount(l) ==
    Cardinality({t \in Tasks : lock[t] = l}) + (IF lockEntry = l THEN 1 ELSE 0)

\* Identities that nothing refers to, for what Arc::new creates.
NewConn == CHOOSE c \in Conns : c \notin Referenced
NewLock == CHOOSE l \in Locks : StrongCount(l) = 0

Cached == pooled # None /\ pooled \in fresh

\* A task waits for one thing at a time, and so is a waiter once or not at all.
OthersThan(t) ==
    IF t \in ToSet(waiters)
    THEN RemoveAt(waiters, CHOOSE i \in DOMAIN waiters : waiters[i] = t)
    ELSE waiters

\* tokio's Mutex and Semaphore serve their waiters in the order they came.
Goto(t, step) ==
    /\ pc' = [pc EXCEPT ![t] = step]
    /\ waiters' = IF step \in {"lockwait", "permit"}
                  THEN Append(OthersThan(t), t)
                  ELSE OthersThan(t)

\* t has waited longest of those that wait for the same mutex or connection.
FirstFor(t, resource) ==
    \E i \in 1..Len(waiters) :
        /\ waiters[i] = t
        /\ \A j \in 1..(i - 1) :
              ~ /\ pc[waiters[j]] = pc[t]
                /\ resource[waiters[j]] = resource[t]

\* Mutant of Finish: a path that keeps its clone of the mutex.
FinishLeaking(t, warm) ==
    /\ Goto(t, "idle")
    /\ conn' = [conn EXCEPT ![t] = None]
    /\ redialed' = redialed \ {t}
    /\ refused' = [refused EXCEPT ![t] = None]
    /\ Keep(alive, warm)
    /\ UNCHANGED lock

\* The operation ends, in success or error: everything it held is dropped.
Finish(t, warm) ==
    /\ Goto(t, "idle")
    /\ conn' = [conn EXCEPT ![t] = None]
    /\ lock' = [lock EXCEPT ![t] = None]
    /\ redialed' = redialed \ {t}
    /\ refused' = [refused EXCEPT ![t] = None]
    /\ Keep(alive, warm)

------------------------------------------------------------------------------
(* conn(): a warm connection or a connect under the per-host mutex *)

Begin(t) ==
    /\ pc[t] = "idle"
    /\ Goto(t, "lookup")
    /\ UNCHANGED <<entry, lockEntry, conn, lock, redialed, refused, calm>>

LookupHit(t) ==
    /\ pc[t] = "lookup"
    /\ Cached
    /\ Goto(t, "permit")
    /\ conn' = [conn EXCEPT ![t] = pooled]
    /\ UNCHANGED <<entry, lockEntry, lock, redialed, refused, calm>>

LookupMiss(t) ==
    /\ pc[t] = "lookup"
    /\ ~Cached
    /\ Goto(t, "entry")
    /\ UNCHANGED <<entry, lockEntry, conn, lock, redialed, refused, calm>>

\* connect_locks.entry(key).or_insert_with(..).clone()
CloneLock(t) ==
    /\ pc[t] = "entry"
    /\ lockEntry' = IF lockEntry = None THEN NewLock ELSE lockEntry
    /\ lock' = [lock EXCEPT ![t] = lockEntry']
    /\ Goto(t, "lockwait")
    /\ UNCHANGED <<entry, conn, redialed, refused, calm>>

AcquireLock(t) ==
    /\ pc[t] = "lockwait"
    /\ FirstFor(t, lock)
    /\ \A u \in Tasks : HoldsGuard(u) => lock[u] # lock[t]
    /\ Goto(t, "recheck")
    /\ UNCHANGED <<entry, lockEntry, conn, lock, redialed, refused, calm>>

RecheckHit(t) ==
    /\ pc[t] = "recheck"
    /\ Cached
    /\ Goto(t, "permit")
    /\ conn' = [conn EXCEPT ![t] = pooled]
    /\ lock' = [lock EXCEPT ![t] = None]
    /\ UNCHANGED <<entry, lockEntry, redialed, refused, calm>>

\* Mutant of RecheckMiss: no second look at the pool under the mutex.
RecheckSkipped(t) ==
    /\ pc[t] = "recheck"
    /\ Goto(t, "dial")
    /\ UNCHANGED <<entry, lockEntry, conn, lock, redialed, refused, calm>>

RecheckMiss(t) ==
    /\ pc[t] = "recheck"
    /\ ~Cached
    /\ Goto(t, "dial")
    /\ UNCHANGED <<entry, lockEntry, conn, lock, redialed, refused, calm>>

\* "Limpa a entrada do lock se ninguém mais espera por ela": the count is read
\* first, and the map is locked for the removal afterwards.
CountLast(t) ==
    /\ pc[t] = "count"
    /\ StrongCount(lock[t]) = 2
    /\ Goto(t, "unmap")
    /\ UNCHANGED <<entry, lockEntry, conn, lock, redialed, refused, calm>>

CountMore(t) ==
    /\ pc[t] = "count"
    /\ StrongCount(lock[t]) # 2
    /\ Goto(t, "permit")
    /\ lock' = [lock EXCEPT ![t] = None]
    /\ UNCHANGED <<entry, lockEntry, conn, redialed, refused, calm>>

Unmap(t) ==
    /\ pc[t] = "unmap"
    /\ lockEntry' = None
    /\ Goto(t, "permit")
    /\ lock' = [lock EXCEPT ![t] = None]
    /\ UNCHANGED <<entry, conn, redialed, refused, calm>>

------------------------------------------------------------------------------
(* connect(): dial, with one retry after a timeout *)

\* The new connection replaces whatever the pool holds by now.
Connected(t) ==
    /\ pc[t] = "dial"
    /\ pooled' = NewConn
    /\ conn' = [conn EXCEPT ![t] = NewConn]
    /\ UNCHANGED refused
    /\ Keep(alive \cup {NewConn}, fresh \cup {NewConn})
    /\ Goto(t, IF Retrying(t) THEN "permit" ELSE "count")
    /\ redialed' = redialed \ {t}
    /\ UNCHANGED <<lockEntry, lock, calm>>

\* Mutant of DialTimeout: a dial that times out is always retried.
DialTimeoutAgain(t) ==
    /\ pc[t] = "dial"
    /\ Goto(t, "backoff")
    /\ UNCHANGED <<entry, lockEntry, conn, lock, redialed, refused, calm>>

DialTimeout(t) ==
    /\ pc[t] = "dial"
    /\ t \notin redialed
    /\ Goto(t, "backoff")
    /\ redialed' = redialed \cup {t}
    /\ UNCHANGED <<entry, lockEntry, conn, lock, refused, calm>>

Redial(t) ==
    /\ pc[t] = "backoff"
    /\ Goto(t, "dial")
    /\ UNCHANGED <<entry, lockEntry, conn, lock, redialed, refused, calm>>

\* Refused, not authenticated, or the second timeout: the guard is dropped and
\* the entry of connect_locks stays.
DialFails(t) ==
    /\ pc[t] = "dial"
    /\ UNCHANGED <<pooled, lockEntry, calm>>
    /\ Finish(t, fresh)

------------------------------------------------------------------------------
(* open_session_channel(), exec() and the SFTP operations *)

\* Mutant of AcquirePermit: one permit too many.
AcquirePermitMore(t) ==
    /\ pc[t] = "permit"
    /\ FirstFor(t, conn)
    /\ Cardinality(Channels(conn[t])) <= MaxChannels
    /\ Goto(t, "open")
    /\ UNCHANGED <<entry, lockEntry, conn, lock, redialed, refused, calm>>

AcquirePermit(t) ==
    /\ pc[t] = "permit"
    /\ FirstFor(t, conn)
    /\ Cardinality(Channels(conn[t])) < MaxChannels
    /\ Goto(t, "open")
    /\ UNCHANGED <<entry, lockEntry, conn, lock, redialed, refused, calm>>

\* The channel is open; an operation that was retrying drops what it gave up.
OpenOk(t) ==
    /\ pc[t] = "open"
    /\ conn[t] \in alive
    /\ refused' = [refused EXCEPT ![t] = None]
    /\ Goto(t, "use")
    /\ UNCHANGED <<pooled, lockEntry, conn, lock, redialed, calm>>
    /\ Keep(alive, fresh \cup {conn[t]})

\* Mutant of EvictOwn: whatever the pool holds is removed.
EvictAny(t) == pooled' = None

\* remove_if_same: only the instance that failed leaves the pool.
EvictOwn(t) == pooled' = IF pooled = conn[t] THEN None ELSE pooled

\* The channel is not opened, because the connection is dead or because a live
\* server refuses it (too many sessions, prohibited).  Either way the operation
\* evicts the connection and reconnects, past the per-host lock; the connection
\* it gave up lives on, for the others that use it and for its own reference.
OpenFails(t) ==
    /\ pc[t] = "open"
    /\ ~Retrying(t)
    /\ EvictOwn(t)
    /\ conn' = [conn EXCEPT ![t] = None]
    /\ refused' = [refused EXCEPT ![t] = conn[t]]
    /\ Goto(t, "dial")
    /\ calm' = FALSE
    /\ UNCHANGED <<lockEntry, lock, redialed>>
    /\ Keep(alive, fresh)

OpenTimeout(t) ==
    /\ pc[t] = "open"
    /\ ~Retrying(t)
    /\ EvictOwn(t)
    /\ Finish(t, fresh)
    /\ calm' = FALSE
    /\ UNCHANGED lockEntry

\* The second open fails or times out: the error is returned as it is.
ReopenFails(t) ==
    /\ pc[t] = "open"
    /\ Retrying(t)
    /\ UNCHANGED <<pooled, lockEntry, calm>>
    /\ Finish(t, fresh)

\* The channel is closed and the permit dropped.  The last use is recorded by
\* an exec that ends in time and by every SFTP lease; not by an exec that times
\* out, nor when the subsystem does not start.
EndUse(t) ==
    /\ pc[t] = "use"
    /\ UNCHANGED <<pooled, lockEntry, calm>>
    /\ \/ Finish(t, fresh \cup {conn[t]})
       \/ Finish(t, fresh)

------------------------------------------------------------------------------
(* The reaper, the clock and the network *)

\* Mutant of Reap: only connections that are still open are closed.
ReapAlive ==
    /\ pooled \in alive
    /\ pooled \notin fresh
    /\ pooled' = None
    /\ UNCHANGED <<conn, refused>>
    /\ Keep(alive, fresh)
    /\ UNCHANGED <<lockEntry, place, lock, redialed, calm>>

Reap ==
    /\ pooled # None
    /\ pooled \notin fresh
    /\ pooled' = None
    /\ UNCHANGED <<conn, refused>>
    /\ Keep(alive, fresh)
    /\ UNCHANGED <<lockEntry, place, lock, redialed, calm>>

\* Between two of these points a task does not wait: no time passes there.
Waits == {"idle", "lockwait", "dial", "backoff", "permit", "open", "use"}

\* IDLE_TTL passes since the last touch, in use or not.
Expire(c) ==
    /\ c \in fresh
    /\ \A t \in Tasks : pc[t] \in Waits
    /\ fresh' = fresh \ {c}
    /\ calm' = FALSE
    /\ UNCHANGED <<pooled, alive, lockEntry, place, conn, lock, redialed,
                   refused>>

\* VPN down, host restarted.
Break(c) ==
    /\ c \in alive
    /\ alive' = alive \ {c}
    /\ calm' = FALSE
    /\ UNCHANGED <<pooled, fresh, lockEntry, place, conn, lock, redialed,
                   refused>>

------------------------------------------------------------------------------
Operation(t) ==
    \/ LookupHit(t) \/ LookupMiss(t)
    \/ CloneLock(t) \/ AcquireLock(t)
    \/ RecheckHit(t) \/ RecheckMiss(t)
    \/ Connected(t) \/ DialTimeout(t) \/ Redial(t) \/ DialFails(t)
    \/ CountLast(t) \/ CountMore(t) \/ Unmap(t)
    \/ AcquirePermit(t)
    \/ OpenOk(t) \/ OpenFails(t) \/ OpenTimeout(t) \/ ReopenFails(t)
    \/ EndUse(t)

Next ==
    \/ \E t \in Tasks : Begin(t) \/ Operation(t)
    \/ Reap
    \/ \E c \in Conns : Expire(c) \/ Break(c)

Spec == Init /\ [][Next]_vars

\* Tasks are polled, dials and opens have timeouts, the reaper wakes every 30 s,
\* and time passes.  A transfer is assumed to end.
FairSpec ==
    /\ Spec
    /\ \A t \in Tasks : WF_vars(Operation(t))
    /\ WF_vars(Reap)
    /\ WF_vars(\E c \in Conns : Expire(c))

------------------------------------------------------------------------------
(* Properties *)

\* Whatever tasks race, a connection that works leaves the pool only because a
\* newer one takes its place, because it idled, or because an operation's own
\* open on that very connection was refused or timed out (remove_if_same:
\* "evita remover a conexão nova e saudável que outra task acabou de
\* reconectar", ssh.rs:322-324).
HealthyNotEvicted ==
    [][(pooled \in alive \cap fresh /\ pooled' = None)
         => \E t \in Tasks :
               conn[t] = pooled /\ (OpenFails(t) \/ OpenTimeout(t))]_vars

\* "N tasks concorrentes no mesmo host frio resultam em UM connect" (ssh.rs:365,
\* and :259):
\* until a connection breaks, idles out, refuses a channel or times out, there is
\* one, and nobody dials once it is in the pool, even past a mutex that left
\* connect_locks.
SingleFlightWhenCalm ==
    calm =>
        /\ Cardinality(alive) <= 1
        /\ pooled # None => \A t \in Tasks : pc[t] \notin {"dial", "backoff"}

\* Every operation ends: the mutex, the semaphore and the retries never leave
\* one waiting for ever.
EveryOperationEnds == \A t \in Tasks : pc[t] # "idle" ~> pc[t] = "idle"

\* "Conexões ociosas além de IDLE_TTL são fechadas pelo reaper periódico, não só
\* lazy no próximo acesso" (ssh.rs:253-254): dead or alive, a connection that
\* nobody uses does not stay in the pool.
IdleConnectionCloses ==
    \A c \in Conns :
        pooled = c ~> (pooled # c \/ \E t \in Tasks : conn[t] = c)

\* "Teto de canais concorrentes por host" (ssh.rs:34): the permits belong to a
\* connection, and bound the host's channels until a connection is replaced.
ChannelCapWhenCalm ==
    calm => Cardinality({t \in Tasks : pc[t] \in {"open", "use"}}) <= MaxChannels
=============================================================================
