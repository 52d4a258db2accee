---------------------------- MODULE VaultDaemon ----------------------------
(***************************************************************************)
(* The life cycle of the vault daemon: src/src/vault.rs.                   *)
(*                                                                         *)
(* Every tool call that needs a credential (resolve) or that refreshes the *)
(* inventory (reload) goes through with_daemon: it takes the one mutex of  *)
(* the process, makes sure a pwsh child is alive, writes one line of JSON  *)
(* to it and reads one line back.  Answers carry no identifier, so what    *)
(* ties an answer to its request is only the order of the lines in the     *)
(* child's pipes.  A failed exchange costs the child its life and one      *)
(* retry; a circuit breaker limits the spawns per window of time.          *)
(*                                                                         *)
(* The script behind the pipes (ps/vault-daemon.ps1) is the environment    *)
(* here: it may answer, answer with an error, hang, die, or let a line of  *)
(* noise slip into its output.  RoyalDocument models what it serves.       *)
(***************************************************************************)
EXTENDS Naturals, Sequences, FiniteSets

CONSTANTS
    Callers,      \* concurrent tool calls
    Hosts,        \* the host ids a resolve may name
    Reload,       \* the reload request
    MaxRespawns,  \* MAX_RESPAWNS of the circuit breaker
    Window,       \* RESPAWN_WINDOW, in clock ticks
    MaxCalls,     \* bound: number of calls made in a behaviour
    MaxTime       \* bound: the last clock tick

ASSUME RespawnAssumption == MaxRespawns \in Nat \ {0} /\ Window \in Nat
ASSUME RequestAssumption == Reload \notin Hosts
ASSUME BoundAssumption == MaxCalls \in Nat /\ MaxTime \in Nat

Requests == Hosts \cup {Reload}

VARIABLES
    now,        \* the monotonic clock (Instant::now)
    calls,      \* number of calls made so far (only to bound the model)
    queue,      \* callers of with_daemon; the head holds the mutex (FIFO)
    want,       \* want[c]: the request of c's current or last call
    result,     \* result[c]: what c's last call returned
    step,       \* where the holder of the mutex is inside with_daemon
    attempt,    \* 1, or 2 in the retry
    cell,       \* the daemon in DaemonCell.daemon, 0 for None
    handle,     \* the daemon the holder talks to, or the last one it did
    running,    \* the children the operating system still runs
    abandoned,  \* those of them sent a kill that nobody has waited for
    inbox,      \* requests in the stdin pipe of handle
    outbox,     \* answers in the stdout pipe of handle
    noise,      \* a line that is not JSON is ahead of outbox
    respawns,   \* DaemonCell.respawns, as indices of spawnedAt
    spawnedAt,  \* history: the instant of every spawn the breaker granted
    kept        \* history: handle failed a retry and was kept in the cell

caller == <<queue, step, attempt>>
pipes == <<inbox, outbox, noise>>
breaker == <<respawns, spawnedAt>>
children == <<running, abandoned>>
vars == <<now, calls, caller, want, result, cell, handle, children, pipes,
          breaker, kept>>

Answers == [kind: {"ok", "error"}, of: Requests]
Results == [status: {"none", "ok", "error"}, of: Requests, fromKept: BOOLEAN]
Returned(status, of, fromKept) ==
    [status |-> status, of |-> of, fromKept |-> fromKept]

\* Daemons are numbered in the order of their spawn; 0 stands for None.
Daemons == 1..Len(spawnedAt)

TypeOK ==
    /\ now \in Nat
    /\ calls \in Nat
    /\ queue \in Seq(Callers)
    /\ want \in [Callers -> Requests]
    /\ result \in [Callers -> Results]
    /\ step \in {"enter", "spawn", "ready", "send", "await"}
    /\ attempt \in {1, 2}
    /\ spawnedAt \in Seq(Nat)
    /\ respawns \subseteq Daemons
    /\ cell \in Daemons \cup {0}
    /\ handle \in Daemons \cup {0}
    /\ running \subseteq Daemons
    /\ abandoned \subseteq running
    /\ inbox \in Seq(Requests)
    /\ outbox \in Seq(Answers)
    /\ noise \in BOOLEAN
    /\ kept \in BOOLEAN

Init ==
    /\ now = 0
    /\ calls = 0
    /\ queue = <<>>
    /\ want = [c \in Callers |-> Reload]
    /\ result = [c \in Callers |-> Returned("none", Reload, FALSE)]
    /\ step = "enter"
    /\ attempt = 1
    /\ cell = 0
    /\ handle = 0
    /\ running = {}
    /\ abandoned = {}
    /\ inbox = <<>>
    /\ outbox = <<>>
    /\ noise = FALSE
    /\ respawns = {}
    /\ spawnedAt = <<>>
    /\ kept = FALSE

------------------------------------------------------------------------------
(* The callers *)

InQueue(c) == \E i \in 1..Len(queue) : queue[i] = c

\* resolve or reload is called and waits for the mutex.
Call(c, r) ==
    /\ ~InQueue(c)
    /\ calls < MaxCalls
    /\ calls' = calls + 1
    /\ queue' = Append(queue, c)
    /\ want' = [want EXCEPT ![c] = r]
    /\ result' = [result EXCEPT ![c] = Returned("none", r, FALSE)]
    /\ UNCHANGED <<now, step, attempt, cell, handle, children, pipes, breaker,
                   kept>>

Holds(s) == queue # <<>> /\ step = s

\* with_daemon returns: the guard is dropped and the next caller gets it.
Return(status, of, fromKept) ==
    /\ result' = [result EXCEPT ![Head(queue)] = Returned(status, of, fromKept)]
    /\ queue' = Tail(queue)
    /\ step' = "enter"
    /\ attempt' = 1

------------------------------------------------------------------------------
(* The circuit breaker *)

\* history.iter().filter(|t| now.duration_since(t) < window)
Recent == {d \in respawns : now - spawnedAt[d] < Window}

\* Mutant of RespawnAllowed: one spawn too many.
RespawnAllowedOneMore == Cardinality(Recent) <= MaxRespawns

RespawnAllowed == Cardinality(Recent) < MaxRespawns

\* ensure_respawn_budget: the instant is recorded before the spawn is tried.
EnsureRespawnBudget(try) ==
    \/ /\ RespawnAllowed
       /\ respawns' = Recent \cup {Len(spawnedAt) + 1}
       /\ spawnedAt' = Append(spawnedAt, now)
       /\ step' = "spawn"
       /\ attempt' = try
       /\ UNCHANGED <<queue, result>>
    \/ /\ ~RespawnAllowed
       /\ respawns' = Recent
       /\ Return("error", want[Head(queue)], FALSE)
       /\ UNCHANGED spawnedAt

\* Mutant of Discard: the process is forgotten but not killed.
DiscardUnkilled ==
    /\ cell' = 0
    /\ handle' = 0
    /\ inbox' = <<>>
    /\ outbox' = <<>>
    /\ noise' = FALSE
    /\ kept' = FALSE
    /\ UNCHANGED children

\* The daemon in the cell is taken out of it, killed and waited for, and dropped
\* with its pipes.
Discard ==
    /\ cell' = 0
    /\ handle' = 0
    /\ running' = running \ {cell}
    /\ inbox' = <<>>
    /\ outbox' = <<>>
    /\ noise' = FALSE
    /\ kept' = FALSE
    /\ UNCHANGED abandoned

------------------------------------------------------------------------------
(* The holder of the mutex, inside with_daemon *)

EnterAlive ==
    /\ Holds("enter")
    /\ cell \in running
    /\ step' = "send"
    /\ UNCHANGED <<now, calls, queue, attempt, want, result, cell, handle,
                   children, pipes, breaker, kept>>

EnterDead ==
    /\ Holds("enter")
    /\ cell \notin running
    /\ Discard
    /\ EnsureRespawnBudget(1)
    /\ UNCHANGED <<now, calls, want>>

\* spawn_generic: the child is started and its pipes are taken.
StartChild ==
    /\ Holds("spawn")
    /\ handle' = Len(spawnedAt)
    /\ running' = running \cup {Len(spawnedAt)}
    /\ step' = "ready"
    /\ UNCHANGED <<now, calls, queue, attempt, want, result, cell, abandoned,
                   pipes, breaker, kept>>

\* The log or the program cannot be opened: there is no child.
StartChildFails ==
    /\ Holds("spawn")
    /\ Return("error", want[Head(queue)], FALSE)
    /\ UNCHANGED <<now, calls, want, cell, handle, children, pipes, breaker,
                   kept>>

\* The child has said it is ready.  The first attempt stores it in the cell at
\* once, the retry keeps it in a local until its exchange has ended.
ChildReady ==
    /\ Holds("ready")
    /\ ~noise
    /\ cell' = IF attempt = 1 THEN handle ELSE cell
    /\ step' = "send"
    /\ UNCHANGED <<now, calls, queue, attempt, want, result, handle, children,
                   pipes, breaker, kept>>

\* READY_TIMEOUT, EOF, a line that is not JSON or ready:false.  The Daemon is
\* dropped, and Drop sends a kill that it does not wait for: with_daemon
\* returns, and the child may still run when the next caller starts another.
ReadyFails ==
    /\ Holds("ready")
    /\ Return("error", want[Head(queue)], FALSE)
    /\ handle' = 0
    /\ abandoned' = abandoned \cup ({handle} \cap running)
    /\ noise' = FALSE
    /\ UNCHANGED <<now, calls, want, cell, running, inbox, outbox, breaker,
                   kept>>

\* Mutant of Failure: the retry talks to the daemon that failed.
FailureSameDaemon ==
    \/ /\ attempt = 1
       /\ attempt' = 2
       /\ step' = "send"
       /\ UNCHANGED <<queue, result, cell, handle, children, pipes, breaker,
                      kept>>
    \/ /\ attempt = 2
       /\ Return("error", want[Head(queue)], FALSE)
       /\ Discard
       /\ UNCHANGED breaker

\* Mutant of Failure: a failure of the daemon is taken for one of the host.
FailureAsBusiness ==
    /\ cell' = handle
    /\ Return("error", want[Head(queue)], FALSE)
    /\ UNCHANGED <<handle, children, pipes, breaker, kept>>

\* Timeout, Transport or Protocol: the first time the daemon is discarded and,
\* if the breaker agrees, a new one is tried; the second time the caller gets
\* the error and the daemon that failed is stored in the cell all the same.
Failure ==
    \/ /\ attempt = 1
       /\ Discard
       /\ EnsureRespawnBudget(2)
    \/ /\ attempt = 2
       /\ cell' = handle
       /\ kept' = TRUE
       /\ Return("error", want[Head(queue)], FALSE)
       /\ UNCHANGED <<handle, children, pipes, breaker>>

\* Mutant of Settle: a business error discards the daemon as a failure does.
SettleDiscarding(answer) ==
    /\ Return(answer.kind, answer.of, kept)
    /\ IF answer.kind = "error"
       THEN Discard
       ELSE /\ cell' = handle
            /\ outbox' = Tail(outbox)
            /\ UNCHANGED <<handle, children, inbox, noise, kept>>
    /\ UNCHANGED breaker

\* A line that parses ends the exchange; a business error does not respawn.
Settle(answer) ==
    LET request == want[Head(queue)]
        ok == /\ answer.kind = "ok"
              /\ (answer.of = Reload) = (request = Reload)
    IN  /\ Return(IF ok THEN "ok" ELSE "error", answer.of, kept)
        /\ cell' = handle
        /\ outbox' = Tail(outbox)
        /\ UNCHANGED <<handle, children, inbox, noise, breaker, kept>>

Send ==
    /\ Holds("send")
    /\ handle \in running
    /\ inbox' = Append(inbox, want[Head(queue)])
    /\ step' = "await"
    /\ UNCHANGED <<now, calls, queue, attempt, want, result, cell, handle,
                   children, outbox, noise, breaker, kept>>

\* Writing to the pipe of a dead child fails.
SendFails ==
    /\ Holds("send")
    /\ handle \notin running
    /\ Failure
    /\ UNCHANGED <<now, calls, want>>

Receive ==
    /\ Holds("await")
    /\ ~noise
    /\ outbox # <<>>
    /\ Settle(Head(outbox))
    /\ UNCHANGED <<now, calls, want>>

\* The line is not JSON.  (The retry leaves what follows it in the pipe.)
ReceiveNoise ==
    /\ Holds("await")
    /\ noise
    /\ \/ /\ attempt = 1
          /\ Failure
       \/ /\ attempt = 2
          /\ noise' = FALSE
          /\ cell' = handle
          /\ kept' = TRUE
          /\ Return("error", want[Head(queue)], FALSE)
          /\ UNCHANGED <<handle, children, inbox, outbox, breaker>>
    /\ UNCHANGED <<now, calls, want>>

\* read_line returns 0 bytes.
ReceiveEof ==
    /\ Holds("await")
    /\ ~noise
    /\ outbox = <<>>
    /\ handle \notin running
    /\ Failure
    /\ UNCHANGED <<now, calls, want>>

\* Mutant of RequestTimeout: the retry has no timeout.
RequestTimeoutOnce ==
    /\ Holds("await")
    /\ ~noise
    /\ outbox = <<>>
    /\ handle \in running
    /\ attempt = 1
    /\ Failure
    /\ UNCHANGED <<now, calls, want>>

\* REQUEST_TIMEOUT elapses with nothing to read.
RequestTimeout ==
    /\ Holds("await")
    /\ ~noise
    /\ outbox = <<>>
    /\ handle \in running
    /\ Failure
    /\ UNCHANGED <<now, calls, want>>

------------------------------------------------------------------------------
(* The environment: the child process and the clock *)

\* The child answers the oldest request it has not answered.
Serve(kind) ==
    /\ handle \in running
    /\ inbox # <<>>
    /\ inbox' = Tail(inbox)
    /\ outbox' = Append(outbox, [kind |-> kind, of |-> Head(inbox)])
    /\ UNCHANGED <<now, calls, caller, want, result, cell, handle, children,
                   noise, breaker, kept>>

\* Something other than the protocol reaches the child's stdout.
MakeNoise ==
    /\ handle \in running
    /\ outbox = <<>>
    /\ ~noise
    /\ noise' = TRUE
    /\ UNCHANGED <<now, calls, caller, want, result, cell, handle, children,
                   inbox, outbox, breaker, kept>>

\* The child dies; what it had written can still be read.
Die ==
    /\ handle \in running
    /\ running' = running \ {handle}
    /\ inbox' = <<>>
    /\ UNCHANGED <<now, calls, caller, want, result, cell, handle, abandoned,
                   outbox, noise, breaker, kept>>

\* A child that was sent a kill is gone at last.
Reap(d) ==
    /\ d \in abandoned
    /\ running' = running \ {d}
    /\ abandoned' = abandoned \ {d}
    /\ UNCHANGED <<now, calls, caller, want, result, cell, handle, pipes,
                   breaker, kept>>

Tick ==
    /\ now < MaxTime
    /\ now' = now + 1
    /\ UNCHANGED <<calls, caller, want, result, cell, handle, children, pipes,
                   breaker, kept>>

------------------------------------------------------------------------------
Server ==
    \/ EnterAlive
    \/ EnterDead
    \/ StartChild
    \/ StartChildFails
    \/ ChildReady
    \/ ReadyFails
    \/ Send
    \/ SendFails
    \/ Receive
    \/ ReceiveNoise
    \/ ReceiveEof
    \/ RequestTimeout

Environment ==
    \/ \E kind \in {"ok", "error"} : Serve(kind)
    \/ MakeNoise
    \/ Die
    \/ \E d \in Daemons : Reap(d)
    \/ Tick

Next ==
    \/ \E c \in Callers, r \in Requests : Call(c, r)
    \/ Server
    \/ Environment

Spec == Init /\ [][Next]_vars

\* The runtime keeps polling the holder, and its timers fire: nothing is asked
\* of the child, which may hang or die.
FairSpec == Spec /\ WF_vars(Server)

------------------------------------------------------------------------------
(* Properties *)

\* The circuit breaker (vault.rs, respawn_allowed and ensure_respawn_budget):
\* any MaxRespawns + 1 consecutive spawns take at least a window, whoever asks
\* for them and however they fail.
SpawnBudget ==
    \A i \in 1..Len(spawnedAt) :
        i + MaxRespawns <= Len(spawnedAt) =>
            spawnedAt[i + MaxRespawns] - spawnedAt[i] >= Window

\* A daemon that was ready once is dead before another one is started (take,
\* kill, then spawn), however it failed or was found dead: no two of them hold
\* the document open.  Beside the daemon in use the operating system may still
\* run children that never got ready and were sent a kill (Drop for Daemon).
OneLiveDaemon == \A d \in running : d = handle \/ d \in abandoned

\* The lines in the pipes of a daemon that never failed a retry: none between
\* two exchanges, and during one either the request or its own answer.
InSync ==
    ~kept =>
        IF Holds("await")
        THEN \/ inbox = <<want[Head(queue)]>> /\ outbox = <<>>
             \/ inbox = <<>> /\ outbox = <<>> /\ handle \notin running
             \/ /\ inbox = <<>>
                /\ \E kind \in {"ok", "error"} :
                      outbox = <<[kind |-> kind, of |-> want[Head(queue)]]>>
        ELSE inbox = <<>> /\ outbox = <<>>

\* A caller is handed another request's answer only by a daemon that was left
\* in the cell after its retry had failed (vault.rs, end of with_daemon).
MisdeliveryTraced ==
    \A c \in Callers :
        /\ result[c].status = "ok"
        /\ ~result[c].fromKept
        => result[c].of = want[c]

\* What the module promises its callers: a failed exchange costs the daemon its
\* life (vault.rs:7-10), so an answer is always the answer to the request.
AnswerMatchesRequest ==
    \A c \in Callers : result[c].status = "ok" => result[c].of = want[c]

\* A daemon that lives and answers in JSON is never thrown away: a business
\* error of one host costs the others no respawn (DaemonFailure::Business).
HealthyDaemonKept ==
    [][(cell \in running /\ cell' = 0)
            => (Holds("await") /\ (noise \/ outbox = <<>>))]_vars

\* A hung pwsh never freezes the server (vault.rs:7-8): every call returns,
\* whatever the child does, and so does everyone queued behind it.
EveryCallReturns == \A c \in Callers : InQueue(c) ~> ~InQueue(c)
=============================================================================
