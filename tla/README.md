# Royal MCP: specifications, model checks and proofs

Royal MCP is an MCP server in Rust. It gives an agent access to SSH hosts whose
credentials live in a Royal TS document: the agent names a host and a command or
a file, the server finds the credential, runs the operation over SSH or SFTP and
writes an audit line. This directory holds TLA+ specifications of the parts of
the server that are concurrent, that fail, or that keep state across calls, the
TLC configurations that check them, and TLAPS proofs.

## 1. The system

| Component | State | Operations |
|---|---|---|
| Vault client, `src/vault.rs` | one `DaemonCell` behind one async mutex: the pwsh child with its pipes, the instants of its spawns | `resolve`, `reload`, both through `with_daemon`: spawn, request with a timeout, one retry, circuit breaker |
| Vault daemon, `ps/vault-daemon.ps1` | the open document and the mtime of its opening | `resolve`, `reload`, `ping`, one JSON line each |
| SSH pool, `src/ssh.rs` | `conns` (one connection per `addr:port`), `connect_locks`, a semaphore and a last use per connection | `conn`, `connect`, `open_session_channel`, the reaper |
| known_hosts, `src/ssh.rs` | a file of pinned keys | `check_server_key`, lookup and append |
| Audit log, `src/audit.rs` | a file of chained JSON lines; last hash and two flags in memory | `open`, `record` |
| Rate limiter, `src/ratelimit.rs` | start and count of a window | `check` |
| Inventory, `src/inventory.rs` | hosts and scope, read-only between refreshes | `load`, `query`, `get`, `resolve` |
| Policy, `src/policy.rs` | none | `classify`, `prepare_sudo_exec` |
| Server, `src/server.rs` | `RwLock<Inventory>`, map of uploads, the parts above | the MCP tools |
| Startup, config, model, secrets | none after startup | |

A tool call resolves the host in the inventory, takes a slot of the limiter,
passes the policy or the path lists, asks for approval if it writes, asks the
vault client for the credential, runs its SFTP or SSH operations on connections
of the pool, and appends an audit line. Tool calls are concurrent tasks of one
process. They meet in the mutex of the vault client, in the pool, in the
limiter, in the audit file, in the map of uploads, and on the hosts, where
nothing locks a path. The calls out of the process (pwsh, SSH, SFTP, the human
who approves) may hang, fail, fail after having worked, or answer late.

### What is hard, and what makes each part correct

* **Vault client.** Answers have no identifier, so only the order of lines in the
  pipes ties an answer to its request; a timeout breaks that order unless the
  child dies. Correct means: every call returns; at most one child in use; the breaker's
  budget is kept; no answer reaches a caller that did not ask for it; a business
  error costs nobody a respawn.
* **SSH pool.** Several tasks find a host cold, or a connection dead, at once;
  permits, reference counts, the reaper and evictions interleave. Correct means:
  one connect at a time, no eviction of somebody else's healthy connection, no
  task stuck, nothing idle kept, the cap on channels.
* **Audit log.** Appends fail or tear, servers crash and reopen the file by its
  last 16 KiB, more than one server may use it. Correct means: the chain is
  linked, what was erased shows, failures are reported.
* **Rate limiter.** The edge of the window.
* **Uploads.** Chunks, finishes and aborts of one id run concurrently; remote
  names and open handles come apart; any remote call may have worked although it
  failed. Correct means: one closer owns the upload, nothing reaches the
  destination but what was verified, an abort delivers nothing.
* **File tools.** An edit decides on a content that it read before a human
  answered; it reads again before it writes, but not atomically with the write.
* **Daemon script.** The document is saved and locked by another program between
  any two of its steps. Correct means: no old password without the stale mark; a
  document that cannot be opened is served as it was; no request hangs.
* **known_hosts.** Several first connections at once, in one process or in several
  that share the file; appends that tear. Correct means: what is accepted is what is
  pinned, and a pin that is written stays in force.
* **Policy and exec.** The policy judges the segments of a command, the preparation
  for sudo cuts it at other places. Correct means: what is sent is what was judged,
  and the first program to read the password is a sudo that asks for it.
* **Tools together.** Calls hold a host, an approval and a credential while the
  inventory is replaced, the document saved and the daemon restarted. Correct means:
  a change lands where a human was asked about, what a refresh has read is what is
  used from then on, whatever changes something leaves one record, and no reference
  is taken for the wrong host.

The list of hazards, each at its line, is in `PROJECT.json` with the properties
that watch it.

## 2. Modules

| Module | Models | Proofs |
|---|---|---|
| `VaultDaemon` | `vault.rs` | `Vault_proofs` |
| `RoyalDocument` | `ps/vault-daemon.ps1` | `Vault_proofs` |
| `SshPool` | pool of `ssh.rs` | `SshPool_proofs` |
| `KnownHosts` | host keys of `ssh.rs` | `KnownHosts_proofs` |
| `AuditLog` | `audit.rs` | `AuditLog_proofs` |
| `RateLimiter`, `BurstLimit` | `ratelimit.rs` and what it promises | `ExecGate_proofs` |
| `Policy` | `policy.rs` | `ExecGate_proofs` |
| `ExecGate` = `RateLimiter` + `Policy` | `exec` of `server.rs`, the sending of a command in `ssh.rs` | `ExecGate_proofs` |
| `Inventory` | `inventory.rs` | `Tools_proofs` |
| `Tools`, over `Inventory` | every tool of `server.rs`, beside the others | `Tools_proofs` |
| `Upload` | `upload_*` of `server.rs`, SFTP of `ssh.rs` | `Upload_proofs` |
| `FileOps` | `file_edit`, `file_put` of `server.rs`, SFTP of `ssh.rs` | `FileOps_proofs` |

`Tools` sees each contact with a host as one step that succeeds or fails; `SshPool`,
`KnownHosts`, `ExecGate`, `Upload` and `FileOps` are what is inside of such a step,
`VaultDaemon` and `RoyalDocument` what is inside of getting a credential, and
`AuditLog` what is inside of a record.

Each `MC...` module gives the constants of one of them small sets. Operators
marked *Mutant of X* are plausible bugs of the code that `X` models; no
specification uses them. Each property of a passing run is known to fail when
`X` is replaced by one of them, so it does say something about the code.

### How state and actions correspond to the code

**VaultDaemon.** `queue` is the FIFO of the async mutex with its holder at the
head; `cell` and `respawns` are `DaemonCell`; `handle`, `inbox`, `outbox` and
`noise` are the child that the holder talks to and its pipes. An action is the
code between two awaits of `with_daemon`: `EnterAlive`/`EnterDead` (liveness test,
kill, breaker), `StartChild`/`StartChildFails`, `ChildReady`/`ReadyFails`,
`Send`/`SendFails`, then one of `Receive`,
`ReceiveNoise`, `ReceiveEof`, `RequestTimeout`. `Failure` is the branch of
`classify_line_failure`. The child is the environment (`Serve`, `MakeNoise`,
`Die`). `running` are the children the operating system has; a child that does not get
ready is dropped with a kill that nobody waits for, and stays in `running` and in
`abandoned` until its `Reap`. The client's abandonment of a call is not modelled: the tool handlers run
to their end.

**RoyalDocument.** `store` and `mtime` are the script's variables, with the version
of the document that the store holds, or 0. `disk`, `diskTime` and `locked` are the
file. `Compare` is the test of `Ensure-Fresh`; `OpenOk`/`OpenFails` and `Note` are
the two halves of `Open-Doc`, between which the file may be saved; `AttemptFails`
is the retry loop of `Ensure-Fresh` or of reload. The requests come from the client
that `VaultDaemon` models, one at a time, and `Kill` is its discarding of the child.

**SshPool.** One host: `pooled` is its entry of `conns`, `lockEntry` that of
`connect_locks`, `conn` and `lock` the `Arc`s that each task holds. `pc` is the
point of `open_session_channel` each task is at, one action per await or per
critical section of a std mutex. `alive` is what both ends keep open; an
unreferenced connection closes. `refused` is the connection on which an operation could not
open its first channel, dead or alive: it evicts it and dials beside the mutex, and
references both until its second attempt has ended. `fresh` abstracts `idle_for() < IDLE_TTL`
of the pooled connection.
`waiters` is the FIFO order of tokio's mutex and semaphore. `CountLast` and
`Unmap` are two actions because the code reads `strong_count` before it locks the
map.

**AuditLog.** `file` is a sequence of lines; a line parses, or does not; `long`
and `wide` abstract what the 16 KiB tail can see. `RecordOk`, `RecordFails` and
`CrashInAppend` are the outcomes of `append_line`. `Open` is `AuditLog::open`.
Hashes are record numbers: two records never have the same one.

**KnownHosts.** `lines` and `open` are the file, a line being the sequence of what
was written into it: `writeln!` on a bare file makes four writes of a pin (`Write`,
`WriteLast`), behind whatever others wrote in between. `lock` is `KNOWN_HOSTS_LOCK`,
one in each process. `Compare` is a whole check that finds a pin, as it neither
awaits nor writes; `FirstUse` and `FirstUseBlind` begin an append, the latter for a
file that cannot be read. `Forget` is the operator's deletion of a line. `accepted`
and `calm` are history.

**RateLimiter.** A direct translation, its limit chosen at the start; `admitted` is a history variable that the
bound is about. `BurstLimit` says what may be relied on without the window.

**Policy.** Operators of the functions' names. A command is a sequence of words; the
constants give what the code reads off the letters of a word (which words are
options, what `base_name` makes of one, which paths are critical after trimming).
`Skip` is one turn of the loop of `effective_bin_index` and `Seen` the turns one after the
other; `Rewritten` are the places of the sudos that `rewrite_sudo` gives options to, and
`Inserted` what `inject_leading_sudo` puts there.

**ExecGate.** The variables of `RateLimiter` and `last`, one exec from its check to
its answer. The order is the code's: limiter, policy, sending. `Elsewhere` are the
checks of other tools. `OnInput` are the segments that have the input of the channel, where
the password goes; `InputReaders` names the programs that read theirs.

**Inventory, Tools.** `call` has the locals of each call; `Plan` lists the stages of
each tool between its awaits, in the code's order, and `rest` those still to do. `inv`
is the version of the document that the inventory was loaded from, `saved` the one on
disk, `opened` the daemon's. `Succeeds`, `Fails`, `Probes`, `LookRefuses`, `Mismatch`
and `Drops` are the outcomes of a contact; `Loads`, `Swaps` and `Reloads` the three
parts of `refresh_inventory`, whose write lock is held for the assignment only.
`FindsUpload` takes an upload out of the map, or, for a chunk, reads it. A call ends as
`Recorded` or, where the code returns without a record, as `Answered` (`Malformed`,
`FindsNoUpload`, `LookRefuses`, `LoadPanics`). `Passes`
stands for path, limiter, size and policy at once, since they neither await nor
change what this module has.

**Upload.** `bytes` is the entry of the map of uploads (`None` when absent).
`temp` and `dest` are names, `data` the inodes; `fd` is the handle a chunk has
open, which keeps its inode when the name moves. Actions are the code between
two awaits that matter: `ChunkBegin` (total read under the lock), `ChunkOpen`,
`ChunkWrite`, `ChunkCount` (total stored); `FinishTakes`, `FinishReads`,
`FinishChecks`, `FinishRenames`, `FinishPuts`, `FinishUnlinks`, `FinishDrops`;
`AbortTakes`, `AbortRemoves`. Each has the failures of its remote calls, those
that worked included. `replaces`, chosen at the start, covers both kinds of SFTP
server: those that follow the protocol and refuse to rename over a file, and
those that replace it.

**FileOps.** `file` is the path's content; `snapshot` what an edit read first.
`EditRereads` and `EditOpens` are two actions, and so are opening and writing.
`detached` are the calls whose open file another program has replaced. `serial`
is a history variable: the file, had each call acted at once when it ended.

## 3. Runs

Passing runs, with distinct states on the bounds given in the `.cfg`:

| Run | Bounds | States | Shows |
|---|---|---|---|
| `vault` | 2 callers, 2 hosts and reloads, 3 calls, breaker 2 per 2 ticks | 428k | breaker, single child in use, pipes in step, no misdelivery but from a kept daemon, healthy daemon kept, every call returns |
| `document` | 6 mtimes | 210k | fresh answers but after one race, a lost document opened again, requests end |
| `pool` | 3 tasks, 1 permit, 2 faults | 1.5M | single flight and channel cap while calm; no foreign eviction |
| `pool_live` | 2 tasks, 1 permit | 137k | every operation ends; idle connections leave |
| `audit` | 1 server, 4 records, tail of 2 lines | 46k | linked chain, marked beginning, known tip |
| `gate` | max 0, 1 or 2, window of 2 ticks, some 270 commands | 307k | burst bound, refinement of `BurstLimit`, the command sent is the command judged, a sudo reads the password first but for the named exceptions, wrappers change no verdict |
| `pins` | 2 processes, 4 checks, 2 hosts, 2 keys, 1 fault | 817k | accepted keys are pinned keys, complete pins stay |
| `tools` | 2 calls at a time, 2 versions of a document of 3 hosts, 1 upload | 986k | at most one record, none missing of what changed something, approved targets, refreshes reach everybody, no reference guessed |
| `upload` | 2 chunks, 2 closers, rename replaces or refuses | 162k | one owner, verified delivery, abort delivers nothing, failure loses nothing, total never above the file, create keeps the destination |
| `files` | 2 edits, 2 puts, 1 foreign change | 2.8M | serializable while writes do not overlap |

Why these bounds: two callers are enough for one to wait behind the other and to
receive what the other left, two hosts for the answer to be of another one (an
answer of the other command is told apart by its form); two spawns fill the breaker and the third is
refused; three tasks are a holder, a waiter and one that evicts, and one permit
makes the semaphore bind, and two faults (a connection that
breaks or idles, a live one that refuses a channel) are one after the other or one in
the recovery from the other; six mtimes give room for a save in every
window of three requests; a tail of two lines makes both the cut and the whole
tail happen in files of up to four records; two chunks race with each other and
with a closer, and two closers race for the entry; three checks of one process are
two of one host and one of another behind the same mutex, and the fourth brings the
second process; the commands put every wrapper before every kind of program, and
every separator between any two of some that lead with sudo and some that do not; two
calls at a time are a refresh beside any tool, two refreshes, or a chunk beside the end of its
upload, and the one save takes one host out of the scope and another one in; two edits and two puts give
every pair of modes. Counters that grow (`MaxCalls`, `MaxTime`, `MaxRecords`,
`MaxOps`, `MaxOther`, `MaxFaults`) are bounds of the models, not of the code. Deadlock is not
checked where calls are bounded, since the system then stops by running out of
calls; `SshPool`, whose tasks repeat, is checked for deadlock.

Violations, each a statement of the repository that the code does not keep. The
lines are in `PROJECT.json` under `findings`:

| Run | Statement | What happens |
|---|---|---|
| `vault_answer` | a failed daemon is discarded | after the second failure it is kept; its late answer goes to the next request, perhaps of another host |
| `document_stale` | while the file is locked, the previous document is served as stale | the failed opening has emptied the store, so its hosts are not found; after a reload, until the next save |

Other statements of the repository hold only under a condition, and are checked
with it:

* A child that was discarded is dead before the next one is started, but for one that did
  not get ready: `Drop` sends it a kill and does not wait (`vault.rs:285-287`), so it may
  still have the document open when the next caller starts another. `OneLiveDaemon`
  excepts such children, and only those.
* Single flight (`ssh.rs:259`, `:365`) holds until a connection breaks, idles, refuses a
  channel or times out: tasks whose channel failed dial without the per-host mutex.
  `SingleFlightWhenCalm` is about the time before, as its `calm` says.
* `ssh.rs:399` speaks of a connection that died; the same path is taken when a live server
  refuses another channel. The working connection is then evicted, although others use it,
  and a second one made beside it. `HealthyNotEvicted` excepts the operation whose own open
  failed, and no other.
* The cap on the channels of a host (`ssh.rs:34`) holds until a connection is
  replaced while in use, since the semaphore is the connection's:
  `ChannelCapWhenCalm`.
* The entry of `connect_locks` should go when nobody waits (`ssh.rs:389`). Count
  and removal are not atomic, so it may go while shared; `SingleFlightWhenCalm`
  shows that this alone causes no second dial.
* `chain_restart` marks the first line of a file (`audit.rs:9-10`), and also a line
  written after a tail that could not be read. `append_failed` (`audit.rs:7-8`)
  does not survive a restart. Two servers with one file do not link their lines
  to each other. `ChainLinked` is therefore about one server, and allows restarts.
* The chain advances only over lines that are persisted (`audit.rs:86`): a line that is
  appended behind a torn one is glued to it, `append_line` succeeds, and the chain
  advances although the line cannot be read. `ChainLinked` and `TipKnown` say what
  stays true of the lines around it.
* What was verified is moved (`server.rs:1511`), unless a chunk that had read the entry
  before the finish took it writes between the verification and the rename:
  `QuietDelivery`.
* Every operation is recorded (`CONTEXT.md:41`), but not a `file_edit` that is refused
  because of what it read on the host (`server.rs:1140-1184`), a `file_put` or
  `upload_chunk` whose content is malformed (`:878-898`, `:1415-1425`), a call with the id of
  no upload (`:1439`, `:1521`, `:1717`), a refresh that panics (`:599-604`), nor a call whose
  server dies before the record. `AuditedOnce` says what these have in common: none that
  answers has changed anything, and only the `file_edit` has reached a host.
* A pin that cannot be saved refuses the connection (`README.md:17`), and one that was
  torn by a failed append is not found and pinned anew. Two processes that pin a host
  at the same moment may accept two keys, and the first complete line counts from then
  on: `AcceptedIsPinned`, `CompletePinStays`.
* A refresh replaces the inventory, but the older of two that load side by side may be
  put in place last: `RefreshReaches`. A call that resolved its host before goes on
  with the old address and gets the new credential.
* The password goes only where the final command has `sudo -S`, lest another program read
  it and echo it (`policy.rs:253-259`). That another may is what happens in `cat; sudo id`, where
  `cat` reads it. `FedSudoReads` says that the first that reads is a sudo with `-S`, and
  excepts four cases: a program that reads its input stands before the sudo
  (`ReaderBeforeSudo`); the sudo does not have the channel's input, or something runs in
  the background (`InputElsewhere`); the words are arguments or the end of the name of
  another program, as in `visudo -S` (`MentionsSudo`); a sudo is assigned (`AssignsSudo`).
  A sudo that needs no password, because it asked a moment ago, leaves it to what
  follows; that is outside the model.
* A sudo is looked for where a command begins (`policy.rs:177`), but an assignment of one
  (`A=/bin/sudo dd`) is rewritten as a sudo too, which puts the options before the
  program: `SentAsJudged` excepts it.
* Commands are judged behind common wrappers (`policy-engine.md:26`) with the options of
  `VALUE_OPTS`; behind another option with a value the value is taken for the
  program. An option where a program should stand (`-n dd`) is the program, and a wrapper's
  option when a wrapper stands before it. `WrapperBlind` is about all other commands.
* Only finish touches the destination (`tools-reference.md:148`), but for chunks
  that were on their way: `OnlyStragglersTouch`. The answer "temporário
  removido" is given without knowing. "temporário preservado" (`server.rs:1695-1698`) is false when
  the rename was performed and failed to say so: the temporary is gone, and what was
  verified is whole at the destination. `FailureLosesNothing` says so of the contents.
* Mode create fails on an existing destination (`tools-reference.md:156`) if the
  server's rename does: `CreateKeepsDest`. On such a server mode overwrite cannot
  replace one.
* A document that was saved is seen by the next resolve (ADR-0002), unless the save
  fell between `Open-RoyalDocument` and the reading of the mtime:
  `FreshUnlessRaced`. The old password is then served, without the stale mark,
  until the next save.
* `bytes_total` loses one of two concurrent chunks; `TotalWithinTemp` remains.
* An edit is refused if the file changed since its approval
  (`tools-reference.md:186`), but for the moment between its second read and its
  truncation: `SerialWhenDisjoint`.

### Fairness

`vault` assumes weak fairness of the server's own steps: tokio polls the task
that holds the mutex, and every wait inside has a timeout. Nothing is assumed of
the child. `pool_live` assumes weak fairness of each task, of the reaper's
interval and of time. Weak fairness is enough because tokio's mutex and semaphore
are FIFO, which `waiters` models. `document` assumes it of the daemon's own steps only. It also assumes that a transfer ends: exec has
a timeout, single SFTP reads and writes rely on the library's request timeout.

## 4. Proofs

TLAPS checks these for every value of the constants allowed by the assumptions
that the modules name:

* `Vault_proofs`, of `VaultDaemon`: `TypeCorrect`; `BudgetKept`; `PipesInSync`;
  `MisdeliveryOnlyFromKept`; `NeverTwoDaemons`; `OnlyFailedDiscarded`. The budget
  needs an invariant that says which spawns
  are still in `respawns`: those within the window form a suffix of the history,
  so fewer than `MaxRespawns` recent ones leave room for one more. `InSync` is
  inductive once one adds that the holder waits with a handle and that a new
  child starts with empty pipes; the answer a caller gets is then its own unless
  the daemon was kept. For the children, `Alone` says that of those
  that were not sent a kill none runs but the one in the hand of the holder, which a first
  attempt has put into the cell once it is ready, and that the hand is empty when another is
  started.
* `Vault_proofs`, of `RoyalDocument`: `DocTypeCorrect`; `AnswersFresh`; `LostIsRetried`.
  The invariant says that the store has the file's version as long as the noted mtime
  is the file's and no save was missed, that what a request is about to answer
  with is no older than the request, and that a resolve which opens the document
  again does so behind the file's mtime.
* `AuditLog_proofs`: `TypeCorrect`; `BeginningMarked`, for any number of servers;
  `LoneServerKnowsTip` and `LoneServerLinked`, for one server: the tip a server
  remembers is the last line or a restart, hence neighbouring lines are linked.
* `ExecGate_proofs`: of the limiter, `TypeCorrect`, `BurstBoundKept` and `ImplementsLimit`, both
  from `WindowInv`: what the current count says about the last entries of the
  history, and how far behind the window's start the entries before them are.
  Of the gate, `GateBurstBounded` and `GateKeepsLimit`, since each of its steps is one of the
  limiter or a stutter there; and `GateSentAsJudged`,
  `GateFedSudoReads` and `GateWrapperBlind`, from `GateInv`, which says that the exec
  being answered has a command of `Commands` and what the policy makes of it. The rest is
  about `Policy`, for every sequence of words. `SeenIs` unfolds the scan of a segment;
  `InsertedSkipped` and `FormSkipped` say that the options that `rewrite_sudo` inserts and
  a wrapper with its options leave the scan in a state from which the next words have
  the same program. `RewriteLaysOut` says where in the rewritten command each word
  stands (`Laid`), and `StretchSpread` and `SpreadStretch` that its segments are those of
  the command, word for word but for the options (`Spread`). So the segments have
  the same programs (`ProgramsKept`), and no pattern arises (`PatternKept`). The password:
  a `sudo -S` of what is sent leads a segment that has the input, as it did in the command
  (`SudoOnInput`), and a segment before it that reads the input did so there (`ReadsAlready`).
  A recursive
  function is unfolded after its existence is proved (`SeenExists`, `FlattenExists`) by
  induction over the set of numbers it is proved for (`UpTo`), which asks for no operator
  parameter. Assumed of the constants: what the words `-S`, `-p` and `''` are, that an
  assignment is no option, that `base_name` changes no separator (`PolicyAssumption`), and
  what a wrapper's form is (`GateAssumption`).
* `SshPool_proofs`: `TypeCorrect`, `SingleFlight`, `ChannelCap` and `NoForeignEviction`, for
  any number of operations, from `IInv`. It says which stages hold a connection and which
  the mutex of the host (`Holding`), that the operations with a channel of a connection
  are no more than its permits (`PermitsKept`), and what is left to do while `calm`
  (`Calm`): without an entry in the pool no connection exists, no operation has
  one, all have the host's mutex or none, and one at most is inside it (`Cold`); with an
  entry it is the only connection and nobody dials (`Warm`). Assumed of the constants:
  two connections for each operation and one more, and as many mutexes as operations
  (`PoolAssumption`), so that a new one always has a free identity.
* `KnownHosts_proofs`: `TypeCorrect`; `PinsStay`, since a step of any check adds behind
  the complete lines, and the first line of a host is the one that counts;
  `AcceptedPinned`, from `Inv`: while calm, one check at most appends, what is open is
  what it has written so far, its host has no line yet, and every accepted key is the
  one of the first complete line of its host.
* `Tools_proofs`: `NeverGuessed`, a fact about `Resolved` for every document;
  `RecordedOnce`, `OnlyApproved` and `RefreshesReach` from `IInv`. It says what the
  stages that a call has still to do imply for what it has: no record yet, and nothing
  changed that none would follow (`Sound`), an approval of its target or an `ask` still before it (`Asked`), a target,
  a credential and a load that are no older than what refreshes before it read
  (`Fresh`); that the approval of an upload is for its target (`Vouched`); and that
  the inventory and the daemon do not go back, unless refreshes overlapped (`Forward`).
* `Upload_proofs`: the properties of the run `upload`, one theorem each, from `IInv`, a
  conjunction of named parts: who owns the upload (`Owned`), what a finish past the
  hash has seen (`Checked`), which names and handles are apart (`Apart`), what the
  total counts (`Counted`), that what was verified is in the temporary or whole in the
  destination (`Kept`), which chunks were
  on their way when the entry was taken (`Quiet`), and what the temporary and the
  destination then hold (`Delivered`, `Unmixed`). Assumed of the constants: there are
  two files more than chunks (`UploadAssumption`), so that a new file always has a free
  inode; `Files` is a set of names, not a limit of the code.

* `FileOps_proofs`: `TypeCorrect`; `Serializable`, from `Disjoint`: while no write has
  begun during another, one call at most writes, the history is at the content that this
  call saw, and the file is that content, cut by its mode.

Left to TLC: liveness (`EveryCallReturns`, `EveryOperationEnds`, `IdleConnectionCloses`,
`RequestsEnd`), which needs fairness and ENABLED. Every safety property of a run has a
theorem. What the proofs about `Policy` do not say is that its operators read a word as the
code reads its letters: that is given by the constants. The type
invariants that have a theorem are not checked again by a run, but for those of `SshPool`,
which also says that an operation that has ended holds nothing, and of `Upload` and `FileOps`.

## 5. What is not modelled

* The contents of requests, credentials, paths and error messages, and the letters of
  commands: what quotes, case and blanks make of them is taken over by the constants
  of `Policy`.
* More than one host in the pool, more than one path: the code keeps its state by
  them, so they do not interact. `Upload` is about one upload; `Tools` keeps the map of
  several, with one of them in its run.
* The bytes of two servers' appends mixing within one audit line.
* A chunk of an SFTP write of more than one packet being interleaved with
  another: a write lands whole, in part (`torn`, a prefix) or not at all.
* The authentication of a connection (`connect_and_auth`), which keeps no state; the output
  of exec and its truncation; the glob of the name filter of `query_hosts`.
* `config.rs`, `model.rs`, `secret.rs`: plain data; `royal.rs` and its scripts: one
  run of pwsh; `main.rs`: the startup, in `Tools.Restart`, and commands for diagnosis that
  call the modelled operations once.

## 6. Plan

All modules of the plan are written, and every safety property that a run checks has a
theorem. What is left, in the order of its worth:

1. Refinements between modules: `Tools` sees as one step what `Upload`, `FileOps`,
   `SshPool` and `VaultDaemon` have inside, and an abstract module of what the vault client
   promises its callers would let `Tools` rest on a theorem.
2. Under which conditions a torn line of the audit trail shows when it is read again.
