# Orkia: models, checks and proofs

TLA+ models of the parts of Orkia in which processes, threads and files meet:
the SEAL audit chains, the journal that feeds them, the daemon that owns the
journal and the detached agents, the RFC state service and the dispatch of an RFC
to agents, the capture of what agents answer, and the publisher of events. Every
definition that models code is listed in `PROJECT.json` under `map` with the lines it
stands for. Paths below are relative to the repository.

- [1. The system](#1-the-system)
- [2. Modules and how they correspond to the code](#2-modules-and-how-they-correspond-to-the-code)
- [3. Runs](#3-runs)
- [4. Proofs](#4-proofs)
- [5. What the models show the code not to do](#5-what-the-models-show-the-code-not-to-do)
- [6. Not modelled](#6-not-modelled)
- [7. Plan](#7-plan)

## 1. The system

Orkia is a shell that runs coding agents as jobs. A REPL process spawns agents
in PTYs; agents report what they do through hooks, sent as JSON envelopes to a
Unix socket (`orkia.sock`); a background daemon owns that socket so that agents
survive a REPL; what agents did is sealed in hash-chained NDJSON files; and
agents work on RFC documents through MCP tools while a human reviews them.

### Inventory

| Component | State it keeps | Operations | Talks to |
|---|---|---|---|
| SEAL chain (`orkia-shell/src/seal/chain.rs`) | one NDJSON file, an in-memory mirror per process, `next_seq`, `closed` | load, quarantine, append, close, verify | the file system; other processes that open the same file |
| SEAL manager and consumer (`seal/manager.rs`, `seal/consumer/mod.rs`) | map of open job chains, project chains, the workspace chain, `job_projects` | create_job_chain (archives a stale file), seal_*, close, evict, route, close_job_and_link | the event bus, SEAL chains |
| Event router and drains (`protocol/*`, `repl/drains.rs`) | dedup window per (job, tag); two queues the REPL loop drains | on_hook, on_spawn, drain_job_events, drain_journal_events | listener (live), REPL loop (late), consumer's bus |
| Job spawning (`job/spawn.rs`, `job/lifecycle.rs`) | the job table | spawn, on_spawn, exit | terminal engine, router |
| Journal hub (`orkia-journal-hub`) | `orkia.sock`, `hub_seq` counter, broadcast bus of 1024 | accept, stamp, fan out, disk tee, live handlers | agents, daemon, REPL |
| Daemon journal host (`bins/orkia/src/pty_daemon/journal_host.rs`) | sink, generation, `streamed_through`, `replay_high`, pending MCP map | attach_subscriber, forwarder, writer thread per subscriber, dispatch, resolve_mcp | hub, subscribed REPL |
| Daemon lock and startup (`pty_daemon/lock.rs`, `pty_daemon.rs`, `client_api.rs`) | `pty-daemon.lock` with a pid, two socket paths | acquire with stale reclaim, unlink and bind twice, teardown, REPL fallback | other daemons, REPLs |
| RFC service (`orkia-rfc-state`, `orkia-rfc-lock`, `orkia-rfc-core`) | `rfcs/<id>.md`, `decisions/<id>.jsonl`, archives; per process a write lock, a mutex and a decision counter | create, ask, log_decision, resolve_clarification, propose_edit, promote, complete, abandon, reopen, release, reap | MCP connections, the human's REPL thread, a reaper task; the services of other processes only through the files |
| Daemon runtimes (`pty_daemon.rs`, `pty_daemon/recovery.rs`, `audit.rs`, `client_api.rs`) | actor's job table, next id, a cache file per job, audit trail | spawn, list, gc, kill, stop, reap, wait, restart | REPLs and other clients, the runtimes' control sockets |
| RFC dispatch (`orkia-dispatch-proxy`) | `.run.toml`, an issue file per task, the dispatch chain; in memory the job-to-task map, wave queue, round | start, resume, abort, process a wave, absorb a response, gate on an oracle, retry, finalize, re-plan | kernel (authorize, advance, finalize), detached jobs, the shell's response source |
| Final responses (`orkia-final-response`) | in-flight keys, numbered files and index per job, latest-event cache | on_stop, extract with retries, persist, publish | hub's stop-hook subscriber, native sessions, journal |
| Event stream publisher (`orkia-stream`) | cursor file, offsets, journal queue, pending and held batches, pause flag | start, pause, resume, shutdown, poll, gate, flush, push with retries | SEAL files, journal bus, sign-in, backend |
| Pipelines, injection, attention, terminal engine | stage hand-over, queues, snapshots | see `PROJECT.json` | |
| Kernel client, reasoning, forge, plugins, cage, language, TUI, accounts | requests, queries, formats | see `PROJECT.json` | services outside the repository |

### What is hard here, and what correctness means

- **SEAL chain.** `writeln!` is two writes; a crash or a second process can come
  between any two of them, and `prev_hash` comes from a mirror read once. Correct:
  the file verifies, acknowledged records are found again, nothing follows a
  terminal record, memory never runs ahead of the disk, tampering shows.
- **SEAL manager.** Job ids restart with each process, so a spawn meets the chain of
  an earlier job at its own path. Correct: a file is about one job, a
  `job.reference` pins the terminal record of its own job, once.
- **Routing.** A hook reaches the router twice, from the listener and from the
  drain; an exit is drained before the hooks queued behind it. Correct: one
  terminal record per job, no hook lost that reached the router in time, every exit
  closes its chain.
- **Journal replay.** Stamping, persisting, forwarding, attaching and writing are
  threads with two cursors; every Subscribe attaches on a thread of its own, and no
  lock spans an attach. Correct: the file is ordered by `hub_seq` across
  crashes, a subscriber sees its backlog first and to the end.
- **MCP proxy.** A call blocks without a timeout on a map that four parties
  change. Correct: nothing leaks, nothing waits on a writer that is over, the calls
  of a replaced subscriber are answered.
- **Daemon startup.** A lock file judged by its content and removed by its path; two
  sockets bound by unlink-and-bind. Correct: one owner, reachable, and a race has a
  winner.
- **RFC service.** Agents' calls run on connection tasks, the human's on the REPL
  thread; only `propose_edit` holds a mutex from load to save, and that is a mutex of
  its process: the shell and each detached runtime (`repl/journal.rs:35-107`,
  `job/spawn.rs:87-117`) have a service of their own (`rfc_state.rs:94-146`). A reopen
  is five file operations, a decision two writes. Correct: no edit lost to an older
  one of its process, ids and answers unique across restarts of the process that
  issues them, written decisions and old versions kept, nothing active unreviewed.
- **Daemon runtimes.** The daemon may die between starting a process and recording
  it; the next one owns nothing and knows its predecessor's jobs from cache files,
  which a plain `list` also rewrites in place and cleans up, and which are written
  without looking at the result. Correct: what runs stays listed under an id
  of its own, what leaves is accounted for, `wait` does not call a running job done.
- **RFC dispatch.** Starting a job and writing its issue, sealing an output and
  claiming it, telling the kernel and remembering it are separate effects, and the
  shell may die between any two; a seal is itself two writes. Correct: nothing claimed
  that was not written to the chain, each
  release answered once, gates held, outputs made from current inputs, runs end.
- **Final responses.** Stop hooks are repeated, extractions of several jobs overlap,
  writes fail half way. Correct: a numbered response never changes, an announced
  one is filed, the cache agrees with journal and file, every Stop taken up is
  answered and its key freed.
- **Stream publisher.** Records are read ahead of a cursor that is saved by batch,
  batches fail, are put back, are lost with the process or taken without an answer.
  Correct: the saved cursor passes only over settled records, order is kept,
  nothing leaves against its scope, what is public is settled in the end.

`PROJECT.json` lists the hazards one by one, each with its line.

## 2. Modules and how they correspond to the code

| Module | Models | Composes with |
|---|---|---|
| `SealLog` | abstract: an append-only, hash-linked log that a terminal record closes | refined by `SealChain` |
| `SealChain` | `seal/chain.rs`, one chain, several processes, faults | `Log == INSTANCE SealLog WITH log <- ParsedFile, ...` |
| `MCSealChain` | symmetry of processes | |
| `SealChainProof` | theorems about `SealChain`: with one writer, and with any writers and faults | |
| `SealJobs` | `seal/manager.rs` and the closing half of `seal/consumer/mod.rs` | takes chains as sequences of records; below that is `SealChain` |
| `SealJobsProof` | theorems about `SealJobs` with one process | |
| `SealRouting` | spawn path, listener, drains, dedup window, consumer | takes job chains as `none / open / evicted`; below that is `SealJobs` |
| `JournalReplay` | hub fanout and tee, forwarder, attach, writers, crashes of the daemon | |
| `McpProxy` | the pending map of the same host and the threads that touch it | |
| `DaemonStartup` | lock, both sockets, teardown, REPL fallback | |
| `DaemonStartupProof` | theorems about it | |
| `Rfc` | the RFC service, one RFC | |
| `MCRfc`, `RfcProof` | symmetry of agents; theorems about `Rfc` | |
| `DaemonJobs` | the daemon's actor and cache, recovery after a restart, a waiting client | the daemon whose start `DaemonStartup` models |
| `JobsProof` | theorems about `DaemonJobs` and `SealRouting` | |
| `Dispatch` | one dispatch run: driver, issues, chain, oracles, crashes of the shell | takes jobs as `DaemonJobs` runs them and answers as `FinalResponse` publishes them |
| `MCDispatch`, `DispatchProof` | the two-task DAG of the run; theorems for every DAG, and about `McpProxy` | |
| `FinalResponse` | capture, filing and publication of turns | fed by Stop hooks as `SealRouting`, answers read by `Dispatch` |
| `FinalResponseProof` | theorems about it when a job has one session | |
| `StreamPublisher` | the publisher task with its cursor and its pushes | tails chains as `SealChain` writes them |
| `StreamsProof` | theorems about `StreamPublisher` and `JournalReplay` | |
| `Filter` | `Keep(s, K)`, Rust's `Iterator::filter`, as a recursive function that can be reasoned about | used by `SealRouting`, `JournalReplay`, `StreamPublisher` |

Three proof modules each extend two specifications that share no variable. So that
their names do not meet, the specification-level names of `SealRouting`, `McpProxy` and
`StreamPublisher` carry a prefix (`RoutingSpec`, `ProxySpec`, `StreamSpec`). `StreamSpec`
is the publisher without fairness, `StreamFairSpec` the one its run checks.

**SealChain.** `file` is a sequence of lines and a line a sequence of the pieces
written to it, so a record glued to an unterminated one is representable and, as in
`load`, does not parse. `chain[p]` is the `SealChain` struct of process `p`;
`StartAppend`/`AppendLine`/`AppendNewline` are the steps of `append_with_rfc`
between which another process can run; `AppendTorn` and `AppendUnterminated` are its
error paths; `Load` and `LoadQuarantines` are `load` and `load_or_quarantine`. SHA-256
is an injective function (`oracle`), which is what the code relies on.

**SealJobs.** One agent name and one project, the case in which paths collide.
`RouteSpawn` is `create_job_chain` with the archiving rename, `RouteSessionEnd` the
whole of `close_job_and_link`: terminal record, close, `job.reference`, evict, with
each write allowed to fail. `inst` is a history tag that says which run a record is
about. `LoadChain` is a load that succeeds; a chain that cannot be read is quarantined
and takes no records, which for the files is what a refused append is, and `SealChain`
has the path in full. `open_job_chain` is the same load without the archiving, for the
daemon's audit chains, which have their own agent name and no second job at a path.

**SealRouting.** `loop` follows the REPL loop: the two drains, then the prompt, where
it stays until `ReadLine`; `Quit` is `process::exit` or a kill, after which nothing
more is drained or consumed.
`HookArrives` includes the live handler the listener fires before it queues the
envelope; `recent` is the dedup window, which `WindowCloses` ends at any time;
`Consume` is the consumer's `route`. `history` records which hooks the code owes.

**JournalReplay.** `attach_subscriber` takes no lock, so an attach is five steps that
interleave with those of others: `AttachLoad` reads the cursor, `AttachRead` the file,
`AttachArm` stores `replay_high` and queues the backlog, `AttachBump` takes a
generation, `AttachInstall` swaps the sink. `lapped` marks a session that armed while
another attach had read the file and not yet armed;
`ForwardCheck`/`ForwardSend` are the two steps of the forwarder; `WriterExits` and
`WriterClears` those of a writer's teardown. A daemon crash loses what was stamped
and not persisted, and the next daemon seeds counter and cursor from the file.
`Sent` is the broadcast bus: at its capacity it overwrites the oldest envelope the
tee has not received, `Tee` and `Persist` are the tee task and the writer thread.

**McpProxy.** `Dispatch`, `Send`, `Withdraw`/`Offline`, `Receive` follow
`ProxyMcpDispatcher::dispatch` step by step; attach and writer threads are the
other side. A session is known by its generation, and two attaches may swap the sink
in the other order than they took their generations.

**DaemonStartup.** `pc[d]` is the program counter of `run_server`; `create0` and
`create1` are the two attempts of `acquire`. A failed start takes the early returns
and ends in `stuck`, because the journal host is dropped before the runtime there.
`RecordPid` may write nothing: the code ignores the error, and the lock then has no
pid anybody could judge stale.

**Rfc.** `home[t]` is the process of a thread, the same for all of them or not; `lock`,
`seq` and the mutex exist once per process, and `Start` is the first RFC call in one,
which reads the counter from the live log. `op[t]` is the call a thread is in, with what
it loaded: each read and each write of `transition`, `reopen`, `ask`,
`resolve_clarification` and `propose_edit` is its own step, except that `propose_edit`
keeps `MutexFree` of its process false from load to save. A decision is written by
`AppendLine` and `AppendNewline`, the two writes of `writeln!`, between which another
thread can write; then two records are on one line (`glued`) and `read_all` fails.
The last answer's own transition loads again in the same step as it counts; nobody
else writes the file in draft-empty, so the step can be one. A body is a number in
the order of the loads, and so stands for its content hash; `edits` says in which
process it was proposed. `IoFails` lets any write fail, `Crash` kills one process:
files stay, its lock and its calls are gone.

Three history fields in `Rfc` mark what the code does not keep, so that the
properties say what it does: `late`, a design decision written after `promote` had
counted; `torn`, a record written while a reopen is between its copy and its removal
of the log or on the line of another, or an edit saved over another version than it
loaded; `issuers`, the processes that handed out decision ids.

**DaemonJobs.** A request handler of the actor is one action, since the actor
serves one request at a time; only `handle_spawn` is two (`Start`, `Record`),
because a daemon that dies in between leaves a process no file names, and a death can
fall inside a collection (`CrashCollecting`) or a kill (`CrashKilling`), after
`job.json` is removed and before the event. `cache` is the set of `job.json` files. A
write of one has three outcomes: the new entry, the old one (the write failed), or a
file `read_job_caches` skips; `torn` is the set of runtimes whose entry is in that
state. `HandleList` writes the entries of the live jobs again and then removes entries
that say done, and corpses, as they are reported. Removals and audit writes succeed
while the daemon lives. `Kill` and `Stop` remove the
job from the table before they signal, as the code does; `RecoveryKill` goes by the
cached pid. `w` is a client in `wait`, whose polls are lists that count as lists for
everyone else.

**Dispatch.** `step` is the point the driver thread has reached between two effects
that a crash can separate; with an empty queue it waits for a message (`Idle`). An
issue file is a record of status, job, attempt and whether a response text was
captured: `parse` drops a blank one, and `dep_contexts` then cannot find it. `chain` is
the dispatch chain: the records that can be read, the one whose newline is missing
(`loose`) and those on a line that does not parse (`spoilt`). `Cut` is an append that
stops within the line, before the newline or at the fsync, `Sealed` one that completes:
`tip` accepts an unterminated last line, and the record ends up on it. A
prompt is represented by the dependency jobs whose answers it embeds. The kernel is
external: `kern` is the DAG state its contract (`dispatch_kernel.rs`) describes. A
run that resumes authorizes afresh and reconciles each released task with its issue;
a daemon that does not answer looks like one without jobs there (`run.rs:364-369`). Two
restrictions: a job answers once, and the accept declarations do not change between
start and resume (`run.rs:268-271` drops a verifying issue whose oracle is gone).

**FinalResponse.** A text is the number of the turn it closes. `tasks` are the
extraction tasks with their program counter; `Extract` reads what the transcript
shows, which may be nothing yet and is retried; `Number`, `WriteHistory`,
`WriteCurrent`, `AppendIndex` are the file operations of `persist_response`; `Send`,
`Put` and `Release` are the envelope, the cache and the in-flight key.

**StreamPublisher.** `pc` follows one turn of the loop in `run`: poll, process what
was read, drain the journal queue, flush, push. `pending`, `held` and `batch` are the
batcher's two stores and the batch being pushed, each with the marks it will advance
the cursor to. `keyed` says that the backend has seen the key of this push. `ledger`
holds what was turned away or refused, so that the properties can tell it apart.

## 3. Runs

All runs are exhaustive within their bounds. Several invariants are conjunctions of named
parts, given in brackets; the module defines and explains each part by itself.

| Run | Bounds | Shows |
|---|---|---|
| `SealChain_sole` | 1 process, 4 events (2 terminal), 4 records, no fault | `ChainVerifies`, `AckedDurable`, `TamperEvident` (every selection of up to four records), refinement of `SealLog`, which says among others that nothing follows a terminal record |
| `SealChain_faults` | 2 processes, 3 records, 2 faults of 4 kinds | what survives sharing and faults: `MirrorSound` (types, `MirrorOnlyWritten`), `MirrorKeepsVerifying` |
| `SealJobs_sole` | 1 process, 2 job ids, 6 records, 2 faults, 2 restarts | `JobChainsSound` (types, `ChainsVerify`, `OneJobPerChain`), `ReferencesSound` (`ReferencePinsTerminal`, `ReferencedOnce`) |
| `SealRouting_live` | 1 job, 3 hooks, a shell that may quit at any time | `ClosedOnce` (types, `EndsOnce`, `ReferencesMatchProjects`), `LiveHooksSealed`, liveness `ExitSeals` |
| `JournalReplay_stream` | 2 envelopes on a bus of 1, 2 subscribers whose attaches may overlap, 1 crash | `NumberingSound` (types, `JournalOrdered`, `CursorBehindStamp`), `JoinSound` (`BacklogFirst`, `JoinRepeatsAtMostOne`), liveness `BacklogDelivered` |
| `McpProxy_table` | 2 calls, 2 subscribers | `PendingSound` (types, `PendingIsLive`, `NoOrphans`), liveness `ReplacedReleases` |
| `DaemonStartup_race` | 3 daemons, 1 REPL, 2 crashes | `SoleOwnerUntilReclaim`, `ReachableUntilReclaim`, `SomeoneWins`; the type invariant is proved instead (section 4) |
| `Rfc_review` | 2 agents and the human in 2 processes, every assignment of agents to processes, 2 decision ids and 3 ids and edits together, 2 versions, 1 failed write or crash | `EditsInOrder`, `LogWellFormed`, `NothingLost` (types, `DecisionsKept`, `VersionsArchived`), `PromotedReviewed` |
| `DaemonJobs_restart` | 2 runtimes, ids up to 3, any cache write failing, 2 deaths of the daemon, 1 waiting client | `RosterSound` (types, `RosterComplete`, `IdsFresh`), `Accounted`, `WaitSound`, liveness `RosterDrains` |
| `Dispatch_run` | 2 tasks in a chain, an oracle with 2 attempts, 1 re-plan, 4 jobs, 1 fault (a failed or cut write, or a crash) | `SealedBeforeClaimed`, `OneOutcome`, `GateHeld`, `InputsSound` (types, `DependenciesFinished`, `FreshOutputs`), liveness `Terminates` |
| `FinalResponse_capture` | 3 jobs (2 native), 3 turns, cache of 2, 2 attempts, 1 failed write | `AnsweredIsFiled`, `LatestSound` (types, `CurrentIsLatest`, `LatestIsLast`), action property `HistoryImmutable`, liveness `StopAnswered` |
| `StreamPublisher_push` | 1 chain of 2 records and 1 envelope, batches of 2, 2 attempts, 1 change of login or pause, 2 faults | `CursorSound` (types, `NothingSkipped`, `MemoryIsSpare`), `DeliveredInOrder` (`InOrder`, `SentOnce`), `FailClosed`, liveness `PublicSettled` |

**Why the bounds are enough to be interesting.** A chain needs three records for a
middle one to be dropped or re-ordered, a fourth for a terminal one among them.
Id re-use needs one restart; the second lets an archived file meet another. The
routing hazards need a tool call, a Stop and a late hook. Two subscribers give one
replacement, and one crash between a stamp and its persistence. The lock race needs
a dead holder and two competitors; a third daemon starts while they tear down. For
RFCs, one question must be answered to leave draft-empty, so a design decision is
the second id; two edits are a lost update, and three calls in all leave room for an
edit beside two ids or an id beside two edits; a crash may fall between any two file
operations of the one reopen, and lets ids be issued again afterwards; two processes
put the agents on one mutex and counter or on two. A restarted
daemon needs one runtime it inherits and one it starts; two deaths let an id come
from a cache that was itself inherited, and one of them to fall between a removal and
its event. A dispatch run needs a dependency, a gated
task that is retried, and a round that re-opens part of the DAG: the four jobs are
those of a run with one retry or one re-plan. Captures need more jobs than the
cache holds, and a third turn of one job while another's is extracted. The
publisher needs a batch that is put back while the next record is read. Each property
of a run has a mutant of the code (`mutants` in `PROJECT.json`) that
violates it within the same bounds.

**Deadlock.** `SealJobs_sole`, `SealRouting_live`, `JournalReplay_stream`, `McpProxy_table`,
`DaemonStartup_race` and the last four do not check it: their behaviours end when
the bounded supply of jobs, envelopes, calls, turns or processes is used up, or the
shell has quit. The others check it: a SEAL process can always exit and load again, and
the human can always ask for a transition.

**Fairness.** `SealRouting`: a drain the loop has reached is carried out and the consumer
task keeps receiving while the shell runs; nothing is assumed of agents, of the user at
the prompt or of the shell's staying. `ExitSeals` therefore has the premise that the
loop comes back to its drains again and again (`[]<>(loop = "jobs")`): drains run only
between calls of `read_line`, which block (`repl/core.rs:94-113`), and a shell that
quits seals nothing more. `JournalReplay`: the tee, the forwarder, an
attach that began and the writer threads run on; a write to a live REPL succeeds.
`McpProxy`: the same threads, the dispatching connection, and the reader that
resolves a reply; no REPL is assumed to answer. `DaemonJobs`: the next client starts
the daemon again, the actor finishes a spawn it began, and clients go on listing,
as a REPL's `ps` and its lookups of a running agent do; without a list nothing
cleans the cache, and the code does not claim otherwise. `Dispatch`: the driver and
oracle threads run, the stream is drained, and a live agent ends its turn; nobody is
obliged to resume, and an agent may die. `FinalResponse`: every task runs to its end.
`StreamPublisher`: the task runs and its interval passes; strong fairness on `Flush`
because pauses come and go, and on `PushAccepted` because no client can promise more
than that a backend which is asked for ever answers at last. The other
specifications are safety only.

## 4. Proofs

All theorems hold for every value of the constants, under the named `ASSUME`s of
their modules (`ChainConstants`, `JobsConstants`, ...), which TLC evaluates in the
runs. A theorem that needs more states it as a hypothesis. Each inductive invariant
is a conjunction of named parts, was checked by TLC on the bounds of the run before
it was proved, and is preserved by one lemma or step per action.

| Module | Theorem: property | Hypothesis |
|---|---|---|
| `SealChainProof` | `SoleChainVerifies`: `ChainVerifies`; `SoleAckedDurable`: `AckedDurable`; `SoleTamperEvident`: `TamperEvident`; `SoleImplementsSealLog`: refinement; `SoleNothingAfterTerminal` | `SoleWriter(w)` |
| | `MirrorAlwaysSound`: `MirrorSound`; `MirrorsKeepVerifying`: `MirrorKeepsVerifying` | none: any processes, any faults |
| `SealJobsProof` | `JobChainsAlwaysSound`: `JobChainsSound`; `ReferencesAlwaysSound`: `ReferencesSound` | `Procs = {p}` |
| `DaemonStartupProof` | `TypeCorrect`; `LockExcludes`: `SoleOwnerUntilReclaim`; `ServingIsReachable`: `ReachableUntilReclaim`; `RaceIsWon`: `SomeoneWins` | none |
| `RfcProof` | `EditsNeverLost`: `EditsInOrder`; `LogAlwaysWellFormed`: `LogWellFormed`; `NothingEverLost`: `NothingLost`; `PromotedAlwaysReviewed`: `PromotedReviewed` | none |
| `JobsProof` | `RosterAlwaysSound`: `RosterSound`; `AlwaysAccounted`: `Accounted`; `WaitAlwaysSound`: `WaitSound` | none |
| | `JobsAlwaysClosedOnce`: `ClosedOnce`; `LiveHooksAlwaysSealed`: `LiveHooksSealed` | none |
| `FinalResponseProof` | `AnswersAlwaysFiled`: `AnsweredIsFiled`; `LatestAlwaysSound`: `LatestSound`; `HistoryNeverRewritten`: `HistoryImmutable` | `OneSession` |
| `DispatchProof` | `ClaimsAlwaysSealed`: `SealedBeforeClaimed`; `OutcomesReportedOnce`: `OneOutcome`; `GateAlwaysHeld`: `GateHeld`; `InputsAlwaysSound`: `InputsSound` | none |
| | `PendingAlwaysSound`: `PendingSound` | none |
| `StreamsProof` | `CursorAlwaysSound`: `CursorSound`; `AlwaysDeliveredInOrder`: `DeliveredInOrder`; `AlwaysFailClosed`: `FailClosed` | none |
| | `NumberingAlwaysSound`: `NumberingSound`; `JoinAlwaysSound`: `JoinSound` | none |

**SealChainProof, one writer.** `SoleWriter(w)`: the only process is `w` and the
only fault is a file that cannot be read at load. `SoleInv(w)` says that the digests
handed out are `1, 2, ...`, that line `i` of the file is the record with digest `i`,
written in full, and that the mirror is one of three: *inert* (not loaded, or closed
by a quarantine), *settled* (equal to the file) or *ahead* (one line written whose
newline is pending). It is needed because `ChainVerifies` says nothing of the
mirror from which the next `prev_hash` is taken. From it follow the five theorems;
the core of `SoleTamperEvident` is that a selection of records that verifies must
begin with the first and go on one by one (`SelectionIsPrefix`, by a least
counterexample).

**SealChainProof, any writers.** `MirrorInv` keeps what is left when several
processes write and writes fail: a digest in the file was computed
(`DigestsComputed`), and the record of an append under way is in the file in full,
extends the mirror it was made from and carries its own digest (`PendingExtends`).
What a load reads back is what the file holds, which needs a fact about the recursive
`ParsedFile`: every record it returns is a whole piece of some line, shown by taking
a least prefix for which that fails.

**SealJobsProof.** With two processes the properties fail (section 5), so the theorems
are about one. `SoleInv(p)`: every file is sound for the faults so far
(`FilesSound`), a chain in memory equals its file and is about the run the process
knows by its id (`HeldChains`), two chains in memory are about two runs
(`RunsApart`), the project chain in memory is the file (`ProjectMirrored`), and a run
that was referenced has no chain in memory any more (`ReferencedOver`), which is why
`close_job_and_link` refers to a run only once.

**DispatchProof, the proxy.** To `PendingIsLive` and `NoOrphans` the invariant adds that a reply
took its call out of the map (`RepliedLeft`) and that a call which waits was sent to
some subscriber (`SentSomewhere`).

**DaemonStartupProof.** Until the first reclaim the lock file is its holder's own
(`HolderMadeLock`), only a holder has a hub (`HostsHold`), and the paths name the
holder's sockets (`PathsOwn`); without the first, an unlink by another daemon could
not be excluded. Whether the pid was written plays no part. `RaceIsWon` rests on a
history of the lock: a daemon that found it taken found somebody who won (`LockWon`).

**RfcProof.** For `EditsNeverLost` the invariant adds that no thread and no file has
a body not yet handed out (`BodiesKnown`) and that an edit in flight has the newest
body proposed in its process: the file's and what any other thread remembers, the
human's transitions included, is older or of another process, and no second edit of
the process is in flight (`NewestInFlight`). The lock is not used in the argument: it is
the mutex that serialises edits, and a lock that expires or is released by force in
the middle does no harm. The other three share `RfcInv`: unless an edit was saved over
another version, a thread's remembered version is on the right side of the file's
(`VersionOrder`); what a thread is about to write has its predecessors archived
(`ArchivedBefore`); every id in use was handed out (`IdsCounted`); with one issuing
process, ids about to be written differ (`PendingFresh`) and are not in the log, and an
answer about to be written has its question there (`LogFresh`); a version about to
become active is reviewed (`Reviewed`); a written decision is in the log or in an
archive, and in an archive while a reopen may remove the log (`WrittenKept`). `MaxNat`
and its neighbours say what the counts over the log return.

**JobsProof, the daemon's runtimes.** `RosterInv`: a cache entry belongs to a recorded
runtime and lies under its id (`EntriesOwn`); the runtimes the actor owns, and those
that run and were not told to end, have their entry, or none if the last write lost it
(`OwnEntry`); the ids of owned runtimes differ (`OwnedIds`), ids to come are above the
cached ones (`IdsAhead`), the runtime between start and record has an id no entry uses
(`StartingFresh`). `Accounted` and `WaitSound` need it because `list`, `gc` and `wait`
remove entries they judge by the runtime an entry names. `SilentFew` counts: a death
leaves at most one removed entry without its event.

**JobsProof, routing.** `CloseInv`: before `on_spawn` nothing is known of a job, and
after it the genesis record is sealed or on its way once (`SpawnOnce`); only a spawned
job completes or stops (`SourcesSpawned`); an end is queued behind its job's genesis
(`EndsAfterSpawn`); the log of a chain is empty, open or closed by its last record
(`LogShape`); a project's job stays registered until its chain is closed
(`StaysRegistered`). `HookInv` adds that an end on the bus counts as an end
(`EndsKnown`) and that an owed hook is sealed or stands on the bus behind the genesis
and before every end (`OwedReaches`); without its place on the bus an end could
overtake it.

**FinalResponseProof.** `OneSession`: a job has one session, as in the run; with two,
the in-flight key admits two tasks of a job and the properties fail (section 5).
`CaptureInv`: one task of a job runs (`OneTask`), there is a number left for every turn
(`NumbersLeft`), what a task has written is what it holds (`TasksWritten`),
announced responses are filed (`EventsFiled`), the cache disagrees with the current
file only while a task is on its way to the cache (`CurrentKnown`), queue and map
of the cache name the same jobs, each once (`CacheSound`), and the last event of a job
is cached, or about to be, or was evicted by a full cache (`LastCached`).

**DispatchProof, the dispatch run.** For any finite DAG; its shape is not used otherwise, since the
kernel releases a task only when its dependencies are done. A task is *held* by the
driver when it is queued, in a handler, awaited as a job, or with an oracle.
`DispatchInv`: a task is held in one place, once (`HeldOnce`); the kernel has every held
task in flight, and the dependencies of a held task are finished, not held and not
about to be reset (`Released`); what is on its way to the driver is about the issue
as it stands (`TaskMail`); what the driver knows between two effects is what the disk
and the chain say (`StepFacts`); outside of the waves nothing is awaited, and a drained
run has every output (`Phases`); a claim has its record among those written (`Claimed`).
What an append leaves of the chain is said once (`SealShape`: at most one line without a
newline, and then at most two records on a line that does not parse, because `tip`
refuses such a chain ever after). Unless a run was
resumed, a task not yet released is not started (`NotStarted`), and a started one
used the outputs its dependencies have now (`UsedPresent`). `TaskStep` does the common
work of every step that concerns one task, `DriverEnds` of every end, `AdvanceStep`
of the kernel's answer, `MailStep` of what happens around the driver.

**StreamsProof, the publisher.** Of the batches in memory one goes out next: `Old`, the
batch being pushed or, when it was put back, the held one; there is never a third
(`Shape`). `StreamInv` says where everything came from (`Origins`) and that only what the
gate let through is batched (`Gated`); that `Old`, the pending batch and the lines
still to be processed follow one another in every chain (`Queued`), with the cursors,
the marks of the two batches and the reader's offset in that order (`Standing`); that
the cursors pass only over settled records (`Passed`) and that what was read is settled
or in memory as long as the task may still settle it (`Remembered`). The last is what
makes `CursorSound` inductive: a mark covers all records up to it, those that were
never batched included. For the order at the backend, every earlier record of the
chain was there before, or turned away (`Preceded`), and a push whose key is known has
its lines there (`KeyKnown`), so that a repeated request adds nothing. Until lines may
be sent again, what was taken or turned away comes before what is in memory (`Fresh`);
from it follow `SentOnce` and the second half of `FailClosed`. The
ways a push may end are told apart by what it does to the backend (`Arrives`) and
what becomes of the batch (`Ends`).

**StreamsProof, the journal.** `ReplayInv`: file, writer's channel and bus follow one
another, and so do the forwarder's envelope and its drain (`Numbered`); the cursors, and
what an attach has read of them, are behind the counter (`Cursors`); a subscriber's
frames are in turn, only its first live frame can repeat one of the backlog if no other
attach lapped its own, and what is yet to be forwarded is new to it, but for the envelope
in the forwarder's hand when no live frame was sent (`Subscribers`); `replay_high` covers
the backlog of every session that was not lapped, and so will every attach that is yet to
arm (`Covers`); an identity has one number (`OneNumber`). `Covers` is where overlapping
attaches matter: a session that armed last of those that had read the file cannot see
`replay_high` fall below its backlog. `BacklogFirst` follows directly, lapped or not.
`JoinRepeatsAtMostOne` counts: two frames with one identity have one number, so apart
from the first live frame the frames map one to one into `IdsOf`. A crash of the daemon
closes every session, and nothing more is given to them.

**Filtering.** What `Keep` returns for every sequence is needed by both
(`SealRouting`'s window, the journal's backlog, the publisher's refused lines). It is
a recursive function, and a least counterexample (`LeastNatural`) takes the place of
induction: the recursion defines a function (`KeepsExists`), and the result holds
the kept elements in their order (`KeepFacts`). The few lemmas stand in both modules.

**Only model-checked.** Liveness (`ExitSeals`, `BacklogDelivered`,
`ReplacedReleases`, `RosterDrains`, `Terminates`, `StopAnswered`, `PublicSettled`),
which is out of this prover's reach. Every other property of the runs is stated by a
theorem, under the hypothesis the table names.

## 5. What the models show the code not to do

The properties of the runs are what holds, under the premises they state. The
following cases lie outside of those premises. Most are reachable in the models and
excluded by the premise named; those a model leaves out are marked as such. The list is
what was found while modelling, and no claim that there is nothing else.

SEAL, journal and startup:

- Two processes append to one chain. `seal_workspace_with_rfc`
  (`seal/manager.rs:336`) keeps the workspace chain for the life of the process while
  the daemon's audit log (`pty_daemon/audit.rs:125`) appends to the same file. The
  mirror, "read once at load" (`chain.rs:12`), gives the next record a stale
  `prev_hash` and `verify` reports the chain broken. With two `Procs` and no fault
  `ChainVerifies` fails.
- `convert_hook` (`protocol/hooks.rs:42`) turns Stop into the end of the session;
  "`Stop` and `SubagentStop` fire after *every claude turn*" (`notifications.rs:122`).
  The tool calls of the second turn find no chain and are dropped with `Ok(())`;
  `LiveHooksSealed` speaks of hooks before an end.
- `acquire` (`lock.rs:31`) removes the lock by path after judging its content; it can
  remove a competitor's new lock, and two daemons serve. "it must be the sole
  `orkia.sock` owner" (`pty_daemon.rs:41`). `SoleOwnerUntilReclaim` ends at the first
  reclaim; `SoleOwner` without that premise fails.
- A daemon that dies between creating the lock and writing its pid leaves a lock
  nobody judges stale (`lock.rs:26`), and so does one whose write of the pid fails, an
  error the code ignores; `SomeoneWins` assumes no crash.
- A crash between a record's line and its newline glues the next record to it, and
  a later append that returned Ok is lost (`chain.rs:242`; "so a process crash after
  the call preserves the record", `chain.rs:183`). With `Faults = {"split"}`
  `AckedDurable` fails.
- With a second process in `SealJobs`, `OneJobPerChain` fails: a detached runtime
  archives the live chain of a REPL's job with the same id (`manager.rs:131` assumes
  "a pre-existing file at this path belongs to a PREVIOUS job"). It also fails, by
  design of its premise, after a rename that failed (`manager.rs:471`, `486`).
- `verify_project_deep` looks only at a job's current path, so a reference to an
  archived chain reads as a mismatch (`manager.rs:16`, `139`).
- A hook can be sealed twice: `drain_journal_events` (`drains.rs:262`) routes what the
  listener has routed, and the window suppresses only strictly lower priorities.
- A hook sent between `TerminalEngine::start` and `on_spawn` finds no chain and is
  dropped (`spawn.rs:184`, against `spawn.rs:215`).
- The join can repeat one envelope (`journal_host.rs:342`; "never double-delivers",
  `:338`): `JoinRepeatsAtMostOne` is the bound that holds when attaches do not overlap.
  `attach_subscriber` (`:205-258`) holds no lock, and each Subscribe has its own thread
  (`pty_daemon.rs:192-194`, `265-266`): an attach that read the file before another and
  arms after it lowers `replay_high`, and the other's subscriber gets several envelopes
  twice (`lapped`). If two attaches swap the sink in the other order than they bumped the
  generation, the replaced writer is the current generation and clears the sink of the
  subscriber that is installed, against "iff it is still ours" (`:268`).
- A shell that quits leaves what is on the bus and in its queues unsealed:
  `process::exit` (`repl/core.rs:147`, `338`) follows the last drain without waiting for
  the consumer task, against "land before we exit" (`:304-306`). The drains run between
  calls of `read_line`, so the chain of a job that exited stays open while the prompt
  waits.
- A frame flushed to a REPL that dies before reading it is counted as received
  (`journal_host.rs:375`, `399`); a frame dropped between two sinks falls behind the
  cursor (`:213`); a subscriber installed between the generation test and the
  clearing loses its sink (`:268-271`).
- A REPL that dies with a call outstanding leaves it blocked until something else is
  written to it (`pty_daemon.rs:331`; "instead of hanging forever",
  `journal_host.rs:268`). The teardown of an old subscriber also fails calls the new
  one was asked (`:275`).
- A daemon that starts late takes `orkia.sock` from a REPL that fell back
  (`listener.rs:212`; "no steal hazard", `client_api.rs:349`); a daemon whose start
  fails late never exits (`pty_daemon.rs:149`, against `:209`).

RFC service:

- The service, with its mutex, lock and counter, is per process (`rfc_state.rs:94-146`;
  "so they agree on lock state" holds within one), and each detached runtime has its own.
  Agents of two processes can both hold the write lock, save over one another's edits and
  hand out the same decision id. `EditsInOrder` compares edits of one process,
  `LogWellFormed` has the premise of one issuer.
- `decision::append` (`decision.rs:125`) makes two writes and takes no mutex. Two appends
  at once, or one after an append that stopped before its newline, share a line; from
  then on `read_all` fails (`decision.rs:166-169`) and with it every count, answer and
  transition, and a process that starts numbers from d-001 again. `OneNumbering` and
  `torn` exclude such logs.
- `transition` (`service/transitions.rs:82-93`) takes no mutex. An edit that loaded
  the draft before a promote saves it afterwards: the RFC has a new text and is
  draft-active again. "Edits during Active require explicit human approval"
  (`state.rs:23-24`).
- A decision appended between a reopen's copy and its removal of the log is lost
  ("removing it here is safe", `store.rs:351`); one logged between `promote`'s count
  and its save stays unreviewed in an active version; a transition that loaded before
  an edit was saved restores the old text.
- `dispatch_done` is always true (`transitions.rs:87`, against `state.rs:67-71`). No
  code writes a reviewed decision, so the advice "Use `rfc review` first"
  (`state.rs:122`) cannot be followed and one design decision blocks promotion until
  the version is abandoned and reopened. `release_all_for` has no caller, so a lock
  is not "auto-released on agent exit" (`rfc-lock/src/lib.rs:17`); expiry frees it.

Daemon runtimes:

- Ids come from the cached entries only (`audit.rs:97`), so an id whose entry was
  reaped is handed out again after a restart; "globally-unique id"
  (`detached_control.rs:130`). `IdsFresh` is about runtimes that run.
- A `wait` whose poll gets no answer sees an empty list and reports the job done
  ("A job we saw alive that has vanished IS finished", `client_api.rs:225`);
  `WaitSound` has the premise that every poll was answered.
- A daemon that dies after `reap_cached_job` or `handle_kill` removed `job.json`
  (`recovery.rs:76`, `134`, `143`; `pty_daemon.rs:677`) and before the event leaves a
  runtime off the roster with no trace of why; `Accounted` allows one per death.
- `write_job_cache` ignores its errors and writes in place (`audit.rs:39-48`), and every
  `list` writes the live entries again (`pty_daemon.rs:557-559`). An entry that is left
  half written is skipped (`audit.rs:70-76`): after a restart the runtime is unknown, its
  id may be handed out again and a `wait` calls it done. The properties except such
  runtimes once they have left the actor's table (`Lost`).
- A daemon that dies between starting a runtime and writing its cache entry leaves a
  process no later daemon knows (`pty_daemon.rs:540`); `known` excludes it. A spawn
  retried after a read timeout starts a second runtime.
- `stop` of a job that has just exited fails after the job left the table, and its
  cache entry says detached until a list finds the corpse (`pty_daemon.rs:687`).

Dispatch:

- `DispatchSeal::append` (`seal.rs:453`) writes a record and its newline as two writes,
  and `tip` (`seal.rs:408-421`) accepts a last line without a newline. After a crash in
  between the next seal continues that line and returns Ok; its record and the one before
  cannot be read, every later seal is refused and ends the run, while an issue may say
  verified. `SealedBeforeClaimed` says what is left: the claimed record was written, and
  no more than those two are unreadable.
- Left out of the model: a second response for the same job (an agent that fires Stop
  twice), and accept declarations that change before a resume (`run.rs:268-271`).
- `reconcile_spawned` (`run.rs:341`) folds in a response found at resume and tells
  the kernel Done without the acceptance oracle, against "a finished task WITH an
  acceptance oracle defers the kernel `advance`" (`run.rs:412`). `GateHeld` is about
  runs that were not resumed; `FreshOutputs` too, since round and signature are lost
  with the shell and a crash among the resets leaves old outputs in place.
- A dependency that answers with blank text is done, and its dependent tears the run
  down (`MissingDep`).
- An agent that exits without a Stop, or that answered a shell which is gone, is
  waited for without end (`Stranded` in `Terminates`). A Stop lost by a lagging
  stop-hook subscriber (`hub.rs:163`) has the same effect.
- The job is started before its issue is written: after a crash in between the task
  runs twice, and nothing stops two `dispatch` commands from driving one RFC.

Final responses:

- A Stop that arrives during an extraction is skipped as a duplicate ("the turn it
  witnesses is the one already being extracted", `service.rs`); it may be the Stop of
  the next turn, which is then not captured, or whose text the running extraction
  reads. `StopAnswered` is about extractions that start.
- `next_turn_index` returns 0 when the directory cannot be read, and the first
  response is overwritten ("immutable, numbered monotonically", `storage.rs:12`);
  `HistoryImmutable` excludes such jobs (`blind`). Two sessions of one job overlap in
  the same way.

Stream publisher:

- A record read while the session names no workspace is dropped without being noted
  (`lib.rs`, `process_seal`), and the next record's mark passes over it, against "so
  they are never dropped"; `NothingSkipped` lists these as `unnamed`.
- The key is made per `push_batch` (`transport.rs:76`): a batch given up after a lost
  answer, or flushed at shutdown, is sent again under a new key (`again` in
  `SentOnce`). The last flush does not advance the cursor.
- A team line that the gate let through is pushed later under whatever account is signed
  in then; `FailClosed` is about what the gate lets through.
- Envelopes drained while paused are discarded; a held batch is retried while paused
  after a 401; the no-auth status is never cleared; `held` never exceeds one batch.

## 6. Not modelled

`PROJECT.json` gives the reason for every component. In short: parsing, formatting,
rendering and sequential language evaluation, which tests reach; the kernel,
reasoning, forge and account clients, whose protocol state lives in services outside
the repository; the operating system's sandbox. Inside the modelled parts:
timestamps and payloads; retention of the journal; re-use of process ids; attach,
tell and the kill of one stage, which go to a runtime and leave the daemon's state
alone; the kernel's own decisions beyond its contract; a chain file that is replaced
by a shorter one under a publisher's cursor, and two publishers on one cursor file;
more than one process filing the responses of a job; more than one RFC, frontmatter fields
other than state and version, and the shared `.md.tmp` path of two saves at once; a
subscriber of a final response that panics (`service.rs:144-147`) and so keeps the
in-flight key; a chain line a publisher sees before its newline, which `tail_chain`
leaves for the next poll; the drains' effects on display and attention.

## 7. Plan

Done: the SEAL chain with its refinement and proofs, manager and routing; the
daemon's journal over a bounded bus, proxy and startup; the RFC service; the daemon's
runtimes, RFC dispatch, final responses and the stream publisher; proofs of every
safety property the runs check, each under the hypothesis section 4 names.

Next, in this order:

1. `Rfc` with the steps of `write_atomic` on the shared temporary path.
2. `Pipelines`, `Injection` and `Attention`: stage hand-over, when a prompt may be
   typed, who answers an approval.
3. The terminal engine's snapshot exchange.
