------------------------------ MODULE Dispatch ------------------------------
(***************************************************************************)
(* One RFC dispatch run: a driver thread inside the shell feeds the tasks  *)
(* of a DAG to detached agent jobs, wave by wave as the kernel releases    *)
(* them, and keeps each task's state in an issue file.  The shell may die  *)
(* between any two of the driver's effects; a resumed driver reconciles    *)
(* the waves of a re-authorized plan with the issues it finds.             *)
(* Source: crates/orkia-dispatch-proxy/src (lib.rs, run.rs, issues.rs,     *)
(* seal.rs) and crates/orkia-shell/src/repl (rfc_dispatch.rs,              *)
(* streamed_final_response.rs).                                            *)
(*                                                                         *)
(* The kernel (authorize, advance, finalize, abort) is a separate program, *)
(* modelled from the contract in orkia-shell-types/src/dispatch_kernel.rs. *)
(* A prompt is modelled by the dependency jobs whose responses it embeds,  *)
(* a response by whether it is text, blank or missing.                     *)
(***************************************************************************)
EXTENDS Naturals, Sequences, FiniteSets, SequencesExt

CONSTANTS
    Tasks,
    DependsOn,      \* the edges of the DAG
    Oracle,         \* the tasks that declare an accept command
    MaxAttempts,    \* max_attempts of those tasks
    MaxInflight,
    OnTaskFail,     \* "pause" or "abort"
    GlobalAccept,   \* an RFC-level accept command is declared
    MaxReplans,
    Signatures,     \* what a failing integration run may print
    NoTask,
    MaxJobs,        \* bound: jobs spawned
    MaxStarts,      \* bound: dispatch commands without --resume
    MaxFaults       \* bound: deaths of the shell, failed writes, spawns and RPCs

ASSUME DispatchConstants ==
    /\ IsFiniteSet(Tasks)
    /\ DependsOn \in [Tasks -> SUBSET Tasks]
    /\ Oracle \subseteq Tasks
    /\ MaxAttempts \in Nat \ {0} /\ MaxInflight \in Nat \ {0}
    /\ OnTaskFail \in {"pause", "abort"}
    /\ GlobalAccept \in BOOLEAN
    /\ MaxReplans \in Nat
    /\ NoTask \notin Tasks
    /\ MaxJobs \in Nat /\ MaxStarts \in Nat /\ MaxFaults \in Nat

VARIABLES
    run,        \* .run.toml: none, open, closed
    issue,      \* issues/<task>.md
    chain,      \* the dispatch SEAL chain: its lines, the record whose newline is
                \* missing, the records on a last line that does not parse
    kern,       \* the kernel's state of the run the driver names
    jobs,       \* detached jobs, in order of their ids
    stream,     \* jobs whose AgentFinalResponse has not reached the shell
    up,         \* the shell runs
    latest,     \* jobs the shell's FinalResponseSource remembers
    inbox,      \* ProxyMsg::Response, by job
    verdicts,   \* ProxyMsg::Verdict
    oracles,    \* oracle threads that run
    step,       \* where the driver is, see At
    queue,      \* process_wave's queue
    owned,      \* the keys of job_to_task
    todo,       \* issues still to be reset
    round, sig, \* Driver::round, last_fail_sig
    resumed,    \* a driver was resumed (history)
    starts, faults

disk == <<run, issue, chain>>
daemon == <<jobs, stream>>
shell == <<up, latest>>
driver == <<step, queue, owned, todo, round, sig>>
mail == <<inbox, verdicts, oracles>>
counts == <<starts, faults, resumed>>
vars == <<disk, kern, daemon, shell, mail, driver, counts>>

Statuses == {"absent", "pending", "spawned", "done", "failed", "verifying",
             "verified", "rejected"}

Blank == [st |-> "absent", job |-> 0, attempt |-> 0, resp |-> "none"]
Pending == [st |-> "pending", job |-> 0, attempt |-> 0, resp |-> "none"]

\* the point the driver has reached: between two effects of a handler, or in
\* process_wave ("wave", which with an empty queue is the wait for a message)
At(pc, t, j, arg) == [pc |-> pc, task |-> t, job |-> j, arg |-> arg]
Off == At("off", NoTask, 0, "")
InWave == At("wave", NoTask, 0, "")

Idle == step.pc = "wave" /\ queue = <<>>

OutputRecord(t, j) == [kind |-> "output", task |-> t, n |-> j, ok |-> TRUE]
VerdictRecord(t, j, ok) == [kind |-> "verdict", task |-> t, n |-> j, ok |-> ok]
GlobalRecord(r, ok) == [kind |-> "global", task |-> NoTask, n |-> r, ok |-> ok]
ReplanRecord(r) == [kind |-> "replan", task |-> NoTask, n |-> r, ok |-> TRUE]

NoRun == [live |-> FALSE, done |-> {}, failed |-> {}, out |-> {}]

Init ==
    /\ run = "none"
    /\ issue = [t \in Tasks |-> Blank]
    /\ chain = [lines |-> {}, loose |-> {}, spoilt |-> {}]
    /\ kern = NoRun
    /\ jobs = <<>> /\ stream = {}
    /\ up = TRUE /\ latest = {}
    /\ inbox = {} /\ verdicts = {} /\ oracles = {}
    /\ step = Off /\ queue = <<>> /\ owned = {} /\ todo = {}
    /\ round = 0 /\ sig = "none"
    /\ starts = 0 /\ faults = 0 /\ resumed = FALSE

-----------------------------------------------------------------------------
(* The kernel: releases ready tasks up to max_inflight. *)

Ready(done, failed, out) ==
    {t \in Tasks \ (done \union failed \union out) : DependsOn[t] \subseteq done}

Waves(done, failed, out) ==
    LET ready == Ready(done, failed, out)
        room == MaxInflight - Cardinality(out)
    IN  {w \in SUBSET ready :
            Cardinality(w) = IF Cardinality(ready) < room THEN Cardinality(ready)
                                                         ELSE room}

\* dispatch_authorize: a fresh DAG and its first wave
Authorize(wave) ==
    /\ wave \in Waves({}, {}, {})
    /\ kern' = [live |-> TRUE, done |-> {}, failed |-> {}, out |-> wave]

-----------------------------------------------------------------------------
(* Ending a driver.  close_run only logs a failed write. *)

EndDriver ==
    /\ step' = Off /\ queue' = <<>> /\ owned' = {} /\ todo' = {}
    /\ round' = 0 /\ sig' = "none"
    /\ inbox' = {} /\ verdicts' = {} /\ oracles' = {}

CloseRun ==
    \/ run' = "closed" /\ UNCHANGED faults
    \/ faults < MaxFaults /\ run' = run /\ faults' = faults + 1

\* close, no abort: the kernel has dropped the run itself, or is left with it
Stop ==
    /\ CloseRun /\ EndDriver
    /\ UNCHANGED <<issue, jobs, stream, shell, starts, resumed>>

\* teardown and on_abort: close_run, abort_kernel
Teardown ==
    /\ kern' = NoRun
    /\ EndDriver
    /\ UNCHANGED <<issue, daemon, shell>>

-----------------------------------------------------------------------------
(* DispatchSeal *)

\* tip refuses a chain whose last line does not parse
Parses(c) == c.spoilt = {}

\* append: tip has accepted a last line without a newline, and the record ends up
\* on that line
Sealed(c, r) ==
    IF c.loose = {}
    THEN [lines |-> c.lines \union {r}, loose |-> {}, spoilt |-> {}]
    ELSE [lines |-> c.lines \ c.loose, loose |-> {}, spoilt |-> c.loose \union {r}]

\* append stops at its fsync, before the newline, or within the line
Cut(c, r) ==
    {Sealed(c, r)} \union
    IF c.loose # {} THEN {}
    ELSE {[lines |-> c.lines \union {r}, loose |-> {r}, spoilt |-> {}],
          [lines |-> c.lines, loose |-> {}, spoilt |-> {r}]}

\* a seal whose error is only logged
SealedIf(c, r) == IF Parses(c) THEN Sealed(c, r) ELSE c
Logged(c, r)   == {SealedIf(c, r)} \union
                  IF Parses(c) /\ faults < MaxFaults THEN {c} \union Cut(c, r) ELSE {}

-----------------------------------------------------------------------------
(* start_run and resume_run *)

\* a dispatch command: authorize, write_run; the pending issues follow
StartRun ==
    /\ up /\ step.pc = "off" /\ starts < MaxStarts
    /\ starts' = starts + 1
    /\ \E wave \in SUBSET Tasks : \E order \in SetToSeqs(wave) :
          Authorize(wave) /\ queue' = order
    /\ run' = "open"
    /\ step' = At("open", NoTask, 0, "")
    /\ todo' = Tasks
    /\ UNCHANGED <<issue, chain, daemon, shell, mail, owned, round, sig, faults, resumed>>

OpenIssue(t) ==
    /\ step.pc = "open" /\ t \in todo
    /\ issue' = [issue EXCEPT ![t] = Pending]
    /\ todo' = todo \ {t}
    /\ UNCHANGED <<run, chain, kern, daemon, shell, mail, step, queue, owned, round, sig, counts>>

\* a pending issue is unwritable: refused, and nothing undone
OpenFails ==
    /\ step.pc = "open" /\ todo # {} /\ faults < MaxFaults
    /\ faults' = faults + 1
    /\ EndDriver
    /\ UNCHANGED <<disk, kern, daemon, shell, starts, resumed>>

Launch ==
    /\ step.pc = "open" /\ todo = {}
    /\ step' = InWave
    /\ UNCHANGED <<disk, kern, daemon, shell, mail, queue, owned, todo, round, sig, counts>>

\* dispatch --resume: only a run that is not closed
ResumeRun ==
    /\ up /\ step.pc = "off" /\ run = "open"
    /\ \E wave \in SUBSET Tasks : \E order \in SetToSeqs(wave) :
          Authorize(wave) /\ queue' = order
    /\ step' = InWave
    /\ resumed' = TRUE
    /\ UNCHANGED <<disk, daemon, shell, mail, owned, todo, round, sig, starts, faults>>

-----------------------------------------------------------------------------
(* process_wave *)

\* parse drops a blank response, so dep_contexts cannot find it
Captured(d) == issue[d].resp = "text"

Spawn(t, saw) ==
    /\ Len(jobs) < MaxJobs
    /\ jobs' = Append(jobs, [task |-> t, alive |-> TRUE, ans |-> "no", saw |-> saw])
    /\ step' = At("spawned", t, Len(jobs) + 1, "")

\* spawn_one: compose from the dependencies and start the job
SpawnOne(t) ==
    /\ issue[t].st \in {"absent", "pending"}
    /\ \A d \in DependsOn[t] : Captured(d)
    /\ Spawn(t, [d \in DependsOn[t] |-> issue[d].job])
    /\ UNCHANGED <<disk, kern, stream, mail, owned, counts>>

\* DriverError::MissingDep
MissingDep(t) ==
    /\ issue[t].st \in {"absent", "pending"}
    /\ \E d \in DependsOn[t] : ~Captured(d)
    /\ CloseRun /\ Teardown
    /\ UNCHANGED <<chain, starts, resumed>>

\* mutant: the job of a response found in the cache is adopted as well
MutReconcileAdopts(t) ==
    LET j == issue[t].job IN
    /\ issue[t].st = "spawned" /\ (j \in latest \/ jobs[j].alive)
    /\ owned' = owned \union {j}
    /\ step' = IF j \in latest THEN At("absorb", t, j, "resume") ELSE step
    /\ UNCHANGED <<disk, kern, daemon, mail, counts>>

\* reconcile_spawned: a response is known, else the job is listed, else it is
\* lost; a daemon that cannot be asked lists nothing
Reconcile(t) ==
    LET j == issue[t].job IN
    /\ issue[t].st = "spawned"
    /\ \/ /\ j \in latest
          /\ step' = At("absorb", t, j, "resume")
          /\ UNCHANGED <<issue, owned>>
       \/ /\ j \notin latest /\ jobs[j].alive
          /\ owned' = owned \union {j}
          /\ UNCHANGED <<issue, step>>
       \/ /\ j \notin latest
          /\ issue' = [issue EXCEPT ![t].st = "failed", ![t].resp = "text"]
          /\ step' = At("advance", t, j, "failed")
          /\ UNCHANGED owned
    /\ UNCHANGED <<run, chain, kern, daemon, mail, counts>>

LaunchOracle(t) ==
    /\ issue' = [issue EXCEPT ![t].st = "verifying"]
    /\ oracles' = oracles \union {[task |-> t, attempt |-> issue[t].attempt]}
    /\ step' = InWave

ResumeOracle(t) ==
    /\ issue[t].st = "verifying"
    /\ LaunchOracle(t)
    /\ UNCHANGED <<run, chain, kern, daemon, inbox, verdicts, owned, counts>>

FastForward(t) ==
    /\ \/ issue[t].st \in {"done", "verified"} /\ step' = At("advance", t, issue[t].job, "done")
       \/ issue[t].st \in {"failed", "rejected"} /\ step' = At("advance", t, issue[t].job, "failed")
    /\ UNCHANGED <<disk, kern, daemon, mail, owned, counts>>

\* process_one for the head of the queue
ProcessOne ==
    /\ step.pc = "wave" /\ queue # <<>>
    /\ LET t == Head(queue) IN
          \/ MissingDep(t)
          \/ /\ SpawnOne(t) \/ Reconcile(t) \/ ResumeOracle(t) \/ FastForward(t)
             /\ queue' = Tail(queue)
             /\ UNCHANGED <<shell, todo, round, sig>>

\* mutant: the job is not entered in job_to_task
MutSpawnUnrouted ==
    /\ step.pc = "spawned"
    /\ issue' = [issue EXCEPT ![step.task] =
          [st |-> "spawned", job |-> step.job, resp |-> "none",
           attempt |-> IF @.st = "verifying" THEN @.attempt + 1 ELSE 0]]
    /\ step' = InWave
    /\ UNCHANGED <<run, chain, kern, daemon, shell, mail, queue, owned, todo, round, sig, counts>>

\* the issue is written after the job was started, by spawn_one or retry_task
WriteSpawned ==
    LET t == step.task IN
    /\ step.pc = "spawned"
    /\ issue' = [issue EXCEPT ![t] =
          [st |-> "spawned", job |-> step.job, resp |-> "none",
           attempt |-> IF @.st = "verifying" THEN @.attempt + 1 ELSE 0]]
    /\ owned' = owned \union {step.job}
    /\ step' = InWave
    /\ UNCHANGED <<run, chain, kern, daemon, shell, mail, queue, todo, round, sig, counts>>

-----------------------------------------------------------------------------
(* A final response *)

\* on_response: only a job in job_to_task is ours
OnResponse(j) ==
    /\ Idle /\ j \in inbox
    /\ inbox' = inbox \ {j}
    /\ IF j \in owned
         THEN /\ owned' = owned \ {j}
              /\ step' = At("absorb", jobs[j].task, j, "turn")
         ELSE UNCHANGED <<owned, step>>
    /\ UNCHANGED <<disk, kern, daemon, shell, verdicts, oracles, queue, todo, round, sig, counts>>

\* mutant: a failed seal is only logged
MutSealBestEffort ==
    /\ step.pc = "absorb" /\ jobs[step.job].ans # "fail"
    /\ chain' \in Logged(chain, OutputRecord(step.task, step.job))
    /\ step' = [step EXCEPT !.pc = "filed"]
    /\ UNCHANGED <<run, issue, kern, daemon, shell, mail, queue, owned, todo, round, sig, counts>>

\* absorb: seal the output before claiming done
SealOutput ==
    /\ step.pc = "absorb" /\ jobs[step.job].ans # "fail" /\ Parses(chain)
    /\ chain' = Sealed(chain, OutputRecord(step.task, step.job))
    /\ step' = [step EXCEPT !.pc = "filed"]
    /\ UNCHANGED <<run, issue, kern, daemon, shell, mail, queue, owned, todo, round, sig, counts>>

\* mutant: only the first attempt is gated
MutGateFirstOnly ==
    IF step.arg = "turn" /\ step.task \in Oracle /\ issue[step.task].attempt = 0
    THEN "gate" ELSE "advance"

\* the turn's own handler gates on the oracle; reconcile_spawned advances
AfterDone ==
    IF step.arg = "turn" /\ step.task \in Oracle THEN "gate" ELSE "advance"

WriteDone ==
    /\ step.pc = "filed"
    /\ issue' = [issue EXCEPT ![step.task].st = "done",
                              ![step.task].resp = jobs[step.job].ans]
    /\ step' = [step EXCEPT !.pc = AfterDone, !.arg = "done"]
    /\ UNCHANGED <<run, chain, kern, daemon, shell, mail, queue, owned, todo, round, sig, counts>>

\* no response was extracted: the reason becomes the response
WriteFailed ==
    /\ step.pc = "absorb" /\ jobs[step.job].ans = "fail"
    /\ issue' = [issue EXCEPT ![step.task].st = "failed", ![step.task].resp = "text"]
    /\ step' = [step EXCEPT !.pc = "advance", !.arg = "failed"]
    /\ UNCHANGED <<run, chain, kern, daemon, shell, mail, queue, owned, todo, round, sig, counts>>

Gate ==
    /\ step.pc = "gate"
    /\ LaunchOracle(step.task)
    /\ UNCHANGED <<run, chain, kern, daemon, shell, inbox, verdicts, queue, owned, todo,
                   round, sig, counts>>

-----------------------------------------------------------------------------
(* A verdict *)

\* the attempt has not been superseded
Judges(v) == issue[v.task].attempt = v.attempt

\* handle_verdict: a superseded attempt is ignored, else the verdict is sealed
OnVerdict(v) ==
    /\ Idle /\ v \in verdicts
    /\ verdicts' = verdicts \ {v}
    /\ IF Judges(v)
         THEN /\ Parses(chain)
              /\ chain' = Sealed(chain, VerdictRecord(v.task, issue[v.task].job, v.ok))
              /\ step' = At("verdict", v.task, issue[v.task].job,
                            IF v.ok THEN "verified"
                            ELSE IF v.attempt + 1 < MaxAttempts THEN "retry"
                            ELSE "rejected")
         ELSE UNCHANGED <<chain, step>>
    /\ UNCHANGED <<run, issue, kern, daemon, shell, inbox, oracles, queue, owned, todo,
                   round, sig, counts>>

WriteVerdict ==
    /\ step.pc = "verdict" /\ step.arg \in {"verified", "rejected"}
    /\ issue' = [issue EXCEPT ![step.task].st = step.arg]
    /\ step' = [step EXCEPT !.pc = "advance",
                            !.arg = IF step.arg = "verified" THEN "done" ELSE "failed"]
    /\ UNCHANGED <<run, chain, kern, daemon, shell, mail, queue, owned, todo, round, sig, counts>>

\* retry_task: a fresh job for the prompt of the last one
RetryTask ==
    /\ step.pc = "verdict" /\ step.arg = "retry"
    /\ Spawn(step.task, jobs[step.job].saw)
    /\ UNCHANGED <<disk, kern, stream, shell, mail, queue, owned, todo, round, sig, counts>>

-----------------------------------------------------------------------------
(* advance and finalize_round *)

\* the kernel folds the outcome in and answers
Advance ==
    LET t == step.task
        done == IF step.arg = "done" THEN kern.done \union {t} ELSE kern.done
        failed == IF step.arg = "failed" THEN kern.failed \union {t} ELSE kern.failed
        out == kern.out \ {t}
        \* Aborted, or Paused
        halts == \/ step.arg = "failed" /\ OnTaskFail = "abort"
                 \/ done # Tasks /\ out = {} /\ Ready(done, failed, out) = {}
    IN
    /\ step.pc = "advance"
    /\ \/ /\ ~kern.live
          /\ Stop /\ UNCHANGED <<chain, kern>>
       \/ /\ kern.live /\ halts
          /\ Stop /\ kern' = NoRun /\ UNCHANGED chain
       \/ /\ kern.live /\ done = Tasks
          /\ kern' = [kern EXCEPT !.done = done, !.out = out]
          /\ step' = At("finalize", NoTask, 0, "")
          /\ UNCHANGED <<disk, daemon, shell, mail, queue, owned, todo, round, sig, counts>>
       \/ /\ kern.live /\ ~halts /\ done # Tasks
          /\ \E wave \in Waves(done, failed, out) :
                /\ kern' = [live |-> TRUE, done |-> done, failed |-> failed,
                            out |-> out \union wave]
                /\ \E order \in SetToSeqs(wave) : queue' = queue \o order
          /\ step' = InWave
          /\ UNCHANGED <<disk, daemon, shell, mail, owned, todo, round, sig, counts>>

\* the DAG has drained: no integration oracle, or it passes
Converge ==
    /\ step.pc = "finalize"
    /\ IF GlobalAccept THEN chain' \in Logged(chain, GlobalRecord(round, TRUE))
                       ELSE UNCHANGED chain
    /\ kern' = NoRun
    /\ Stop

\* the failed verdict, then the decision about the round
SealReplan ==
    \E c \in Logged(chain, GlobalRecord(round, FALSE)) : chain' \in Logged(c, ReplanRecord(round))

SealFault ==
    faults' = IF chain' = SealedIf(SealedIf(chain, GlobalRecord(round, FALSE)), ReplanRecord(round))
              THEN faults ELSE faults + 1

\* it fails with output s, and no further round is tried
GiveUp(s) ==
    /\ step.pc = "finalize" /\ GlobalAccept
    /\ \/ /\ round >= MaxReplans
          /\ chain' \in Logged(chain, GlobalRecord(round, FALSE))
          /\ UNCHANGED kern
       \/ /\ round < MaxReplans /\ sig = s
          /\ SealReplan
          /\ UNCHANGED kern
       \/ /\ round < MaxReplans /\ sig # s
          /\ chain' \in Logged(chain, GlobalRecord(round, FALSE))
          /\ kern' = NoRun
    /\ Stop

\* the re-opened closure: a set of tasks with all that depend on them
Reopened == {r \in SUBSET Tasks \ {{}} :
                \A t \in Tasks : (DependsOn[t] \intersect r # {}) => t \in r}

\* mutant: only the wave is reset, not the dependents released later
MutResetWaveOnly(s, reopened) ==
    /\ step.pc = "finalize" /\ GlobalAccept /\ kern.live
    /\ round < MaxReplans /\ sig # s
    /\ sig' = s
    /\ SealReplan /\ SealFault
    /\ \E wave \in Waves(Tasks \ reopened, {}, {}) : \E order \in SetToSeqs(wave) :
          /\ kern' = [live |-> TRUE, done |-> Tasks \ reopened, failed |-> {}, out |-> wave]
          /\ queue' = order
          /\ todo' = wave
    /\ step' = At("reset", NoTask, 0, "")
    /\ UNCHANGED <<run, issue, daemon, shell, mail, owned, round, starts, resumed>>

\* replan: the kernel re-opens part of the DAG under the same run
ReplanTargeted(s, reopened) ==
    /\ step.pc = "finalize" /\ GlobalAccept /\ kern.live
    /\ round < MaxReplans /\ sig # s
    /\ sig' = s
    /\ SealReplan /\ SealFault
    /\ \E wave \in Waves(Tasks \ reopened, {}, {}) : \E order \in SetToSeqs(wave) :
          /\ kern' = [live |-> TRUE, done |-> Tasks \ reopened, failed |-> {}, out |-> wave]
          /\ queue' = order
    /\ todo' = reopened
    /\ step' = At("reset", NoTask, 0, "")
    /\ UNCHANGED <<run, issue, daemon, shell, mail, owned, round, starts, resumed>>

\* replan: no finalize RPC, the whole DAG is authorized again
ReplanAll(s) ==
    /\ step.pc = "finalize" /\ GlobalAccept
    /\ round < MaxReplans /\ sig # s
    /\ sig' = s
    /\ SealReplan /\ SealFault
    /\ \E wave \in SUBSET Tasks : \E order \in SetToSeqs(wave) :
          Authorize(wave) /\ queue' = order
    /\ todo' = Tasks
    /\ step' = At("reset", NoTask, 0, "")
    /\ UNCHANGED <<run, issue, daemon, shell, mail, owned, round, starts, resumed>>

\* reset_issue_for_replan
ResetIssue(t) ==
    /\ step.pc = "reset" /\ t \in todo
    /\ issue' = [issue EXCEPT ![t] = IF @.st = "absent" THEN @ ELSE Pending]
    /\ todo' = todo \ {t}
    /\ UNCHANGED <<run, chain, kern, daemon, shell, mail, step, queue, owned, round, sig, counts>>

NextRound ==
    /\ step.pc = "reset" /\ todo = {}
    /\ round' = round + 1
    /\ step' = InWave
    /\ UNCHANGED <<disk, kern, daemon, shell, mail, queue, owned, todo, sig, counts>>

\* a reset or the re-authorization fails: stop, no kernel abort
ReplanFails ==
    /\ step.pc = "reset" /\ faults < MaxFaults
    /\ faults' = faults + 1
    /\ run' = "closed"
    /\ EndDriver
    /\ UNCHANGED <<issue, chain, kern, daemon, shell, starts, resumed>>

-----------------------------------------------------------------------------
(* Cancellation and errors *)

OnAbort == Idle /\ CloseRun /\ Teardown /\ UNCHANGED <<chain, starts, resumed>>

\* a write, a seal, a spawn or an RPC of the handler fails
StepFails ==
    /\ \/ step.pc \in {"spawned", "absorb", "filed", "gate", "verdict", "advance"}
       \/ step.pc = "wave" /\ queue # <<>>
    /\ faults < MaxFaults
    /\ faults' = faults + 1
    /\ run' \in {run, "closed"}
    /\ Teardown
    /\ UNCHANGED <<chain, starts, resumed>>

\* what the driver's next step seals
Sealing ==
    CASE step.pc = "absorb" /\ jobs[step.job].ans # "fail" -> {OutputRecord(step.task, step.job)}
      [] step.pc = "finalize" /\ GlobalAccept -> {GlobalRecord(round, ok) : ok \in BOOLEAN}
      [] Idle -> {VerdictRecord(v.task, issue[v.task].job, v.ok) : v \in {w \in verdicts : Judges(w)}}
      [] OTHER -> {}

\* the append fails, or the shell dies in it
SealFails(r) ==
    /\ r \in Sealing /\ Parses(chain) /\ faults < MaxFaults
    /\ faults' = faults + 1
    /\ chain' \in Cut(chain, r)
    /\ \/ step.pc # "finalize" /\ run' \in {run, "closed"} /\ Teardown
       \/ up' = FALSE /\ latest' = {} /\ EndDriver /\ UNCHANGED <<run, issue, kern, daemon>>
    /\ UNCHANGED <<starts, resumed>>

\* tip refuses the chain
SealRefused ==
    /\ Sealing # {} /\ step.pc # "finalize" /\ ~Parses(chain)
    /\ CloseRun /\ Teardown
    /\ UNCHANGED <<chain, starts, resumed>>

Driver ==
    \/ \E t \in Tasks : OpenIssue(t) \/ ResetIssue(t)
    \/ Launch \/ ProcessOne \/ WriteSpawned
    \/ \E j \in inbox : OnResponse(j)
    \/ SealOutput \/ WriteDone \/ WriteFailed \/ Gate
    \/ \E v \in verdicts : OnVerdict(v)
    \/ WriteVerdict \/ RetryTask \/ Advance \/ SealRefused
    \/ Converge \/ NextRound
    \/ \E s \in Signatures :
          GiveUp(s) \/ ReplanAll(s) \/ \E r \in Reopened : ReplanTargeted(s, r)

-----------------------------------------------------------------------------
(* The oracle threads, the jobs, the stream and the shell's death *)

OracleEnds(o, ok) ==
    /\ o \in oracles
    /\ oracles' = oracles \ {o}
    /\ verdicts' = verdicts \union {[task |-> o.task, attempt |-> o.attempt, ok |-> ok]}
    /\ UNCHANGED <<disk, kern, daemon, shell, inbox, driver, counts>>

\* the agent's turn ends; the daemon publishes what it could extract
JobAnswers(j, ans) ==
    /\ jobs[j].alive /\ jobs[j].ans = "no"
    /\ jobs' = [jobs EXCEPT ![j].ans = ans]
    /\ stream' = stream \union {j}
    /\ UNCHANGED <<disk, kern, shell, mail, driver, counts>>

JobExits(j) ==
    /\ jobs[j].alive
    /\ jobs' = [jobs EXCEPT ![j].alive = FALSE]
    /\ UNCHANGED <<disk, kern, stream, shell, mail, driver, counts>>

\* ingest: remember the event, then fire the subscribers
Ingest(j) ==
    /\ up /\ j \in stream
    /\ stream' = stream \ {j}
    /\ latest' = latest \union {j}
    /\ inbox' = IF step.pc = "off" \/ step.pc = "open" THEN inbox ELSE inbox \union {j}
    /\ UNCHANGED <<disk, kern, jobs, up, verdicts, oracles, driver, counts>>

KernelLost ==
    /\ kern.live /\ faults < MaxFaults
    /\ faults' = faults + 1
    /\ kern' = NoRun
    /\ UNCHANGED <<disk, daemon, shell, mail, driver, starts, resumed>>

\* the shell dies with its threads; jobs belong to the daemon
Crash ==
    /\ up /\ faults < MaxFaults
    /\ faults' = faults + 1
    /\ up' = FALSE /\ latest' = {}
    /\ EndDriver
    /\ UNCHANGED <<disk, kern, daemon, starts, resumed>>

Boot ==
    /\ ~up
    /\ up' = TRUE
    /\ UNCHANGED <<disk, kern, daemon, latest, mail, driver, counts>>

Jobs == 1 .. Len(jobs)
Answers == {"text", "empty", "fail"}

Next ==
    \/ StartRun \/ ResumeRun \/ Driver
    \/ OpenFails \/ ReplanFails \/ StepFails \/ OnAbort
    \/ \E rec \in Sealing : SealFails(rec)
    \/ \E o \in oracles, ok \in BOOLEAN : OracleEnds(o, ok)
    \/ \E j \in Jobs : JobExits(j) \/ \E ans \in Answers : JobAnswers(j, ans)
    \/ \E j \in stream : Ingest(j)
    \/ KernelLost \/ Crash \/ Boot

Spec == Init /\ [][Next]_vars

-----------------------------------------------------------------------------
(* Fairness: the driver and the oracle threads run, the stream is drained, *)
(* a live agent ends its turn.  Nothing obliges anyone to restart the      *)
(* shell, to resume, or to keep a job alive.                               *)

Fairness ==
    /\ WF_vars(Driver)
    /\ WF_vars(\E o \in oracles, ok \in BOOLEAN : OracleEnds(o, ok))
    /\ WF_vars(\E j \in stream : Ingest(j))
    /\ \A j \in 1 .. MaxJobs :
          WF_vars(j \in Jobs /\ \E ans \in Answers : JobAnswers(j, ans))

FairSpec == Spec /\ Fairness

-----------------------------------------------------------------------------
(* Properties *)

IssueRecords == [st : Statuses, job : 0 .. MaxJobs, attempt : 0 .. MaxAttempts - 1,
                 resp : {"none", "text", "empty"}]

\* Types of the disk, the kernel's DAG and the driver's maps.
TypeOK ==
    /\ run \in {"none", "open", "closed"}
    /\ issue \in [Tasks -> IssueRecords]
    /\ kern.live \in BOOLEAN
    /\ kern.done \subseteq Tasks /\ kern.failed \subseteq Tasks /\ kern.out \subseteq Tasks
    /\ Len(jobs) <= MaxJobs
    /\ stream \union latest \union inbox \union owned \subseteq Jobs
    /\ step.task \in Tasks \union {NoTask} /\ step.job \in 0 .. Len(jobs)
    /\ todo \subseteq Tasks /\ round \in 0 .. MaxReplans

\* what the chain has, on lines of its own or on the one that a seal after an
\* unterminated line spoilt
Written == chain.lines \union chain.spoilt

\* An issue that claims a finished output or a verdict has the record of it, for
\* the very job it names, in the dispatch chain, wherever the shell died or a
\* write failed.  The record can be read, unless it is one of the two that share
\* the last line: a line spoilt is the last, for every later seal is refused.
SealedBeforeClaimed ==
    /\ \A t \in Tasks :
          LET i == issue[t] IN
          /\ i.st \in {"done", "verifying", "verified", "rejected"} =>
                 OutputRecord(t, i.job) \in Written
          /\ i.st = "verified" => VerdictRecord(t, i.job, TRUE) \in Written
          /\ i.st = "rejected" => VerdictRecord(t, i.job, FALSE) \in Written
    /\ Cardinality(chain.spoilt) <= 2

\* The driver reports an outcome only for a task the kernel has in flight: each
\* release is answered at most once, over retries, resumes and re-plan rounds.
OneOutcome ==
    step.pc = "advance" /\ kern.live => step.task \in kern.out

\* Unless a run is resumed, the kernel hears Done of a task with an acceptance
\* oracle only after a passing verdict.
GateHeld ==
    ~resumed /\ step.pc = "advance" /\ step.arg = "done" /\ step.task \in Oracle
        => issue[step.task].st = "verified"

\* A task is started only on captured, sealed and finished outputs of all its
\* dependencies.
DependenciesFinished ==
    step.pc = "spawned" =>
        \A d \in DependsOn[step.task] :
            /\ issue[d].st \in {"done", "verified"}
            /\ OutputRecord(d, issue[d].job) \in Written

\* When a run drains that was not resumed, every output was composed from the
\* outputs its dependencies have now: a re-plan re-runs dependents too.
FreshOutputs ==
    step.pc = "finalize" /\ ~resumed =>
        \A t \in Tasks : \A d \in DependsOn[t] :
            jobs[issue[t].job].saw[d] = issue[d].job

\* a job the driver waits for that will never answer it
Stranded == \E j \in owned : j \notin stream \union inbox /\ (jobs[j].ans # "no" \/ ~jobs[j].alive)

\* Once begun, a run ends, unless the driver waits for a job that died silently
\* or answered the shell before this one.
Terminates ==
    step.pc # "off" ~> (step.pc = "off" \/ Stranded \/ Len(jobs) = MaxJobs)

\* Tasks start on finished outputs, and a drained run used the present ones.
InputsSound == TypeOK /\ DependenciesFinished /\ FreshOutputs

=============================================================================
