----------------------------- MODULE DaemonJobs -----------------------------
(***************************************************************************)
(* The detached runtimes of the pty-daemon: its actor keeps the runtimes   *)
(* it owns in memory and a cache entry per job on disk; a daemon that      *)
(* starts again owns none and knows its predecessor's from the cache.      *)
(* Source: run_actor and the request handlers of                           *)
(* bins/orkia/src/pty_daemon.rs, pty_daemon/recovery.rs, pty_daemon/       *)
(* audit.rs, and the wait loop of pty_daemon/client_api.rs.                *)
(*                                                                         *)
(* A runtime stands for its pid; pids are not re-used.  Tell, attach, logs *)
(* and the kill of one stage go to the runtime and leave this state alone. *)
(* The daemon dies between two requests, between starting a runtime and    *)
(* recording it, and inside a request that removes entries.  A write of    *)
(* job.json may fail, and is not atomic: it leaves the new entry, the old  *)
(* one, or a torn one, which every reader skips.  Removing a file and      *)
(* writing the audit trail succeed while the daemon lives.                 *)
(***************************************************************************)
EXTENDS Naturals, FiniteSets

CONSTANTS
    Runtimes,       \* processes, each started at most once
    None,           \* no runtime
    MaxId,          \* u32::MAX
    MaxCrashes      \* bound: deaths of the daemon

ASSUME JobsConstants ==
    /\ None \notin Runtimes
    /\ MaxId \in Nat \ {0}
    /\ MaxCrashes \in Nat

VARIABLES
    up,         \* the daemon runs
    next_id,    \* DaemonState::next_id
    jobs,       \* DaemonState::jobs: the runtimes it owns
    starting,   \* started by handle_spawn and not yet recorded
    cache,      \* run/jobs/<id>/job.json
    rt,         \* the runtimes: st none, running, exited; see NoRuntime
    trail,      \* audit events of each runtime
    torn,       \* runtimes whose last write of job.json left nothing readable
    silent,     \* runtimes whose entry a dying daemon removed before its event
    w,          \* a client in wait
    crashes

vars == <<up, next_id, jobs, starting, cache, rt, trail, torn, silent, w, crashes>>

Ids == 1 .. MaxId

NoEntry == [st |-> "none", rt |-> None]
Entry(st, r) == [st |-> st, rt |-> r]

\* id: its job id; known: recorded by the daemon; hit: it was sent SIGTERM
NoRuntime == [st |-> "none", id |-> 0, known |-> FALSE, hit |-> FALSE]

\* seen: some poll found the job alive; cut: some poll got no answer
NoWait == [at |-> "idle", rt |-> None, seen |-> FALSE, cut |-> FALSE, result |-> "none"]

Init ==
    /\ up = TRUE /\ next_id = 1
    /\ jobs = {} /\ starting = None
    /\ cache = [i \in Ids |-> NoEntry]
    /\ rt = [r \in Runtimes |-> NoRuntime]
    /\ trail = [r \in Runtimes |-> {}]
    /\ torn = {} /\ silent = {}
    /\ w = NoWait
    /\ crashes = 0

Ready == up /\ starting = None

Running(r) == rt[r].st = "running"

Emit(r, event) == trail' = [trail EXCEPT ![r] = @ \union {event}]

-----------------------------------------------------------------------------
(* handle_spawn *)

\* alloc_id, then runtime_spawn::start
Start(r) ==
    /\ Ready /\ rt[r].st = "none"
    /\ next_id < MaxId
    /\ next_id' = next_id + 1
    /\ rt' = [rt EXCEPT ![r] = [st |-> "running", id |-> next_id, known |-> FALSE, hit |-> FALSE]]
    /\ starting' = r
    /\ UNCHANGED <<up, jobs, cache, trail, torn, silent, w, crashes>>

\* the engine does not start: the id is spent
StartFails ==
    /\ Ready
    /\ next_id < MaxId
    /\ next_id' = next_id + 1
    /\ UNCHANGED <<up, jobs, starting, cache, rt, trail, torn, silent, w, crashes>>

\* write_job_cache: the outcomes of writing e over old
Outcomes == {"whole", "torn", "kept"}
Outcome(how, e, old) == IF how = "whole" THEN e ELSE IF how = "torn" THEN NoEntry ELSE old

\* job_info of an owned job
JobInfo(r) == Entry(IF Running(r) THEN "detached" ELSE "done", r)

\* r's entry is written, with whatever outcome
WriteEntry(r, e) ==
    \E how \in Outcomes :
        LET x == Outcome(how, e, cache[rt[r].id]) IN
        /\ cache' = [cache EXCEPT ![rt[r].id] = x]
        /\ torn' = IF x = NoEntry THEN torn \union {r} ELSE torn \ {r}

Record ==
    /\ up /\ starting # None
    /\ LET r == starting IN
          /\ WriteEntry(r, JobInfo(r))
          /\ jobs' = jobs \union {r}
          /\ rt' = [rt EXCEPT ![r] = [@ EXCEPT !.known = TRUE]]
          /\ Emit(r, "spawn")
    /\ starting' = None
    /\ UNCHANGED <<up, next_id, silent, w, crashes>>

-----------------------------------------------------------------------------
(* reap_dead, and the requests that only do that *)

Dead == {r \in jobs : ~Running(r)}

\* the cache once the entries of the owned jobs W are written, each as how says
Saved(W, how) ==
    [i \in Ids |-> IF \E r \in W : rt[r].id = i
                   THEN LET r == CHOOSE r \in W : rt[r].id = i
                        IN  Outcome(how[r], JobInfo(r), cache[i])
                   ELSE cache[i]]

TornBy(W, how) == (torn \ W) \union {r \in W : Saved(W, how)[rt[r].id] = NoEntry}

ReapTrail == [r \in Runtimes |-> IF r \in Dead THEN trail[r] \union {"complete"} ELSE trail[r]]

\* handle_status, handle_inspect
Status ==
    /\ Ready
    /\ \E how \in [Dead -> Outcomes] :
          /\ cache' = Saved(Dead, how)
          /\ torn' = TornBy(Dead, how)
    /\ jobs' = jobs \ Dead
    /\ trail' = ReapTrail
    /\ UNCHANGED <<up, next_id, starting, rt, silent, w, crashes>>

\* ids of the live jobs
LiveIds == {rt[r].id : r \in jobs \ Dead}

\* mutant: only done jobs leave
MutCorpseDoneOnly(e) == e.st = "done"

\* merge_cached_jobs: reported this once, then reaped: done, or the pid is dead
Corpse(e) ==
    \/ e.st = "done"
    \/ e.st = "detached" /\ ~Running(e.rt)

\* ids collected from the cache c by merge_cached_jobs, and by gc_cached_jobs,
\* which also drops stopped jobs
ListDrops(c) == {i \in Ids \ LiveIds : Corpse(c[i])}
GcDrops(c) == {i \in Ids \ LiveIds : Corpse(c[i]) \/ c[i].st = "stopped"}

\* mutant: entries leave without an event
MutCollect(c, out, told) ==
    /\ cache' = [i \in Ids |-> IF i \in out THEN NoEntry ELSE c[i]]
    /\ trail' = ReapTrail

\* reap_cached_job for each of out; told: those whose event is written
Collect(c, out, told) ==
    /\ cache' = [i \in Ids |-> IF i \in out THEN NoEntry ELSE c[i]]
    /\ trail' = [r \in Runtimes |-> IF \E i \in told : c[i].rt = r
                                    THEN ReapTrail[r] \union {"gc"} ELSE ReapTrail[r]]

\* handle_list: reap_dead, then the entries of the live jobs are written again,
\* then corpses are collected
HandleList(how) ==
    /\ Ready
    /\ LET c == Saved(jobs, how) IN Collect(c, ListDrops(c), ListDrops(c))
    /\ torn' = TornBy(jobs, how)
    /\ jobs' = jobs \ Dead
    /\ UNCHANGED <<up, next_id, starting, rt, silent, crashes>>

List == \E how \in [jobs -> Outcomes] : HandleList(how) /\ UNCHANGED w

Gc ==
    /\ Ready
    /\ \E how \in [Dead -> Outcomes] :
          LET c == Saved(Dead, how) IN
          /\ Collect(c, GcDrops(c), GcDrops(c))
          /\ torn' = TornBy(Dead, how)
    /\ jobs' = jobs \ Dead
    /\ UNCHANGED <<up, next_id, starting, rt, silent, w, crashes>>

-----------------------------------------------------------------------------
(* handle_kill and handle_stop *)

Hit(r) == rt' = IF Running(r) THEN [rt EXCEPT ![r] = [@ EXCEPT !.hit = TRUE]] ELSE rt

\* an owned job; one that already exited counts as killed
Kill(r) ==
    /\ Ready /\ r \in jobs
    /\ jobs' = jobs \ {r}
    /\ Hit(r)
    /\ cache' = [cache EXCEPT ![rt[r].id] = NoEntry]
    /\ Emit(r, "kill")
    /\ UNCHANGED <<up, next_id, starting, torn, silent, w, crashes>>

Stop(r) ==
    /\ Ready /\ r \in jobs /\ Running(r)
    /\ jobs' = jobs \ {r}
    /\ Hit(r)
    /\ WriteEntry(r, Entry("stopped", r))
    /\ Emit(r, "stop")
    /\ UNCHANGED <<up, next_id, starting, silent, w, crashes>>

\* the signal fails (for stop, also because the child has exited): the job has
\* left the map, the cache still calls it detached
SignalFails(r) ==
    /\ Ready /\ r \in jobs
    /\ jobs' = jobs \ {r}
    /\ UNCHANGED <<up, next_id, starting, cache, rt, trail, torn, silent, w, crashes>>

\* recovery::handle_kill, for kill and stop of a job in the cache alone
RecoveryKill(i) ==
    /\ Ready /\ cache[i] # NoEntry /\ cache[i].rt \notin jobs
    /\ Hit(cache[i].rt)
    /\ cache' = [cache EXCEPT ![i] = NoEntry]
    /\ Emit(cache[i].rt, IF Running(cache[i].rt) THEN "kill" ELSE "kill_stale")
    /\ UNCHANGED <<up, next_id, jobs, starting, torn, silent, w, crashes>>

-----------------------------------------------------------------------------
(* client_api::wait: list until the job is terminal or gone *)

Wait(r) ==
    /\ w.at = "idle" /\ rt[r].known
    /\ w' = [NoWait EXCEPT !.at = "polling", !.rt = r]
    /\ UNCHANGED <<up, next_id, jobs, starting, cache, rt, trail, torn, silent, crashes>>

Back(result) == w' = [w EXCEPT !.at = "back", !.result = result]
Again == w' = [w EXCEPT !.seen = TRUE]

\* the job is not in the answer
Vanished(cut) ==
    IF w.seen THEN w' = [w EXCEPT !.at = "back", !.result = "done", !.cut = cut]
              ELSE Back("error")

\* mutant: a job whose socket is silent is taken for done
MutAnswerLostIsDone(live, e) ==
    \/ live /\ Again
    \/ ~live /\ e = NoEntry /\ Vanished(FALSE)
    \/ ~live /\ e.st \in {"done", "stopped"} /\ Back(e.st)
    \/ \* the runtime's control socket answers, or it does not
       /\ ~live /\ e.st = "detached" /\ Running(e.rt)
       /\ Again \/ Back("done")
    \/ ~live /\ e.st = "detached" /\ ~Running(e.rt) /\ Back("pid_dead")

\* what wait makes of the job's entry in the list
Answer(live, e) ==
    \/ live /\ Again
    \/ ~live /\ e = NoEntry /\ Vanished(FALSE)
    \/ ~live /\ e.st \in {"done", "stopped"} /\ Back(e.st)
    \/ \* the runtime's control socket answers, or it does not
       /\ ~live /\ e.st = "detached" /\ Running(e.rt)
       /\ Again \/ Back("lost_pty")
    \/ ~live /\ e.st = "detached" /\ ~Running(e.rt) /\ Back("pid_dead")

Poll ==
    /\ w.at = "polling"
    /\ \E how \in [jobs -> Outcomes] :
          /\ HandleList(how)
          /\ Answer(rt[w.rt].id \in LiveIds, Saved(jobs, how)[rt[w.rt].id])

\* no daemon, or no answer in time: client_api::list returns an empty roster
PollUnanswered ==
    /\ w.at = "polling"
    /\ Vanished(TRUE)
    /\ UNCHANGED <<up, next_id, jobs, starting, cache, rt, trail, torn, silent, crashes>>

WaitReturns ==
    /\ w.at = "back"
    /\ w' = NoWait
    /\ UNCHANGED <<up, next_id, jobs, starting, cache, rt, trail, torn, silent, crashes>>

-----------------------------------------------------------------------------
(* The runtimes and the daemon process *)

Exit(r) ==
    /\ Running(r)
    /\ rt' = [rt EXCEPT ![r] = [@ EXCEPT !.st = "exited"]]
    /\ UNCHANGED <<up, next_id, jobs, starting, cache, trail, torn, silent, w, crashes>>

Dies ==
    /\ up /\ crashes < MaxCrashes
    /\ crashes' = crashes + 1
    /\ up' = FALSE
    /\ jobs' = {} /\ starting' = None
    /\ UNCHANGED <<next_id, w>>

Crash ==
    /\ Dies
    /\ UNCHANGED <<cache, rt, trail, torn, silent>>

\* in reap_cached_job, for one of the corpses of a list or a gc: its entry is gone
\* and its event is not written; of the others, any may be collected
CrashCollecting ==
    /\ Ready /\ Dies
    /\ \E how \in [jobs -> Outcomes] :
          LET c == Saved(jobs, how) IN
          /\ \E out \in SUBSET GcDrops(c) : \E last \in out :
                /\ Collect(c, out, out \ {last})
                /\ silent' = silent \union {c[last].rt}
          /\ torn' = TornBy(jobs, how)
    /\ UNCHANGED rt

\* in handle_kill, of an owned job or a cached one: after the signal, or after the
\* entry is removed and before the event
CrashKilling(i) ==
    /\ Ready /\ Dies
    /\ cache[i] # NoEntry
    /\ Hit(cache[i].rt)
    /\ \/ UNCHANGED <<cache, silent>>
       \/ /\ cache' = [cache EXCEPT ![i] = NoEntry]
          /\ silent' = silent \union {cache[i].rt}
    /\ UNCHANGED <<trail, torn>>

Cached == {i \in Ids : cache[i] # NoEntry}

\* mutant: numbering starts over
MutNextCachedJobId(n) == n = 1

\* audit::next_cached_job_id
NextCachedJobId(n) ==
    \/ Cached = {} /\ n = 1
    \/ n - 1 \in Cached /\ \A i \in Cached : i < n

Boot ==
    /\ ~up
    /\ up' = TRUE
    /\ \E n \in Ids : NextCachedJobId(n) /\ next_id' = n
    /\ UNCHANGED <<jobs, starting, cache, rt, trail, torn, silent, w, crashes>>

Next ==
    \/ \E r \in Runtimes :
          Start(r) \/ Kill(r) \/ Stop(r) \/ SignalFails(r) \/ Wait(r) \/ Exit(r)
    \/ StartFails \/ Record \/ Status \/ List \/ Gc
    \/ \E i \in Ids : RecoveryKill(i) \/ CrashKilling(i)
    \/ Poll \/ PollUnanswered \/ WaitReturns
    \/ Crash \/ CrashCollecting \/ Boot

\* A daemon is started again by the next client, its actor finishes what it
\* began, and somebody keeps listing.
Fairness == WF_vars(Boot) /\ WF_vars(Record) /\ WF_vars(List)

Spec == Init /\ [][Next]_vars
FairSpec == Spec /\ Fairness

-----------------------------------------------------------------------------
(* Properties *)

EntryType == [st : {"none", "detached", "done", "stopped"}, rt : Runtimes \union {None}]
RuntimeType ==
    [st : {"none", "running", "exited"}, id : 0 .. MaxId, known : BOOLEAN, hit : BOOLEAN]
WaitType ==
    [at : {"idle", "polling", "back"}, rt : Runtimes \union {None}, seen : BOOLEAN,
     cut : BOOLEAN, result : {"none", "done", "stopped", "lost_pty", "pid_dead", "error"}]
AuditEvents == {"spawn", "complete", "gc", "kill", "kill_stale", "stop"}

\* Types of the daemon's memory, its cache and the runtimes.
TypeOK ==
    /\ up \in BOOLEAN /\ next_id \in Ids /\ crashes \in 0 .. MaxCrashes
    /\ jobs \subseteq Runtimes /\ starting \in Runtimes \union {None}
    /\ cache \in [Ids -> EntryType]
    /\ rt \in [Runtimes -> RuntimeType]
    /\ trail \in [Runtimes -> SUBSET AuditEvents]
    /\ torn \subseteq Runtimes /\ silent \subseteq Runtimes
    /\ w \in WaitType

\* a recorded runtime that runs and was not told to end
Current(r) == Running(r) /\ rt[r].known /\ ~rt[r].hit

\* its entry could not be written whole, and no daemon holds it any more
Lost(r) == r \in torn \ jobs

\* A recorded runtime that runs and was not told to end stays in the roster, owned
\* or cached under its own id, over lists, collections, failed signals and restarts
\* of the daemon: it can still be listed and killed.  Only one whose last write of
\* job.json failed is forgotten, and only once its daemon has let go of it.
RosterComplete ==
    \A r \in Runtimes :
        Current(r) /\ ~Lost(r) => r \in jobs \/ cache[rt[r].id] = Entry("detached", r)

\* Two such runtimes never answer to one job id, whatever was cached when a
\* daemon chose its first id.
IdsFresh ==
    \A r, s \in Runtimes :
        /\ Current(r) /\ ~Lost(r)
        /\ Current(s) /\ ~Lost(s)
        /\ rt[r].id = rt[s].id
        => r = s

OffRoster(r) == r \notin jobs /\ \A i \in Ids : cache[i].rt # r

\* A recorded runtime leaves the roster only with a word in the audit trail on how
\* it ended, whenever the daemon dies: a death costs at most one runtime its word
\* (between the removal of the entry and the event), and the only others without
\* are those forgotten because their entry could not be written.
Accounted ==
    /\ \A r \in Runtimes :
          rt[r].known /\ OffRoster(r) =>
              \/ trail[r] \intersect {"kill", "kill_stale", "gc"} # {}
              \/ Lost(r)
              \/ r \in silent
    /\ Cardinality(silent) <= crashes

\* wait reports a job as done only if its runtime has exited or was told to,
\* however many others list and restart the daemon meanwhile, provided that every
\* poll was answered and the roster did not forget the job.
WaitSound ==
    w.at = "back" /\ w.result = "done" /\ ~w.cut =>
        ~Running(w.rt) \/ rt[w.rt].hit \/ Lost(w.rt)

\* A runtime that exits leaves the roster, unless it was stopped: stopped jobs stay
\* until a gc.
RosterDrains ==
    \A r \in Runtimes :
        (rt[r].known /\ ~Running(r) /\ cache[rt[r].id] # Entry("stopped", r)) ~> OffRoster(r)

\* What runs is on the roster, under an id of its own.
RosterSound == TypeOK /\ RosterComplete /\ IdsFresh

=============================================================================
