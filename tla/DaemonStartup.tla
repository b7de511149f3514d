--------------------------- MODULE DaemonStartup ---------------------------
(***************************************************************************)
(* Who owns orkia.sock: daemons racing for the pid lock, binding the hub   *)
(* and control sockets by unlink-and-bind, and tearing them down; and the  *)
(* REPL that falls back to a hub of its own when no daemon answers.        *)
(* Source: bins/orkia/src/pty_daemon/lock.rs, run_server in pty_daemon.rs, *)
(* subscribe_journal in pty_daemon/client_api.rs, start_at_seeded and Drop *)
(* in crates/orkia-journal-hub/src/listener.rs.                            *)
(***************************************************************************)
EXTENDS Naturals, FiniteSets

CONSTANTS
    Daemons,    \* daemon processes; each starts at most once, pids differ
    Repls,      \* REPLs that boot while the daemons do
    None,
    MaxCrashes  \* bound: daemons that die without running destructors

ASSUME StartupConstants ==
    /\ None \notin Daemons
    /\ None \notin Repls
    /\ Daemons \intersect Repls = {}
    /\ MaxCrashes \in Nat

VARIABLES
    pc,         \* pc[d]: where daemon d is in run_server
    hosts,      \* daemons whose journal hub is bound
    lock,       \* pty-daemon.lock: its creator and the pid written to it
    orkia,      \* whose listener the path orkia.sock names
    control,    \* whose listener the daemon socket's path names
    seen,       \* seen[d]: the pid d read from the lock
    reclaims,   \* history: stale locks removed
    repl,       \* repl[r]: booting, unlinked, local, hubless, subscribed, exited
    crashes

paths == <<orkia, control>>
vars  == <<pc, hosts, lock, orkia, control, seen, reclaims, repl, crashes>>

NoLock == [by |-> None, pid |-> None]

\* run_server, in program order; create0 and create1 are the two attempts
Locations == {"new", "create0", "inspect", "probe", "reclaim", "create1", "record",
              "locked", "hub", "unlink", "bind", "serving", "dropping",
              "aborting", "stuck", "unlocking", "refused", "gone", "dead"}

\* between a successful create_lock and the removal of the file
Holding == {"record", "locked", "hub", "unlink", "bind", "serving",
            "dropping", "aborting", "stuck", "unlocking"}

Running == Locations \ {"new", "refused", "gone", "dead"}

Init ==
    /\ pc = [d \in Daemons |-> "new"]
    /\ hosts = {}
    /\ lock = NoLock
    /\ orkia = None
    /\ control = None
    /\ seen = [d \in Daemons |-> None]
    /\ reclaims = 0
    /\ repl = [r \in Repls |-> "booting"]
    /\ crashes = 0

Goto(d, there) == pc' = [pc EXCEPT ![d] = there]

-----------------------------------------------------------------------------
(* DaemonLock::acquire *)

\* start_daemon_process
Start(d) ==
    /\ pc[d] = "new"
    /\ Goto(d, "create0")
    /\ UNCHANGED <<hosts, lock, paths, seen, reclaims, repl, crashes>>

\* Mutant: the file is opened with create instead of create_new.
CreateLockShared(d) ==
    /\ pc[d] \in {"create0", "create1"}
    /\ lock' = [by |-> d, pid |-> None]
    /\ Goto(d, "record")
    /\ UNCHANGED <<hosts, paths, seen, reclaims, repl, crashes>>

\* create_lock: O_CREAT | O_EXCL
CreateLock(d) ==
    /\ pc[d] \in {"create0", "create1"}
    /\ IF lock = NoLock
       THEN lock' = [by |-> d, pid |-> None] /\ Goto(d, "record")
       ELSE /\ Goto(d, IF pc[d] = "create0" THEN "inspect" ELSE "refused")
            /\ UNCHANGED lock
    /\ UNCHANGED <<hosts, paths, seen, reclaims, repl, crashes>>

\* Mutant: a failed write of the pid is propagated, leaving the file.
RecordPidOrFail(d) ==
    /\ pc[d] = "record"
    /\ \E ok \in BOOLEAN :
          /\ lock' = IF ok /\ lock.by = d THEN [lock EXCEPT !.pid = d] ELSE lock
          /\ Goto(d, IF ok THEN "locked" ELSE "refused")
    /\ UNCHANGED <<hosts, paths, seen, reclaims, repl, crashes>>

\* writeln!(file, pid): into the file this daemon created, wherever it is now; a
\* failed write is ignored and leaves a lock nobody can find stale
RecordPid(d) ==
    /\ pc[d] = "record"
    /\ lock' \in {lock, IF lock.by = d THEN [lock EXCEPT !.pid = d] ELSE lock}
    /\ Goto(d, "locked")
    /\ UNCHANGED <<hosts, paths, seen, reclaims, repl, crashes>>

\* stale_lock, the read: a missing, unreadable or empty file is not stale
InspectLock(d) ==
    /\ pc[d] = "inspect"
    /\ seen' = [seen EXCEPT ![d] = lock.pid]
    /\ Goto(d, IF lock.pid = None THEN "refused" ELSE "probe")
    /\ UNCHANGED <<hosts, lock, paths, reclaims, repl, crashes>>

\* stale_lock, kill(pid, 0) and is_zombie: by now the file may be another's
ProbePid(d) ==
    /\ pc[d] = "probe"
    /\ Goto(d, IF pc[seen[d]] \in {"refused", "gone", "dead"} THEN "reclaim" ELSE "refused")
    /\ UNCHANGED <<hosts, lock, paths, seen, reclaims, repl, crashes>>

\* remove_file on the path, whatever it names by now
ReclaimLock(d) ==
    /\ pc[d] = "reclaim"
    /\ lock' = NoLock
    /\ reclaims' = reclaims + 1
    /\ Goto(d, "create1")
    /\ UNCHANGED <<hosts, paths, seen, repl, crashes>>

-----------------------------------------------------------------------------
(* run_server *)

\* JournalHost::start removes orkia.sock ...
UnlinkHub(d) ==
    /\ pc[d] = "locked"
    /\ orkia' = None
    /\ Goto(d, "hub")
    /\ UNCHANGED <<hosts, lock, control, seen, reclaims, repl, crashes>>

\* ... and binds it; a failed bind leaves a daemon without a hub
BindHub(d) ==
    /\ pc[d] = "hub"
    /\ IF orkia = None THEN orkia' = d /\ hosts' = hosts \union {d}
                       ELSE UNCHANGED <<orkia, hosts>>
    /\ Goto(d, "unlink")
    /\ UNCHANGED <<lock, control, seen, reclaims, repl, crashes>>

UnlinkControl(d) ==
    /\ pc[d] = "unlink"
    /\ control' = None
    /\ Goto(d, "bind")
    /\ UNCHANGED <<hosts, lock, orkia, seen, reclaims, repl, crashes>>

BindControl(d) ==
    /\ pc[d] = "bind"
    /\ control = None
    /\ control' = d
    /\ Goto(d, "serving")
    /\ UNCHANGED <<hosts, lock, orkia, seen, reclaims, repl, crashes>>

\* the path is taken again, or bind, chmod or the actor thread fails: return 1
StartFails(d) ==
    /\ pc[d] = "bind"
    /\ control' \in {control} \union (IF control = None THEN {d} ELSE {})
    /\ Goto(d, "aborting")
    /\ UNCHANGED <<hosts, lock, orkia, seen, reclaims, repl, crashes>>

\* the early return drops the host while the runtime still runs: the listener
\* goes, then JournalStore::drop joins a writer whose sender the disk tee keeps
AbortHub(d) ==
    /\ pc[d] = "aborting"
    /\ orkia' = IF d \in hosts THEN None ELSE orkia
    /\ hosts' = hosts \ {d}
    /\ Goto(d, IF d \in hosts THEN "stuck" ELSE "unlocking")
    /\ UNCHANGED <<lock, control, seen, reclaims, repl, crashes>>

\* the accept loop ends: remove_file(path)
Stop(d) ==
    /\ pc[d] = "serving"
    /\ control' = None
    /\ Goto(d, "dropping")
    /\ UNCHANGED <<hosts, lock, orkia, seen, reclaims, repl, crashes>>

\* Mutant: the lock is released before the sockets are torn down.
DropHubLast(d) ==
    /\ pc[d] = "dropping"
    /\ lock' = NoLock
    /\ orkia' = IF d \in hosts THEN None ELSE orkia
    /\ hosts' = hosts \ {d}
    /\ Goto(d, "unlocking")
    /\ UNCHANGED <<control, seen, reclaims, repl, crashes>>

\* drop(journal_host), the runtime shut down first: JournalListener::drop
\* removes orkia.sock, unless a client thread still holds the host
DropHub(d) ==
    /\ pc[d] = "dropping"
    /\ orkia' \in {orkia} \union (IF d \in hosts THEN {None} ELSE {})
    /\ hosts' = hosts \ {d}
    /\ Goto(d, "unlocking")
    /\ UNCHANGED <<lock, control, seen, reclaims, repl, crashes>>

\* DaemonLock::drop: remove_file on the path
DropLock(d) ==
    /\ pc[d] = "unlocking"
    /\ lock' = NoLock
    /\ Goto(d, "gone")
    /\ UNCHANGED <<hosts, paths, seen, reclaims, repl, crashes>>

\* the process is killed: its files stay, its listeners do not
Crash(d) ==
    /\ pc[d] \in Running
    /\ crashes < MaxCrashes
    /\ crashes' = crashes + 1
    /\ hosts' = hosts \ {d}
    /\ Goto(d, "dead")
    /\ UNCHANGED <<lock, paths, seen, reclaims, repl>>

-----------------------------------------------------------------------------
(* The REPL: subscribe_journal *)

Answers == control \in Daemons /\ pc[control] = "serving" /\ control \in hosts

ReplSubscribes(r) ==
    /\ repl[r] = "booting"
    /\ Answers
    /\ repl' = [repl EXCEPT ![r] = "subscribed"]
    /\ UNCHANGED <<pc, hosts, lock, paths, seen, reclaims, crashes>>

\* the startup timeout passes without an answer: boot a local hub
ReplFallsBack(r) ==
    /\ repl[r] = "booting"
    /\ ~Answers
    /\ repl' = [repl EXCEPT ![r] = "unlinked"]
    /\ orkia' = None
    /\ UNCHANGED <<pc, hosts, lock, control, seen, reclaims, crashes>>

ReplBinds(r) ==
    /\ repl[r] = "unlinked"
    /\ IF orkia = None THEN orkia' = r /\ repl' = [repl EXCEPT ![r] = "local"]
                       ELSE UNCHANGED orkia /\ repl' = [repl EXCEPT ![r] = "hubless"]
    /\ UNCHANGED <<pc, hosts, lock, control, seen, reclaims, crashes>>

\* a local hub's destructor removes the path too
ReplExits(r) ==
    /\ repl[r] \in {"local", "hubless", "subscribed"}
    /\ orkia' = IF repl[r] = "local" THEN None ELSE orkia
    /\ repl' = [repl EXCEPT ![r] = "exited"]
    /\ UNCHANGED <<pc, hosts, lock, control, seen, reclaims, crashes>>

Next ==
    \/ \E d \in Daemons :
          \/ Start(d)
          \/ CreateLock(d)
          \/ RecordPid(d)
          \/ InspectLock(d)
          \/ ProbePid(d)
          \/ ReclaimLock(d)
          \/ UnlinkHub(d)
          \/ BindHub(d)
          \/ UnlinkControl(d)
          \/ BindControl(d)
          \/ StartFails(d)
          \/ AbortHub(d)
          \/ Stop(d)
          \/ DropHub(d)
          \/ DropLock(d)
          \/ Crash(d)
    \/ \E r \in Repls :
          \/ ReplSubscribes(r)
          \/ ReplFallsBack(r)
          \/ ReplBinds(r)
          \/ ReplExits(r)

Spec == Init /\ [][Next]_vars

-----------------------------------------------------------------------------
(* Properties *)

\* Every variable has its type.
TypeOK ==
    /\ pc \in [Daemons -> Locations]
    /\ hosts \subseteq Daemons
    /\ lock \in [by : Daemons \union {None}, pid : Daemons \union {None}]
    /\ orkia \in Daemons \union Repls \union {None}
    /\ control \in Daemons \union {None}
    /\ repl \in [Repls -> {"booting", "unlinked", "local", "hubless",
                           "subscribed", "exited"}]
    /\ seen \in [Daemons -> Daemons \union {None}]
    /\ reclaims \in Nat
    /\ crashes \in Nat

\* One daemon at a time is past the lock.
SoleOwner == \A d, e \in Daemons : pc[d] \in Holding /\ pc[e] \in Holding => d = e

\* ... which the lock guarantees, through crashes, refusals and clean restarts,
\* until a daemon takes the reclaim path.
SoleOwnerUntilReclaim == reclaims = 0 => SoleOwner

\* No REPL has booted a hub of its own.
NoFallback == \A r \in Repls : repl[r] \in {"booting", "subscribed"}

\* Until then the lock file is its holder's own, and a daemon that serves is
\* reachable: both paths name its own sockets (orkia.sock as long as no REPL fell
\* back to a hub of its own), however many others start, inspect the lock, are
\* refused, die, or have just torn down.
ReachableUntilReclaim ==
    reclaims = 0 =>
        \A d \in Daemons :
            /\ pc[d] \in Holding => lock.by = d
            /\ pc[d] = "serving" => control = d
            /\ NoFallback /\ d \in hosts => orkia = d

\* Racing daemons never refuse one another with no one left to serve.
SomeoneWins ==
    crashes = 0 /\ (\E d \in Daemons : pc[d] = "refused")
        => \E d \in Daemons : pc[d] \in Holding \union {"gone"}
=============================================================================
