-------------------------------- MODULE Rfc --------------------------------
(***************************************************************************)
(* One RFC under RfcStateService: its file, its decision log, the archives *)
(* a reopen leaves, and the processes that work on it.  The shell and each *)
(* detached runtime have a service of their own, with its write lock, its  *)
(* mutex and its decision counter; the threads of a process (MCP           *)
(* connections of agents, in the shell also the REPL) share its service.   *)
(* Source: crates/orkia-rfc-state/src/service/*.rs, orkia-rfc-lock,        *)
(* orkia-rfc-core/src/{state,matrix,store,decision}.rs,                    *)
(* orkia-shell/src/rfc_state.rs.                                           *)
(*                                                                         *)
(* propose_edit holds the mutex of its service's lock store from load to   *)
(* save; no other operation holds anything from its reads to its writes.   *)
(* A body is a number, and so is its content_hash.                         *)
(***************************************************************************)
EXTENDS Naturals, Sequences, FiniteSets, FiniteSetsExt

CONSTANTS
    Agents,         \* agents, one MCP call at a time each
    Human,          \* the REPL thread
    Services,       \* the processes, each with its RfcStateService
    Shell,          \* the human's
    None,
    MaxAsks,        \* bound: decision ids handed out
    MaxCalls,       \* bound: decision ids handed out and bodies proposed
    MaxVersions,    \* bound: versions
    MaxFaults       \* bound: failed writes and crashes

ASSUME RfcConstants ==
    /\ Human \notin Agents
    /\ None \notin Agents \union {Human}
    /\ Shell \in Services
    /\ MaxAsks \in Nat /\ MaxCalls \in Nat /\ MaxVersions \in Nat \ {0} /\ MaxFaults \in Nat

VARIABLES
    rfc,        \* rfcs/<id>.md
    log,        \* decisions/<id>.jsonl; empty iff there is no such file
    loose,      \* the thread whose newline the last line of the log lacks
    glued,      \* two records of the log share a line: read_all fails
    bodies,     \* rfcs/<id>.history/v<n>.md: the versions archived
    logs,       \* logs[n]: decisions/<id>.history/v<n>.jsonl
    home,       \* home[t]: the process of thread t
    up,         \* the processes whose service exists
    lock,       \* lock[v]: the entry of v's LockStore
    seq,        \* seq[v]: v's decision_seq
    op,         \* op[t]: the call thread t is in
    edits,      \* edits[n]: the process where body n was proposed
    asks,       \* decision ids handed out so far
    faults,
    history     \* written: decisions written; issuers: the services that handed
                \* out ids; late, torn: below

store   == <<rfc, bodies, logs>>
records == <<log, loose, glued>>
service == <<home, up, lock, seq>>
vars    == <<store, records, service, op, edits, asks, faults, history>>

Threads  == Agents \union {Human}
Versions == 1 .. MaxVersions

States == {"absent", "draft-empty", "draft-active", "active", "completed", "abandoned"}
Draft  == {"draft-empty", "draft-active"}

Transitions == {"resolve", "promote", "complete", "abandon"}

Rec      == [state : States, version : 0 .. MaxVersions, body : Nat]
Decision == [id : Nat, version : 0 .. MaxVersions, status : {"open", "resolved", "proposed"}]

NoRfc    == [state |-> "absent", version |-> 0, body |-> 0]
NoLock   == [by |-> None, expired |-> FALSE]
NoChange == [id |-> 0, version |-> 0, status |-> "open"]

\* rec: the record loaded; what: the transition, or the state it leads to;
\* entry: the decision record to append; existed: dec_existed
Call(pc, rec, what, entry, existed) ==
    [pc |-> pc, rec |-> rec, what |-> what, entry |-> entry, existed |-> existed]

Idle == Call("idle", NoRfc, "none", NoChange, FALSE)

Init ==
    /\ rfc = NoRfc
    /\ log = <<>> /\ loose = None /\ glued = FALSE
    /\ bodies = {}
    /\ logs = [n \in Versions |-> <<>>]
    /\ home \in [Threads -> Services] /\ home[Human] = Shell
    /\ up = {}
    /\ lock = [v \in Services |-> NoLock]
    /\ seq = [v \in Services |-> 0]
    /\ op = [t \in Threads |-> Idle]
    /\ edits = <<>>
    /\ asks = 0
    /\ faults = 0
    /\ history = [written |-> {}, issuers |-> {}, late |-> FALSE, torn |-> FALSE]

\* t is in no call, and its process has the service
Ready(t) == op[t] = Idle /\ home[t] \in up

Goto(t, call) == op' = [op EXCEPT ![t] = call]

\* counts_from: a decision's latest record tells its status
Latest(id) ==
    LET at == {i \in DOMAIN log : log[i].id = id}
    IN  IF at = {} THEN NoChange ELSE log[Max(at)]

Ids              == {log[i].id : i \in DOMAIN log}
Counted(status)  == Cardinality({id \in Ids : Latest(id).status = status})

-----------------------------------------------------------------------------
(* a process starts, create *)

\* Mutant: a new process numbers its decisions from d-001.
InitialSeqZero == 0

\* initial_decision_seq: the highest id in the live log; 0 if it cannot be read
InitialDecisionSeq == IF glued \/ Ids = {} THEN 0 ELSE Max(Ids)

\* the first RFC call in the process: get_or_create
Start(v) ==
    /\ v \notin up
    /\ up' = up \union {v}
    /\ seq' = [seq EXCEPT ![v] = InitialDecisionSeq]
    /\ UNCHANGED <<store, records, home, lock, op, edits, asks, faults, history>>

Create ==
    /\ Ready(Human)
    /\ rfc.state = "absent"
    /\ rfc' = [state |-> "draft-empty", version |-> 1, body |-> 0]
    /\ UNCHANGED <<bodies, logs, records, service, op, edits, asks, faults, history>>

-----------------------------------------------------------------------------
(* ask and log_decision: load, check the matrix, take an id, append *)

\* tool_allowed, for Ask ("open") and LogDecision ("proposed")
ToolAllowed(status) ==
    rfc.state \in (IF status = "open" THEN Draft ELSE {"draft-active"})

AskLoad(t, status) ==
    LET v  == home[t]
        id == seq[v] + 1
    IN  /\ Ready(t)
        /\ t = Human => status = "open"
        /\ ToolAllowed(status)
        /\ asks < MaxAsks /\ asks + Len(edits) < MaxCalls
        /\ asks' = asks + 1
        /\ seq' = [seq EXCEPT ![v] = id]
        /\ history' = [history EXCEPT !.issuers = @ \union {v}]
        /\ Goto(t, Call("append", NoRfc, "none",
                        [id |-> id, version |-> rfc.version, status |-> status], FALSE))
        /\ UNCHANGED <<store, records, home, up, lock, edits, faults>>

\* a design decision written when a promotion has done its counting
Uncounted(entry) ==
    entry.status = "proposed" /\ (rfc.state # "draft-active" \/ op[Human].pc = "save")

\* the log is being moved: what is written now may be neither archived nor live
Moving == op[Human].pc \in {"commit", "clear"} /\ op[Human].existed

\* append, and the same for an answer: writeln! writes the line ...
\* history.late: an uncounted one was written;
\* history.torn: a record was written behind the back of a running reopen or
\* on the line of another
AppendLine(t) ==
    /\ op[t].pc \in {"append", "resolve"}
    /\ log' = Append(log, op[t].entry)
    /\ loose' = t
    /\ glued' = (glued \/ loose # None)
    /\ history' = [history EXCEPT !.written = @ \union {op[t].entry},
                                  !.late = @ \/ Uncounted(op[t].entry),
                                  !.torn = @ \/ Moving \/ loose # None]
    /\ Goto(t, Call("newline", op[t].rec, "none", op[t].entry, FALSE))
    /\ UNCHANGED <<store, service, edits, asks, faults>>

\* ... and then its newline, wherever the file is by now
AppendNewline(t) ==
    LET call == op[t]
    IN  /\ call.pc = "newline"
        /\ loose' = IF loose = t THEN None ELSE loose
        /\ Goto(t, IF call.entry.status = "resolved" /\ call.rec.state = "draft-empty"
                   THEN Call("resolved", call.rec, "none", NoChange, FALSE) ELSE Idle)
        /\ UNCHANGED <<store, log, glued, service, edits, asks, faults, history>>

-----------------------------------------------------------------------------
(* resolve_clarification *)

\* the latest record of the id is an open clarification
Resolvable(id) == id \in Ids /\ Latest(id).status = "open" /\ ~glued

ResolveLoad(id) ==
    /\ Ready(Human)
    /\ rfc.state # "absent"
    /\ Resolvable(id)
    /\ Goto(Human, Call("resolve", rfc, "none",
                        [id |-> id, version |-> rfc.version, status |-> "resolved"], FALSE))
    /\ UNCHANGED <<store, records, service, edits, asks, faults, history>>

\* The last answer sets off the system's own transition, which loads the file
\* again (nobody else writes it in draft-empty) and counts again.
ResolveCounts ==
    /\ op[Human].pc = "resolved"
    /\ Goto(Human, IF Counted("open") = 0 /\ ~glued
                   THEN Call("counts", rfc, "resolve", NoChange, FALSE) ELSE Idle)
    /\ UNCHANGED <<store, records, service, edits, asks, faults, history>>

-----------------------------------------------------------------------------
(* promote, complete, abandon: transition *)

TransitionLoad(t) ==
    /\ Ready(Human)
    /\ t \in Transitions \ {"resolve"}
    /\ rfc.state # "absent"
    /\ Goto(Human, Call("counts", rfc, t, NoChange, FALSE))
    /\ UNCHANGED <<store, records, service, edits, asks, faults, history>>

\* Mutant: promotion does not look at the design decisions.
ValidateUnreviewed(from, t) ==
    CASE t = "resolve"  /\ from = "draft-empty"  /\ Counted("open") = 0 -> "draft-active"
      [] t = "promote"  /\ from = "draft-active" -> "active"
      [] t = "complete" /\ from = "active" -> "completed"
      [] t = "abandon"  /\ from \in {"active", "draft-active"} -> "abandoned"
      [] OTHER -> "absent"

\* validate_transition: where t leads, "absent" for an error.  dispatch_done is
\* always true here.
ValidateTransition(from, t) ==
    CASE t = "resolve"  /\ from = "draft-empty"  /\ Counted("open") = 0 -> "draft-active"
      [] t = "promote"  /\ from = "draft-active" /\ Counted("proposed") = 0 -> "active"
      [] t = "complete" /\ from = "active" -> "completed"
      [] t = "abandon"  /\ from \in {"active", "draft-active"} -> "abandoned"
      [] OTHER -> "absent"

TransitionCounts ==
    LET call == op[Human]
        to   == ValidateTransition(call.rec.state, call.what)
    IN  /\ call.pc = "counts"
        /\ Goto(Human, IF to = "absent" \/ glued THEN Idle
                       ELSE Call("save", call.rec, to, NoChange, FALSE))
        /\ UNCHANGED <<store, records, service, edits, asks, faults, history>>

\* save(fm, rec.body): the body as loaded
TransitionSave ==
    /\ op[Human].pc = "save"
    /\ rfc' = [state   |-> op[Human].what,
               version |-> op[Human].rec.version,
               body    |-> op[Human].rec.body]
    /\ Goto(Human, Idle)
    /\ UNCHANGED <<bodies, logs, records, service, edits, asks, faults, history>>

-----------------------------------------------------------------------------
(* reopen *)

\* bound: a reopen finds a version it can still take up, also when an edit of a
\* later version is saved before it loads again
VersionsLeft ==
    rfc.version < MaxVersions /\ \A a \in Agents : op[a].rec.version < MaxVersions

\* the service validates the state it loads ...
ReopenValidate ==
    /\ Ready(Human)
    /\ rfc.state \in {"active", "completed", "abandoned"}
    /\ VersionsLeft
    /\ Goto(Human, Call("reopen", rfc, "none", NoChange, FALSE))
    /\ UNCHANGED <<store, records, service, edits, asks, faults, history>>

\* ... and the store loads again and archives the body
ReopenArchive ==
    /\ op[Human].pc = "reopen"
    /\ bodies' = bodies \union {rfc.version}
    /\ Goto(Human, Call("copy", rfc, "none", NoChange, FALSE))
    /\ UNCHANGED <<rfc, logs, records, service, edits, asks, faults, history>>

\* Mutant: the log is moved to the archive before the commit.
ReopenMoves ==
    LET n == op[Human].rec.version
    IN  /\ op[Human].pc = "copy"
        /\ logs' = IF log # <<>> THEN [logs EXCEPT ![n] = log] ELSE logs
        /\ log' = <<>>
        /\ Goto(Human, Call("commit", op[Human].rec, "none", NoChange, log # <<>>))
        /\ UNCHANGED <<rfc, bodies, loose, glued, service, edits, asks, faults, history>>

\* copy the decision log, if there is one
ReopenCopies ==
    LET n == op[Human].rec.version
    IN  /\ op[Human].pc = "copy"
        /\ logs' = IF log # <<>> THEN [logs EXCEPT ![n] = log] ELSE logs
        /\ Goto(Human, Call("commit", op[Human].rec, "none", NoChange, log # <<>>))
        /\ UNCHANGED <<rfc, bodies, records, service, edits, asks, faults, history>>

NextVersion(n) == n + 1

ReopenCommit ==
    LET call == op[Human]
    IN  /\ call.pc = "commit"
        /\ rfc' = [state   |-> "draft-active",
                   version |-> NextVersion(call.rec.version),
                   body    |-> call.rec.body]
        /\ Goto(Human, IF call.existed THEN Call("clear", call.rec, "none", NoChange, TRUE)
                                       ELSE Idle)
        /\ UNCHANGED <<bodies, logs, records, service, edits, asks, faults, history>>

\* remove_file; history.torn: an append that has the file open may still come
ReopenClear ==
    /\ op[Human].pc = "clear"
    /\ log' = <<>> /\ loose' = None /\ glued' = FALSE
    /\ history' = [history EXCEPT !.torn = @ \/ \E a \in Agents : op[a].pc = "append"]
    /\ Goto(Human, Idle)
    /\ UNCHANGED <<store, service, edits, asks, faults>>

-----------------------------------------------------------------------------
(* propose_edit and the lock store *)

\* Mutant: the mutex is dropped before the save.
MutexNever(v) == TRUE

\* no thread of the process is inside propose_edit
MutexFree(v) == \A t \in Agents : op[t].pc = "edit" => home[t] # v

\* acquire_at
Acquirable(a) ==
    LET entry == lock[home[a]] IN entry.by = None \/ entry.expired \/ entry.by = a

\* load, check state and hash (a claimed hash that differs is an error), lock
EditLoad(a) ==
    LET v == home[a]
    IN  /\ Ready(a)
        /\ MutexFree(v)
        /\ rfc.state = "draft-active"
        /\ asks + Len(edits) < MaxCalls
        /\ Acquirable(a)
        /\ lock' = [lock EXCEPT ![v] = [by |-> a, expired |-> FALSE]]
        /\ edits' = Append(edits, v)
        /\ Goto(a, Call("edit", [state   |-> rfc.state,
                                 version |-> rfc.version,
                                 body    |-> Len(edits) + 1], "none", NoChange, FALSE))
        /\ UNCHANGED <<store, records, home, up, seq, asks, faults, history>>

\* save(rec.fm, new_body); history.torn: over a version it did not load
EditSave(a) ==
    /\ op[a].pc = "edit"
    /\ rfc' = op[a].rec
    /\ history' = [history EXCEPT !.torn = @ \/ rfc.version # op[a].rec.version]
    /\ Goto(a, Idle)
    /\ UNCHANGED <<bodies, logs, records, service, edits, asks, faults>>

-----------------------------------------------------------------------------
(* the lock's other ways to end; every one takes the mutex *)

SetLock(v, entry) ==
    /\ lock' = [lock EXCEPT ![v] = entry]
    /\ UNCHANGED <<store, records, home, up, seq, op, edits, asks, faults, history>>

\* rfc release-lock
ForceRelease ==
    /\ Ready(Human)
    /\ MutexFree(Shell)
    /\ lock[Shell].by # None
    /\ SetLock(Shell, NoLock)

\* fifteen minutes without an edit of the holder
TimePasses(v) ==
    /\ lock[v].by # None
    /\ ~lock[v].expired
    /\ SetLock(v, [by |-> lock[v].by, expired |-> TRUE])

ReapExpired(v) ==
    /\ MutexFree(v)
    /\ lock[v].expired
    /\ SetLock(v, NoLock)

-----------------------------------------------------------------------------
(* what fails *)

\* A write of t's call fails: the call returns the error, and a lock it took
\* stays.  write_atomic leaves the file as it was; a line whose newline fails
\* stays loose, one whose fsync fails does not; reopen ignores a failed
\* remove_file.
IoFails(t) ==
    /\ faults < MaxFaults
    /\ op[t].pc \in {"append", "resolve", "newline", "save", "reopen", "copy", "commit",
                     "clear", "edit"}
    /\ faults' = faults + 1
    /\ loose' \in {loose, IF op[t].pc = "newline" /\ loose = t THEN None ELSE loose}
    /\ Goto(t, Idle)
    /\ UNCHANGED <<store, log, glued, service, edits, asks, history>>

\* A process dies: the files stay.
Crash(v) ==
    /\ faults < MaxFaults
    /\ v \in up
    /\ faults' = faults + 1
    /\ up' = up \ {v}
    /\ op' = [t \in Threads |-> IF home[t] = v THEN Idle ELSE op[t]]
    /\ lock' = [lock EXCEPT ![v] = NoLock]
    /\ seq' = [seq EXCEPT ![v] = 0]
    /\ UNCHANGED <<store, records, home, edits, asks, history>>

-----------------------------------------------------------------------------
Next ==
    \/ \E v \in Services : Start(v)
    \/ Create
    \/ \E t \in Threads, status \in {"open", "proposed"} : AskLoad(t, status)
    \/ \E t \in Threads : AppendLine(t)
    \/ \E t \in Threads : AppendNewline(t)
    \/ \E id \in Ids : ResolveLoad(id)
    \/ ResolveCounts
    \/ \E t \in Transitions : TransitionLoad(t)
    \/ TransitionCounts
    \/ TransitionSave
    \/ ReopenValidate
    \/ ReopenArchive
    \/ ReopenCopies
    \/ ReopenCommit
    \/ ReopenClear
    \/ \E a \in Agents : EditLoad(a)
    \/ \E a \in Agents : EditSave(a)
    \/ ForceRelease
    \/ \E v \in Services : TimePasses(v)
    \/ \E v \in Services : ReapExpired(v)
    \/ \E t \in Threads : IoFails(t)
    \/ \E v \in Services : Crash(v)

Spec == Init /\ [][Next]_vars

-----------------------------------------------------------------------------
(* Properties *)

\* Every variable has its type, the version bound included.
TypeOK ==
    /\ rfc \in Rec
    /\ log \in Seq(Decision) /\ loose \in Threads \union {None} /\ glued \in BOOLEAN
    /\ bodies \subseteq Versions
    /\ logs \in [Versions -> Seq(Decision)]
    /\ home \in [Threads -> Services] /\ up \subseteq Services
    /\ lock \in [Services -> [by : Agents \union {None}, expired : BOOLEAN]]
    /\ seq \in [Services -> Nat]
    /\ edits \in Seq(Services) /\ asks \in 0 .. MaxAsks
    /\ faults \in 0 .. MaxFaults
    /\ \A t \in Threads : op[t].rec \in Rec /\ op[t].entry \in Decision

\* No lost update between the edits of a process: an edit about to be saved is
\* newer than the body it replaces if that was proposed in the same process,
\* whatever became of its lock, its clock, the human's transitions and the
\* edits of other processes meanwhile (propose_edit: "closes that TOCTOU window
\* (BUG-035)").  Processes do not exclude one another.
EditsInOrder ==
    \A a \in Agents :
        op[a].pc = "edit" /\ rfc.body # 0 /\ edits[rfc.body] = home[a]
            => rfc.body < op[a].rec.body

\* all ids were handed out by one service, and the log can be read
OneNumbering == ~glued /\ \A v, w \in history.issuers : v = w

\* As long as one process hands out the ids, over its crashes and restarts, an
\* id names one decision of the live log, and an answer follows the one question
\* it answers and is the only one (BUG-034, BUG-089).
LogWellFormed ==
    OneNumbering =>
        /\ \A i, j \in DOMAIN log : i < j /\ log[i].id = log[j].id =>
              log[i].status = "open" /\ log[j].status = "resolved"
        /\ \A j \in DOMAIN log : log[j].status = "resolved" =>
              \E i \in 1 .. j - 1 : log[i].id = log[j].id

\* Every decision that was written, hence every one whose caller was told Ok, is
\* in the live log, or its version is over and the archive has it, also when a
\* reopen stops half way (BUG-090); unless another thread wrote during a reopen
\* or two appends shared a line (history.torn).
DecisionsKept ==
    ~history.torn => \A d \in history.written :
        \/ \E i \in DOMAIN log : log[i] = d
        \/ /\ d.version < rfc.version
           /\ \E n \in Versions : \E i \in DOMAIN logs[n] : logs[n][i] = d

\* Every version before the current one is in the archive, wherever a reopen
\* stopped and whatever an edit wrote between its two loads.
VersionsArchived == 1 .. rfc.version - 1 \subseteq bodies

\* A version is active only with its design decisions reviewed, whatever edits,
\* reopens and restarts led there; except for a decision appended after
\* promote had counted (history.late).
PromotedReviewed ==
    rfc.state = "active" /\ ~history.late => Counted("proposed") = 0

\* Neither a decision nor a version is lost, wherever a reopen stops.
NothingLost == TypeOK /\ DecisionsKept /\ VersionsArchived

=============================================================================
