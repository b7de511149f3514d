------------------------------ MODULE SealJobs ------------------------------
(***************************************************************************)
(* SealManager and the routing half of the SEAL consumer: one chain per    *)
(* job, re-used job ids, and the job.reference record that bridges a       *)
(* closed job chain into its project's chain.                              *)
(* Source: seal/manager.rs, seal/consumer/mod.rs (crates/orkia-shell).     *)
(*                                                                         *)
(* One agent name and one project, the case in which paths collide.  A     *)
(* chain file is a sequence of records; SealChain covers what happens      *)
(* below that (torn lines, reloads).  `inst` says which run of an agent a  *)
(* record is about; the code has no such field.                            *)
(***************************************************************************)
EXTENDS Naturals, Sequences

CONSTANTS
    Procs,          \* shell processes sharing one data_dir
    Faults,         \* subset of {"append", "rename"}
    MaxJob,         \* bound: job ids one process hands out
    MaxHash,        \* bound: records ever written
    MaxFaults,      \* bound: failed appends and renames
    MaxRestarts     \* bound: process restarts

FaultKinds == {"append", "rename"}

ASSUME JobsConstants ==
    /\ Faults \subseteq FaultKinds
    /\ MaxJob \in Nat /\ MaxHash \in Nat
    /\ MaxFaults \in Nat /\ MaxRestarts \in Nat

VARIABLES
    file,       \* file[j]: <agent>/jobs/<j>/seal.jsonl
    archive,    \* the seal.jsonl.N files
    project,    \* the project's seal.jsonl
    mgr,        \* mgr[p]: SealManager of process p
    minted,     \* digests computed so far
    insts,      \* agent runs started so far
    faults,     \* faults[k]: how often k has gone wrong
    restarts

vars == <<file, archive, project, mgr, minted, insts, faults, restarts>>

JobIds == 1 .. MaxJob

TerminalEvents == {"agent.complete", "agent.failed"}
JobEvents      == {"agent.spawn", "hook"} \union TerminalEvents
ProjectEvents  == {"rfc", "job.reference"}

Record == [ev   : JobEvents \union ProjectEvents,
           inst : Nat,
           hash : Nat \ {0},
           prev : Nat,
           job  : Nat,      \* job.reference: job_id
           tip  : Nat]      \* job.reference: job_chain_hash

Tip(records) == IF records = <<>> THEN 0 ELSE records[Len(records)].hash

IsTerminated(records) ==
    records # <<>> /\ records[Len(records)].ev \in TerminalEvents

\* A SealChain in memory; held = FALSE when the map has no entry.
NoChain == [held |-> FALSE, closed |-> FALSE, records |-> <<>>]

\* load_or_quarantine of a file that can be read.  One that is there and cannot be
\* read is quarantined: no append to it writes anything, as after "append" faults;
\* SealChain has that path.  open_job_chain (the same load, no archive) serves the
\* daemon's own audit chains, under an agent name of their own.
LoadChain(records) ==
    [held |-> TRUE, closed |-> IsTerminated(records), records |-> records]

\* run[j]: the agent run this process knows as job j
NewManager == [jobs    |-> [j \in JobIds |-> NoChain],
               project |-> NoChain,
               run     |-> [j \in JobIds |-> 0],
               next_id |-> 1]

Init ==
    /\ file = [j \in JobIds |-> <<>>]
    /\ archive = {}
    /\ project = <<>>
    /\ mgr = [p \in Procs |-> NewManager]
    /\ minted = 0
    /\ insts = 0
    /\ faults = [k \in FaultKinds |-> 0]
    /\ restarts = 0

\* `kind` goes wrong now
Fault(kind) ==
    /\ kind \in Faults
    /\ faults["append"] + faults["rename"] < MaxFaults
    /\ faults' = [faults EXCEPT ![kind] = @ + 1]

\* append_with_rfc on the mirror: what the chain and the file become.  The
\* line goes to the path, linked to whatever the mirror holds.
Linked(chain, r) == [r EXCEPT !.prev = Tip(chain.records)]

Pushed(chain, r) ==
    [held    |-> TRUE,
     closed  |-> chain.closed \/ r.ev \in TerminalEvents,
     records |-> Append(chain.records, Linked(chain, r))]

JobRecord(e, inst, h) ==
    [ev |-> e, inst |-> inst, hash |-> h, prev |-> 0, job |-> 0, tip |-> 0]

Reference(inst, h, j, tip) ==
    [ev |-> "job.reference", inst |-> inst, hash |-> h, prev |-> 0, job |-> j, tip |-> tip]

\* seal_job: no chain and a closed chain both swallow the event
Accepts(chain) == chain.held /\ ~chain.closed

-----------------------------------------------------------------------------
(* EventPayload::Custom "agent.spawn" *)

\* Mutant: the old chain is copied to the archive and left where it was.
ArchiveCopies(records, renamed) == records

\* archive_stale_chain: what is left at the path
ArchiveStaleChain(records, renamed) == IF renamed THEN <<>> ELSE records

\* create_job_chain, then the genesis record.  A non-empty file at the path
\* is archived first; a rename that fails leaves it in place to be loaded.
\* entry().or_insert keeps a chain the map already has.
RouteSpawn(p, renamed, sealed) ==
    LET j      == mgr[p].next_id
        stale  == file[j] # <<>>
        onDisk == ArchiveStaleChain(file[j], renamed)
        chain  == IF mgr[p].jobs[j].held THEN mgr[p].jobs[j]
                                         ELSE LoadChain(onDisk)
        r      == JobRecord("agent.spawn", insts + 1, minted + 1)
        writes == sealed /\ Accepts(chain)
    IN  /\ mgr[p].next_id <= MaxJob
        /\ minted < MaxHash
        /\ stale \/ renamed
        /\ \/ renamed /\ sealed /\ faults' = faults
           \/ ~renamed /\ sealed /\ Fault("rename")
           \/ renamed /\ ~sealed /\ Fault("append")
        /\ insts' = insts + 1
        /\ minted' = minted + 1
        /\ archive' = IF stale /\ renamed THEN archive \union {file[j]} ELSE archive
        /\ file' = [file EXCEPT ![j] =
                       IF writes THEN Append(onDisk, Linked(chain, r)) ELSE onDisk]
        /\ mgr' = [mgr EXCEPT ![p] = [@ EXCEPT
               !.jobs    = [mgr[p].jobs EXCEPT ![j] = IF writes THEN Pushed(chain, r) ELSE chain],
               !.run     = [mgr[p].run EXCEPT ![j] = insts + 1],
               !.next_id = j + 1]]
        /\ UNCHANGED <<project, restarts>>

(* hooks, approvals, tells, unknown custom events *)

\* seal_job_with_rfc of an event that is neither genesis nor terminal
RouteJobEvent(p, j, sealed) ==
    LET chain == mgr[p].jobs[j]
        r     == JobRecord("hook", mgr[p].run[j], minted + 1)
    IN  /\ Accepts(chain)
        /\ minted < MaxHash
        /\ minted' = minted + 1
        /\ \/ sealed /\ faults' = faults
              /\ file' = [file EXCEPT ![j] = Append(@, Linked(chain, r))]
              /\ mgr' = [mgr EXCEPT ![p] =
                            [@ EXCEPT !.jobs = [mgr[p].jobs EXCEPT ![j] = Pushed(chain, r)]]]
           \/ ~sealed /\ Fault("append") /\ UNCHANGED <<file, mgr>>
        /\ UNCHANGED <<archive, project, insts, restarts>>

(* rfc., issue., project. events *)

\* seal_project_with_rfc: the chain is loaded on first touch, then cached
ProjectChain(p) == IF mgr[p].project.held THEN mgr[p].project
                                          ELSE LoadChain(project)

\* seal_project_for an event that names its project
RouteProjectEvent(p) ==
    LET r == JobRecord("rfc", 0, minted + 1)
    IN  /\ minted < MaxHash
        /\ minted' = minted + 1
        /\ project' = Append(project, Linked(ProjectChain(p), r))
        /\ mgr' = [mgr EXCEPT ![p] = [@ EXCEPT !.project = Pushed(ProjectChain(p), r)]]
        /\ UNCHANGED <<file, archive, insts, faults, restarts>>

(* EventPayload::SessionEnd *)

\* Mutant: the tip is read before the terminal record is sealed.
TipBeforeClose(before, sealed) == Tip(before.records)

\* close_job_chain answers with the tip of the chain it closed
CloseJobChain(before, sealed) == Tip(sealed.records)

\* evict_job_chain
EvictJobChain(chain) == NoChain

\* close_job_and_link: seal the terminal record, close, write job.reference
\* if the chain has a tip, and evict whatever happened.  `failed` says which
\* of the two appends the disk refuses; `linked` whether job_projects knows
\* the job.  A SessionEnd for an evicted job finds no chain and does nothing.
RouteSessionEnd(p, j, code, linked, failed) ==
    LET chain    == mgr[p].jobs[j]
        terminal == JobRecord(IF code = 0 THEN "agent.complete" ELSE "agent.failed",
                              mgr[p].run[j], minted + 1)
        sealedTo == IF Accepts(chain) /\ failed # "job" THEN Pushed(chain, terminal)
                                                        ELSE chain
        ref      == Reference(mgr[p].run[j], minted + 2, j, CloseJobChain(chain, sealedTo))
        hasTip   == linked /\ sealedTo.records # <<>>
        refers   == hasTip /\ failed = "none"
    IN  /\ chain.held
        /\ minted + 2 <= MaxHash
        /\ minted' = minted + 2
        /\ \/ failed = "none" /\ faults' = faults
           \/ failed = "job" /\ Accepts(chain) /\ Fault("append")
           \/ failed = "reference" /\ hasTip /\ Fault("append")
        /\ file' = [file EXCEPT ![j] =
                       IF sealedTo = chain THEN @
                       ELSE Append(@, Linked(chain, terminal))]
        /\ project' = IF refers THEN Append(project, Linked(ProjectChain(p), ref))
                                ELSE project
        /\ mgr' = [mgr EXCEPT ![p] = [@ EXCEPT
               !.jobs    = [mgr[p].jobs EXCEPT ![j] = EvictJobChain(sealedTo)],
               !.project = IF refers THEN Pushed(ProjectChain(p), ref) ELSE mgr[p].project]]
        /\ UNCHANGED <<archive, insts, restarts>>

(* the process ends and a new one starts: memory is gone, ids start over *)
Restart(p) ==
    /\ restarts < MaxRestarts
    /\ restarts' = restarts + 1
    /\ mgr' = [mgr EXCEPT ![p] = NewManager]
    /\ UNCHANGED <<file, archive, project, minted, insts, faults>>

Next ==
    \E p \in Procs :
       \/ \E renamed, sealed \in BOOLEAN : RouteSpawn(p, renamed, sealed)
       \/ \E j \in JobIds, sealed \in BOOLEAN : RouteJobEvent(p, j, sealed)
       \/ RouteProjectEvent(p)
       \/ \E j \in JobIds, code \in {0, 1}, linked \in BOOLEAN,
             failed \in {"none", "job", "reference"} :
             RouteSessionEnd(p, j, code, linked, failed)
       \/ Restart(p)

Spec == Init /\ [][Next]_vars

-----------------------------------------------------------------------------
(* Properties *)

ChainType == [held : BOOLEAN, closed : BOOLEAN, records : Seq(Record)]

ManagerType == [jobs    : [JobIds -> ChainType],
                project : ChainType,
                run     : [JobIds -> Nat],
                next_id : 1 .. MaxJob + 1]

\* Every variable has its type.
TypeOK ==
    /\ file \in [JobIds -> Seq(Record)]
    /\ archive \subseteq Seq(Record)
    /\ project \in Seq(Record)
    /\ mgr \in [Procs -> ManagerType]
    /\ minted \in Nat /\ insts \in Nat /\ restarts \in Nat
    /\ faults \in [FaultKinds -> Nat]

JobFiles == archive \union {file[j] : j \in JobIds}

LinkedFromGenesis(records) ==
    \A i \in DOMAIN records :
        records[i].prev = IF i = 1 THEN 0 ELSE records[i - 1].hash

\* Each chain file, live or archived, is about one run of one agent: no
\* re-used id ever splices two jobs together, and no terminal record is
\* followed by another.  The rename that archives a stale chain is what keeps
\* runs apart; where one failed there is no such promise.
OneJobPerChain ==
    faults["rename"] = 0 => \A c \in JobFiles :
        /\ \A i, k \in DOMAIN c : c[i].inst = c[k].inst
        /\ \A i \in DOMAIN c : c[i].ev \in TerminalEvents => i = Len(c)

\* Every chain file verifies, and begins with its agent.spawn unless the disk
\* refused a write.
ChainsVerify ==
    /\ \A c \in JobFiles :
          /\ LinkedFromGenesis(c)
          /\ faults["append"] = 0 /\ c # <<>> => c[1].ev = "agent.spawn"
    /\ LinkedFromGenesis(project)

References == {i \in DOMAIN project : project[i].ev = "job.reference"}

\* A job.reference pins a chain that is still on disk, ends in the terminal
\* record of that very job (unless an archiving rename failed), and so can
\* never change again.
ReferencePinsTerminal ==
    faults["rename"] = 0 => \A i \in References :
        \E c \in JobFiles :
            /\ IsTerminated(c)
            /\ c[Len(c)].hash = project[i].tip
            /\ c[Len(c)].inst = project[i].inst

\* Two ends of one job (Stop hook and process exit, say) leave one reference.
ReferencedOnce ==
    \A i, k \in References : project[i].inst = project[k].inst => i = k

\* Re-used ids and refused writes leave every job chain about one job and intact.
JobChainsSound == TypeOK /\ ChainsVerify /\ OneJobPerChain

\* The project chain has one reference per job, to a chain that cannot change.
ReferencesSound == ReferencePinsTerminal /\ ReferencedOnce

=============================================================================
