---------------------------- MODULE SealRouting ----------------------------
(***************************************************************************)
(* How an agent's events reach its SEAL chain inside one shell: the spawn  *)
(* path, the journal listener's live handlers, the REPL's two drains, the  *)
(* EventRouter with its dedup window, and the SEAL consumer task.          *)
(* Source (crates/orkia-shell/src unless noted): job/spawn.rs,             *)
(* job/lifecycle.rs, protocol/{hooks,converter}.rs, repl/drains.rs,        *)
(* seal/consumer/mod.rs, crates/orkia-journal-hub/src/listener.rs.         *)
(*                                                                         *)
(* Chain files themselves are SealChain and SealJobs; here log[j] is the   *)
(* sequence of records the consumer appended for job j.  The shell leaves  *)
(* with process::exit, which waits for no queue: what they hold is lost.   *)
(***************************************************************************)
EXTENDS Naturals, Sequences, Filter

CONSTANTS
    Jobs,       \* job ids; a process never hands one out twice
    InProject,  \* the jobs dispatched with a project
    MaxHooks    \* bound: hook envelopes over a behaviour

ASSUME RoutingConstants == InProject \subseteq Jobs /\ MaxHooks \in Nat

VARIABLES
    agent,      \* agent[j]: unborn, started, running, exited
    job_events, \* JobEvent::Completed waiting for drain_job_events
    journal_rx, \* hook envelopes waiting for drain_journal_events
    bus,        \* OrkiaEvents waiting for the consumer
    recent,     \* recent[j]: priority of the session_end seen in the window
    loop,       \* where the REPL loop is: a drain, read_line (prompt), or quit
    chain,      \* chain[j]: none, open, evicted (job_chains)
    log,        \* log[j]: records appended to j's chain
    projects,   \* the jobs job_projects knows
    references, \* job.reference records of the project chain
    hooks,      \* hook envelopes emitted so far
    history     \* what a reader of the code expects, see below

routing_vars == <<agent, job_events, journal_rx, bus, recent, loop, chain, log,
          projects, references, hooks, history>>

\* EventSource::priority
HOOK     == 2
PROTOCOL == 4

\* A hook envelope: SessionStart or a tool call, or the Stop that ends a turn.
Envelope == [kind : {"tool", "stop"}, job : Jobs, id : Nat]

SpawnEvent(j)     == [kind |-> "agent.spawn", job |-> j, id |-> 0, code |-> 0]
HookEvent(env)    == [kind |-> "hook", job |-> env.job, id |-> env.id, code |-> 0]
EndEvent(j, code) == [kind |-> "session_end", job |-> j, id |-> 0, code |-> code]

\* convert_hook: a Stop becomes SessionEnd (claude sends no exit code)
ConvertHook(env) ==
    IF env.kind = "stop" THEN EndEvent(env.job, 0) ELSE HookEvent(env)

\* send_if_not_deduped: suppressed iff a strictly higher priority reported the
\* same (job, tag) within the window.  Only session_end has two sources.
Suppressed(env) == env.kind = "stop" /\ recent[env.job] > HOOK

RoutingInit ==
    /\ agent = [j \in Jobs |-> "unborn"]
    /\ job_events = <<>>
    /\ journal_rx = <<>>
    /\ bus = <<>>
    /\ recent = [j \in Jobs |-> 0]
    /\ loop = "jobs"
    /\ chain = [j \in Jobs |-> "none"]
    /\ log = [j \in Jobs |-> <<>>]
    /\ projects = {}
    /\ references = <<>>
    /\ hooks = 0
    /\ history = [owed |-> {}, ended |-> {}]

-----------------------------------------------------------------------------
(* Spawning: job/spawn.rs *)

\* TerminalEngine::start: the child runs from here on
StartEngine(j) ==
    /\ agent[j] = "unborn"
    /\ agent' = [agent EXCEPT ![j] = "started"]
    /\ UNCHANGED <<job_events, journal_rx, bus, recent, loop, chain, log,
                   projects, references, hooks, history>>

RecordProject(j) == projects \union ({j} \intersect InProject)

\* dispatch_on_spawn: SealChainLifecycle records the project, then emits
OnSpawn(j) ==
    /\ agent[j] = "started"
    /\ agent' = [agent EXCEPT ![j] = "running"]
    /\ projects' = RecordProject(j)
    /\ bus' = Append(bus, SpawnEvent(j))
    /\ UNCHANGED <<job_events, journal_rx, recent, loop, chain, log,
                   references, hooks, history>>

(* Hooks: handle_connection, fire_live_handlers, the fanout task *)

\* Mutant: hooks reach the router through the drain only.
LiveRouteSkipped(env) == <<>>

\* fire_live_handlers: the events on_hook sends
LiveRoute(env) == IF Suppressed(env) THEN <<>> ELSE <<ConvertHook(env)>>

\* The envelope is routed live and then queued for the REPL's drain.  The hook
\* shim is a process of its own and may post after its agent has exited; a turn
\* needs a prompt, which nobody injects before on_spawn.
HookArrives(j, kind) ==
    LET env    == [kind |-> kind, job |-> j, id |-> hooks + 1]
        routed == LiveRoute(env) # <<>>
    IN  /\ agent[j] # "unborn"
        /\ kind = "stop" => agent[j] # "started"
        /\ hooks < MaxHooks
        /\ hooks' = hooks + 1
        /\ bus' = bus \o LiveRoute(env)
        /\ recent' = IF kind = "stop" /\ routed
                     THEN [recent EXCEPT ![j] = HOOK] ELSE recent
        /\ journal_rx' = Append(journal_rx, env)
        /\ history' =
              [history EXCEPT
                 !.owed  = IF kind = "tool" /\ agent[j] # "started" /\ j \notin history.ended
                           THEN @ \union {env.id} ELSE @,
                 !.ended = IF kind = "stop" /\ routed THEN @ \union {j} ELSE @]
        /\ UNCHANGED <<agent, job_events, loop, chain, log, projects, references>>

\* The child exits and the controller reaps it into JobEvent::Completed
ExitAgent(j, code) ==
    /\ agent[j] = "running"
    /\ agent' = [agent EXCEPT ![j] = "exited"]
    /\ job_events' = Append(job_events, [job |-> j, code |-> code])
    /\ UNCHANGED <<journal_rx, bus, recent, loop, chain, log, projects,
                   references, hooks, history>>

-----------------------------------------------------------------------------
(* The REPL loop: drain_job_events, drain_journal_events, then read_line *)

\* Mutant: only successful jobs are reported.
CompletionsOnlyZero ==
    LET Zero(e) == e.code = 0
        ok      == SelectSeq(job_events, Zero)
    IN  [i \in DOMAIN ok |-> EndEvent(ok[i].job, ok[i].code)]

Completions ==
    [i \in DOMAIN job_events |-> EndEvent(job_events[i].job, job_events[i].code)]

\* Each Completed becomes a SessionEnd at protocol priority, never suppressed
DrainJobEvents ==
    /\ loop = "jobs"
    /\ loop' = "journal"
    /\ bus' = bus \o Completions
    /\ LET done == {job_events[i].job : i \in DOMAIN job_events}
       IN  /\ recent' = [j \in Jobs |-> IF j \in done THEN PROTOCOL ELSE recent[j]]
           /\ history' = [history EXCEPT !.ended = @ \union done]
    /\ job_events' = <<>>
    /\ UNCHANGED <<agent, journal_rx, chain, log, projects, references, hooks>>

\* The whole batch goes through EventRouter::on_hook a second time
DrainJournalEvents ==
    /\ loop = "journal"
    /\ loop' = "prompt"
    /\ LET passed == Keep(journal_rx, {env \in Envelope : ~Suppressed(env)})
           stops  == {passed[i].job : i \in {k \in DOMAIN passed : passed[k].kind = "stop"}}
       IN  /\ bus' = bus \o [i \in DOMAIN passed |-> ConvertHook(passed[i])]
           /\ recent' = [j \in Jobs |-> IF j \in stops THEN HOOK ELSE recent[j]]
           /\ history' = [history EXCEPT !.ended = @ \union stops]
    /\ journal_rx' = <<>>
    /\ UNCHANGED <<agent, job_events, chain, log, projects, references, hooks>>

\* read_line returns; with -c the loop sleeps instead
ReadLine ==
    /\ loop = "prompt"
    /\ loop' = "jobs"
    /\ UNCHANGED <<agent, job_events, journal_rx, bus, recent, chain, log, projects,
                   references, hooks, history>>

\* process::exit, or the shell is killed
Quit ==
    /\ loop # "quit"
    /\ loop' = "quit"
    /\ UNCHANGED <<agent, job_events, journal_rx, bus, recent, chain, log, projects,
                   references, hooks, history>>

\* DEDUP_WINDOW (2 s) passes
WindowCloses(j) ==
    /\ recent[j] # 0
    /\ recent' = [recent EXCEPT ![j] = 0]
    /\ UNCHANGED <<agent, job_events, journal_rx, bus, loop, chain, log,
                   projects, references, hooks, history>>

-----------------------------------------------------------------------------
(* The consumer task: route *)

TerminalKind(code) == IF code = 0 THEN "agent.complete" ELSE "agent.failed"

Take == loop # "quit" /\ bus # <<>> /\ bus' = Tail(bus)

\* agent.spawn: create the chain and seal the genesis record
RouteSpawn ==
    /\ Take
    /\ LET e == Head(bus)
       IN  /\ e.kind = "agent.spawn"
           /\ chain' = [chain EXCEPT ![e.job] = "open"]
           /\ log' = [log EXCEPT ![e.job] = Append(@, e)]
    /\ UNCHANGED <<agent, job_events, journal_rx, recent, loop, projects,
                   references, hooks, history>>

\* a job event: appended if the job has a chain, otherwise Ok(()) and gone
RouteHook ==
    /\ Take
    /\ LET e == Head(bus)
       IN  /\ e.kind = "hook"
           /\ log' = IF chain[e.job] = "open"
                     THEN [log EXCEPT ![e.job] = Append(@, e)] ELSE log
    /\ UNCHANGED <<agent, job_events, journal_rx, recent, loop, chain, projects,
                   references, hooks, history>>

\* Mutant: the chain stays in job_chains, open.
EvictNothing(state) == state

\* evict_job_chain
EvictJobChain(state) == IF state = "open" THEN "evicted" ELSE state

\* close_job_and_link
RouteSessionEnd ==
    /\ Take
    /\ LET e    == Head(bus)
           open == chain[e.job] = "open"
       IN  /\ e.kind = "session_end"
           /\ log' = IF open
                     THEN [log EXCEPT ![e.job] =
                              Append(@, [e EXCEPT !.kind = TerminalKind(e.code)])]
                     ELSE log
           /\ references' = IF open /\ e.job \in projects
                            THEN Append(references, e.job) ELSE references
           /\ chain' = [chain EXCEPT ![e.job] = EvictJobChain(@)]
           /\ projects' = projects \ {e.job}
    /\ UNCHANGED <<agent, job_events, journal_rx, recent, loop, hooks, history>>

Consume == RouteSpawn \/ RouteHook \/ RouteSessionEnd

RoutingNext ==
    \/ /\ loop # "quit"
       /\ \E j \in Jobs :
             \/ StartEngine(j)
             \/ OnSpawn(j)
             \/ \E kind \in {"tool", "stop"} : HookArrives(j, kind)
             \/ \E code \in {0, 1} : ExitAgent(j, code)
             \/ WindowCloses(j)
    \/ DrainJobEvents
    \/ DrainJournalEvents
    \/ ReadLine
    \/ Quit
    \/ Consume

\* While the shell runs, the consumer task is scheduled and a drain that is reached
\* is run; read_line need not return, and agents and users need not do anything.
RoutingFairness ==
    /\ WF_routing_vars(DrainJobEvents)
    /\ WF_routing_vars(DrainJournalEvents)
    /\ WF_routing_vars(Consume)

RoutingSpec == RoutingInit /\ [][RoutingNext]_routing_vars /\ RoutingFairness

-----------------------------------------------------------------------------
(* Properties *)

BusEvent == [kind : {"agent.spawn", "hook", "session_end"}, job : Jobs,
             id : Nat, code : {0, 1}]
LogEvent == [kind : {"agent.spawn", "hook", "agent.complete", "agent.failed"},
             job : Jobs, id : Nat, code : {0, 1}]

\* Every variable has its type.
RoutingTypeOK ==
    /\ agent \in [Jobs -> {"unborn", "started", "running", "exited"}]
    /\ job_events \in Seq([job : Jobs, code : {0, 1}])
    /\ journal_rx \in Seq(Envelope)
    /\ bus \in Seq(BusEvent)
    /\ recent \in [Jobs -> {0, HOOK, PROTOCOL}]
    /\ loop \in {"jobs", "journal", "prompt", "quit"}
    /\ chain \in [Jobs -> {"none", "open", "evicted"}]
    /\ log \in [Jobs -> Seq(LogEvent)]
    /\ projects \subseteq InProject
    /\ references \in Seq(Jobs)
    /\ hooks \in 0 .. MaxHooks
    /\ history \in [owed : SUBSET (1 .. MaxHooks), ended : SUBSET Jobs]

IsTerminal(e) == e.kind \in {"agent.complete", "agent.failed"}

SealedIds   == UNION {{log[j][i].id : i \in DOMAIN log[j]} : j \in Jobs}
InFlightIds == {bus[i].id : i \in DOMAIN bus}

\* However many ends a job has (a live Stop, its drained copy, the exit), its
\* chain gets one terminal record, last, and its project one reference.
EndsOnce ==
    \A j \in Jobs :
        /\ \A i \in DOMAIN log[j] : IsTerminal(log[j][i]) => i = Len(log[j])
        /\ chain[j] = "evicted" <=> \E i \in DOMAIN log[j] : IsTerminal(log[j][i])
        /\ \A i, k \in DOMAIN references :
              references[i] = j /\ references[k] = j => i = k

\* The live path is what saves a hook from the drain order (jobs before
\* journal): one that reached the router after its job's genesis and before
\* any end of that job is sealed or still on its way, or was when the shell left.
LiveHooksSealed == history.owed \subseteq SealedIds \union InFlightIds

\* The agents linked from the project chain are the project's agents whose
\* chain is closed: registration is never overtaken by the end it must serve.
ReferencesMatchProjects ==
    {references[i] : i \in DOMAIN references} =
        {j \in InProject : chain[j] = "evicted"}

\* Every agent that exits ends up with a closed chain, in a shell that stays and
\* whose read_line goes on returning: the exit and the chain meet only through the
\* drains between two lines and the consumer's queue.
ExitSeals ==
    []<>(loop = "jobs") => \A j \in Jobs : agent[j] = "exited" ~> chain[j] = "evicted"

\* A job ends once, and is then linked from its project.
ClosedOnce == RoutingTypeOK /\ EndsOnce /\ ReferencesMatchProjects

=============================================================================
