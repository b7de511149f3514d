--------------------------- MODULE FinalResponse ---------------------------
(***************************************************************************)
(* Capture of final responses: each Stop hook starts an extraction task    *)
(* that reads the agent's last words, files them in the job's run          *)
(* directory and publishes an event.  Tasks run concurrently.              *)
(* Source: crates/orkia-final-response/src/service.rs and storage.rs,      *)
(* crates/orkia-shell/src/native/session.rs (native turns).                *)
(*                                                                         *)
(* A text is the number of the turn it closes.  One process files the      *)
(* responses of a run directory; texts are within the byte cap.            *)
(***************************************************************************)
EXTENDS Naturals, Sequences, FiniteSets, SequencesExt

CONSTANTS
    Jobs, None,
    Native,     \* the jobs whose session task publishes its turns itself
    Sessions,   \* session ids of the other jobs
    Cap,        \* LATEST_CACHE_CAP
    Attempts,   \* EXTRACT_ATTEMPTS
    MaxTurns,   \* bound: turns over a behaviour
    MaxFaults   \* bound: failed writes

ASSUME CaptureConstants ==
    /\ Native \subseteq Jobs
    /\ Cap \in Nat \ {0} /\ Attempts \in Nat \ {0}
    /\ MaxTurns \in Nat /\ MaxFaults \in Nat

VARIABLES
    turns,      \* turns ended so far, of all jobs
    said,       \* said[j]: the turns j has ended
    tasks,      \* running tasks, by the turn that started them
    in_flight,  \* keys (job, session) of the running extractions
    history,    \* history[j][n]: final-response.md.<n>, 0 if absent
    current,    \* final-response.md, 0 if absent
    index,      \* final-responses.jsonl: the n of each record
    published,  \* the events sent to the journal, in order
    order, map, \* LatestCache
    blind,      \* jobs whose run directory could not be scanned for a number
    faults

files == <<history, current, index>>
cache == <<order, map>>
agent == <<turns, said>>
disk == <<blind, faults>>
vars == <<agent, tasks, in_flight, files, published, cache, disk>>

Numbers == 0 .. MaxTurns
NoEvent == [job |-> None, turn |-> 0, text |-> 0, ok |-> FALSE]

Task(t, j, s) ==
    [turn |-> t, job |-> j, session |-> s, pc |-> "read", tries |-> 0, text |-> 0, n |-> 0]

NativeTask(t, j, ok) ==
    [turn |-> t, job |-> j, session |-> "native", pc |-> IF ok THEN "number" ELSE "failed",
     tries |-> 0, text |-> IF ok THEN t ELSE 0, n |-> 0]

Init ==
    /\ turns = 0 /\ said = [j \in Jobs |-> {}] /\ tasks = {} /\ in_flight = {}
    /\ history = [j \in Jobs |-> [n \in Numbers |-> 0]]
    /\ current = [j \in Jobs |-> 0]
    /\ index = [j \in Jobs |-> <<>>]
    /\ published = <<>>
    /\ order = <<>> /\ map = [j \in Jobs |-> NoEvent]
    /\ blind = {} /\ faults = 0

\* job j ends turn turns + 1
EndTurn(j) ==
    /\ turns < MaxTurns
    /\ turns' = turns + 1
    /\ said' = [said EXCEPT ![j] = @ \union {turns + 1}]

Move(k, pc) == tasks' = (tasks \ {k}) \union {[k EXCEPT !.pc = pc]}

-----------------------------------------------------------------------------
(* spawn_extraction and publish_native *)

\* mutant: every Stop starts a task
MutStopUnguarded(j, s) ==
    /\ EndTurn(j)
    /\ in_flight' = in_flight \union {<<j, s>>}
    /\ tasks' = tasks \union {Task(turns + 1, j, s)}
    /\ UNCHANGED <<files, published, cache, disk>>

\* a Stop hook; skipped while an extraction with its key is in flight
OnStop(j, s) ==
    /\ EndTurn(j)
    /\ IF <<j, s>> \in in_flight
         THEN UNCHANGED <<in_flight, tasks>>
         ELSE /\ in_flight' = in_flight \union {<<j, s>>}
              /\ tasks' = tasks \union {Task(turns + 1, j, s)}
    /\ UNCHANGED <<files, published, cache, disk>>

\* a native session awaits the publication of one turn before the next
PublishNative(j, ok) ==
    /\ \A k \in tasks : k.job # j
    /\ EndTurn(j)
    /\ tasks' = tasks \union {NativeTask(turns + 1, j, ok)}
    /\ UNCHANGED <<in_flight, files, published, cache, disk>>

-----------------------------------------------------------------------------
(* run_extraction_blocking *)

\* The last text the agent has flushed is found (the Stop's own message, or what
\* the transcript holds by now), it is not there yet, or it cannot be read.
Extract(k) ==
    /\ k \in tasks /\ k.pc = "read"
    /\ \/ \E t \in said[k.job] :
             tasks' = (tasks \ {k}) \union {[k EXCEPT !.text = t, !.pc = "number"]}
       \/ /\ k.tries + 1 < Attempts
          /\ tasks' = (tasks \ {k}) \union {[k EXCEPT !.tries = @ + 1]}
       \/ Move(k, "failed")
    /\ UNCHANGED <<agent, in_flight, files, published, cache, disk>>

\* next_turn_index: one more than the largest on disk
NextTurnIndex(j) ==
    IF \A n \in Numbers : history[j][n] = 0 THEN 0
    ELSE CHOOSE n \in 1 .. MaxTurns :
            /\ history[j][n - 1] # 0
            /\ \A m \in Numbers : history[j][m] # 0 => m < n

\* persist_response: number, numbered copy, current copy, index record
Number(k) ==
    /\ k \in tasks /\ k.pc = "number"
    /\ tasks' = (tasks \ {k}) \union {[k EXCEPT !.pc = "history", !.n = NextTurnIndex(k.job)]}
    /\ UNCHANGED <<agent, in_flight, files, published, cache, disk>>

\* the run directory is there but cannot be listed: the number is 0
NumberBlind(k) ==
    /\ k \in tasks /\ k.pc = "number"
    /\ faults < MaxFaults
    /\ faults' = faults + 1
    /\ blind' = blind \union {k.job}
    /\ tasks' = (tasks \ {k}) \union {[k EXCEPT !.pc = "history", !.n = 0]}
    /\ UNCHANGED <<agent, in_flight, files, published, cache>>

WriteHistory(k) ==
    /\ k \in tasks /\ k.pc = "history"
    /\ history' = [history EXCEPT ![k.job][k.n] = k.text]
    /\ Move(k, "current")
    /\ UNCHANGED <<agent, in_flight, current, index, published, cache, disk>>

WriteCurrent(k) ==
    /\ k \in tasks /\ k.pc = "current"
    /\ current' = [current EXCEPT ![k.job] = k.text]
    /\ Move(k, "index")
    /\ UNCHANGED <<agent, in_flight, history, index, published, cache, disk>>

AppendIndex(k) ==
    /\ k \in tasks /\ k.pc = "index"
    /\ index' = [index EXCEPT ![k.job] = Append(@, k.n)]
    /\ Move(k, "done")
    /\ UNCHANGED <<agent, in_flight, history, current, published, cache, disk>>

\* mutant: the index is written as best it can be
MutPersistFails(k) ==
    /\ k \in tasks /\ k.pc \in {"number", "history", "current", "index"}
    /\ faults < MaxFaults
    /\ faults' = faults + 1
    /\ Move(k, IF k.pc = "index" THEN "done" ELSE "failed")
    /\ UNCHANGED <<agent, in_flight, files, published, cache, blind>>

\* the directory or a file cannot be written: the files written so far stay
PersistFails(k) ==
    /\ k \in tasks /\ k.pc \in {"number", "history", "current", "index"}
    /\ faults < MaxFaults
    /\ faults' = faults + 1
    /\ Move(k, "failed")
    /\ UNCHANGED <<agent, in_flight, files, published, cache, blind>>

-----------------------------------------------------------------------------
(* self_after_extraction: the envelope, then the cache; then the key is released *)

Event(k, ok) ==
    [job |-> k.job, turn |-> k.turn, text |-> IF ok THEN k.text ELSE 0, ok |-> ok]

Send(k) ==
    /\ k \in tasks /\ k.pc \in {"done", "failed"}
    /\ published' = Append(published, Event(k, k.pc = "done"))
    /\ Move(k, IF k.pc = "done" THEN "put_ok" ELSE "put_failed")
    /\ UNCHANGED <<agent, in_flight, files, cache, disk>>

\* mutant: the old place of the job stays in the queue
MutOrderAfter(j) ==
    LET o == Append(order, j) IN IF Len(o) > Cap THEN Tail(o) ELSE o

\* order.retain(|i| *i != j)
Without(s, j) ==
    LET kept[n \in 0 .. Len(s)] ==
            IF n = 0 THEN <<>>
            ELSE IF s[n] = j THEN kept[n - 1] ELSE Append(kept[n - 1], s[n])
    IN  kept[Len(s)]

\* LatestCache::put: a known job moves to the back, the front is evicted
OrderAfter(j) ==
    LET o == Append(IF map[j] = NoEvent THEN order ELSE Without(order, j), j)
    IN  IF Len(o) > Cap THEN Tail(o) ELSE o

Put(k) ==
    LET e == Event(k, k.pc = "put_ok") IN
    /\ k \in tasks /\ k.pc \in {"put_ok", "put_failed"}
    /\ order' = OrderAfter(k.job)
    /\ map' = [j \in Jobs |-> IF j = k.job THEN e
                              ELSE IF j \in Range(OrderAfter(k.job)) THEN map[j]
                              ELSE NoEvent]
    /\ IF k.job \in Native THEN tasks' = tasks \ {k} ELSE Move(k, "release")
    /\ UNCHANGED <<agent, in_flight, files, published, disk>>

\* mutant: the key of a failed extraction is kept
MutRelease(k) ==
    /\ k \in tasks /\ k.pc = "release"
    /\ tasks' = tasks \ {k}
    /\ in_flight' = IF map[k.job].ok THEN in_flight \ {<<k.job, k.session>>} ELSE in_flight
    /\ UNCHANGED <<agent, files, published, cache, disk>>

Release(k) ==
    /\ k \in tasks /\ k.pc = "release"
    /\ tasks' = tasks \ {k}
    /\ in_flight' = in_flight \ {<<k.job, k.session>>}
    /\ UNCHANGED <<agent, files, published, cache, disk>>

Step(k) ==
    \/ Extract(k) \/ Number(k) \/ WriteHistory(k) \/ WriteCurrent(k) \/ AppendIndex(k)
    \/ Send(k) \/ Put(k) \/ Release(k)

Next ==
    \/ \E j \in Jobs \ Native, s \in Sessions : OnStop(j, s)
    \/ \E j \in Native, ok \in BOOLEAN : PublishNative(j, ok)
    \/ \E k \in tasks : Step(k) \/ NumberBlind(k) \/ PersistFails(k)

\* The blocking pool and the runtime run every task to its end.
Fairness == WF_vars(\E k \in tasks : Step(k))

Spec == Init /\ [][Next]_vars
FairSpec == Spec /\ Fairness

-----------------------------------------------------------------------------
(* Properties *)

Events == [job : Jobs \union {None}, turn : Numbers, text : Numbers, ok : BOOLEAN]

TaskType ==
    [turn : Numbers, job : Jobs, session : Sessions \union {"native"},
     pc : {"read", "number", "history", "current", "index", "done", "failed",
           "put_ok", "put_failed", "release"},
     tries : 0 .. Attempts - 1, text : Numbers, n : Numbers]

\* Types of the service's memory, the tasks and the files.
TypeOK ==
    /\ turns \in Numbers /\ faults \in 0 .. MaxFaults
    /\ said \in [Jobs -> SUBSET (1 .. MaxTurns)] /\ blind \subseteq Jobs
    /\ tasks \subseteq TaskType
    /\ in_flight \subseteq (Jobs \ Native) \X Sessions
    /\ history \in [Jobs -> [Numbers -> Numbers]] /\ current \in [Jobs -> Numbers]
    /\ index \in [Jobs -> Seq(Numbers)]
    /\ published \in Seq(Events) /\ order \in Seq(Jobs) /\ map \in [Jobs -> Events]

Idle(j) == \A k \in tasks : k.job # j \/ k.pc = "release"

\* A numbered response is written once: neither a later turn nor a repeated Stop of
\* the same session overwrites it, whatever writes failed before, as long as the run
\* directory could be scanned.
HistoryImmutable ==
    [][\A j \in Jobs, n \in Numbers :
          history[j][n] # 0 /\ history'[j][n] # history[j][n] => j \in blind]_history

\* An event that announces a response is backed by an indexed file with that text.
AnsweredIsFiled ==
    \A i \in DOMAIN published :
        LET e == published[i] IN
        e.ok /\ e.job \notin blind =>
            \E n \in Range(index[e.job]) : history[e.job][n] = e.text

\* While no task of a job is under way, the response the cache names for it is the
\* text final-response.md holds.
CurrentIsLatest ==
    \A j \in Jobs : Idle(j) /\ map[j].ok => map[j].text = current[j]

\* index of the last event of j in the journal
LastOf(j) ==
    CHOOSE i \in 0 .. Len(published) :
        /\ i > 0 => published[i].job = j
        /\ \A m \in i + 1 .. Len(published) : published[m].job # j

\* While no task of a job is under way, the cache holds the last event the journal has
\* of it, unless the cache is full of other jobs.
LatestIsLast ==
    \A j \in Jobs : Idle(j) /\ LastOf(j) > 0 =>
        \/ map[j] = published[LastOf(j)]
        \/ map[j] = NoEvent /\ Cardinality({i \in Jobs : map[i] # NoEvent}) = Cap

\* Every extraction that starts is answered by an event, also when the text never
\* comes or cannot be filed, and gives up its key, so that the next Stop of the
\* session is not taken for a duplicate.
StopAnswered ==
    /\ \A t \in 1 .. MaxTurns :
          (\E k \in tasks : k.turn = t) ~> (\E i \in DOMAIN published : published[i].turn = t)
    /\ \A key \in Jobs \X Sessions : (key \in in_flight) ~> (key \notin in_flight)

\* Cache, journal and final-response.md agree on the last word of an idle job.
LatestSound == TypeOK /\ CurrentIsLatest /\ LatestIsLast

=============================================================================
