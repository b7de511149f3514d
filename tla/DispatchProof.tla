--------------------------- MODULE DispatchProof ---------------------------
(***************************************************************************)
(* What is proved about RFC dispatch: SealedBeforeClaimed, OneOutcome,     *)
(* GateHeld and InputsSound of the dispatcher (Dispatch) for every DAG of  *)
(* tasks, any number of jobs, attempts, re-plan rounds, commands and       *)
(* faults; PendingSound of the daemon's table of proxied calls (McpProxy)  *)
(* for any calls and subscribers.  The two specifications share no         *)
(* variable.                                                               *)
(***************************************************************************)
EXTENDS Dispatch, McpProxy, TLAPS, FiniteSetTheorems

Busy == {"spawned", "absorb", "filed", "gate", "verdict", "advance"}

JobRecords == [task : Tasks, alive : BOOLEAN, ans : {"no"} \union Answers,
               saw : UNION {[D -> 0 .. MaxJobs] : D \in SUBSET Tasks}]

Steps == [pc : Busy \union {"off", "open", "wave", "finalize", "reset"},
          task : Tasks \union {NoTask}, job : Nat,
          arg : {"", "turn", "resume", "done", "failed", "verified", "rejected", "retry"}]

KernelStates == [live : BOOLEAN, done : SUBSET Tasks, failed : SUBSET Tasks, out : SUBSET Tasks]

\* Types, with those TypeOK leaves open.
Typed ==
    /\ TypeOK
    /\ jobs \in Seq(JobRecords) /\ step \in Steps /\ kern \in KernelStates
    /\ queue \in Seq(Tasks)
    /\ oracles \subseteq [task : Tasks, attempt : 0 .. MaxAttempts - 1]
    /\ verdicts \subseteq [task : Tasks, attempt : 0 .. MaxAttempts - 1, ok : BOOLEAN]
    /\ resumed \in BOOLEAN

-----------------------------------------------------------------------------
(* Where the driver holds a task *)

Queued(t) == \E i \in DOMAIN queue : queue[i] = t
Working(t) == step.pc \in Busy /\ step.task = t
Awaited(t) == \E j \in owned : jobs[j].task = t
Judged(t) == (\E o \in oracles : o.task = t) \/ (\E v \in verdicts : v.task = t)

Held(t) == Queued(t) \/ Working(t) \/ Awaited(t) \/ Judged(t)

Fresh(t) == issue[t].st \in {"absent", "pending"}
Finished(t) == issue[t].st \in {"done", "verified"}

\* The queue names a task once.
QueueOnce == \A i, j \in DOMAIN queue : queue[i] = queue[j] => i = j

\* A task has one oracle thread or one verdict.
JudgedOnce ==
    /\ \A o, p \in oracles : o.task = p.task => o = p
    /\ \A v, w \in verdicts : v.task = w.task => v = w
    /\ \A o \in oracles, v \in verdicts : o.task # v.task

\* The driver holds a task in one place, once.
HeldOnce ==
    /\ QueueOnce /\ JudgedOnce
    /\ \A t \in Tasks : Queued(t) => ~Working(t) /\ ~Awaited(t) /\ ~Judged(t)
    /\ \A t \in Tasks : Working(t) => ~Awaited(t) /\ ~Judged(t)

\* Outside of the waves nothing is awaited, and a drained run has all its outputs.
Phases ==
    /\ step.pc \in {"off", "open", "reset", "finalize"} =>
          owned = {} /\ oracles = {} /\ verdicts = {}
    /\ step.pc \in {"off", "finalize"} => queue = <<>>
    /\ step.pc \notin {"open", "reset"} => todo = {}
    /\ step.pc = "reset" => round < MaxReplans
    /\ step.pc = "finalize" => \A t \in Tasks : Finished(t)

\* An issue names the job that was started for it.
IssueJob(t) == ~Fresh(t) => issue[t].job \in Jobs /\ jobs[issue[t].job].task = t

\* What is on its way to the driver about a task is about its issue.
TaskMail(t) ==
    /\ \A j \in owned : jobs[j].task = t => issue[t].st = "spawned" /\ issue[t].job = j
    /\ \A o \in oracles : o.task = t => issue[t].st = "verifying" /\ issue[t].attempt = o.attempt
    /\ \A v \in verdicts : v.task = t => issue[t].st = "verifying" /\ issue[t].attempt = v.attempt

\* Only an answer is delivered.
Answered == \A j \in stream \union latest \union inbox : jobs[j].ans # "no"

\* What the driver knows between two effects of a handler.
StepFacts ==
    LET t == step.task
        i == issue[step.task]
    IN
    /\ step.pc \in Busy => t \in Tasks /\ step.job \in Jobs /\ jobs[step.job].task = t
    /\ step.pc = "spawned" =>
          /\ i.st \in {"absent", "pending", "verifying"}
          /\ i.st = "verifying" => i.attempt + 1 < MaxAttempts
    /\ step.pc \in {"absorb", "filed"} =>
          /\ i.st = "spawned" /\ i.job = step.job /\ step.arg \in {"turn", "resume"}
          /\ jobs[step.job].ans # "no"
    /\ step.pc = "filed" => OutputRecord(t, step.job) \in Written /\ jobs[step.job].ans # "fail"
    /\ step.pc = "gate" => i.st = "done"
    /\ step.pc = "verdict" =>
          /\ i.st = "verifying" /\ i.job = step.job
          /\ step.arg \in {"verified", "rejected", "retry"}
          /\ step.arg = "verified" => VerdictRecord(t, i.job, TRUE) \in Written
          /\ step.arg = "rejected" => VerdictRecord(t, i.job, FALSE) \in Written
          /\ step.arg = "retry" => i.attempt + 1 < MaxAttempts
    /\ step.pc = "advance" =>
          /\ step.arg \in {"done", "failed"} /\ ~Fresh(t)
          /\ step.arg = "done" => Finished(t)

\* The kernel has every task the driver holds in flight, and releases a task when its
\* dependencies are finished; they stay so while the driver holds it.
Released ==
    /\ kern.live =>
          /\ \A t \in Tasks : Held(t) => t \in kern.out
          /\ \A t \in kern.out : t \notin kern.done /\ DependsOn[t] \subseteq kern.done
          /\ \A t \in kern.done : Finished(t) /\ t \notin todo
    /\ \A t \in Tasks : Held(t) => \A d \in DependsOn[t] : Finished(d) /\ ~Held(d) /\ d \notin todo

\* What the kernel has not released is not started.
NotStarted ==
    /\ \A t \in Tasks : Queued(t) => Fresh(t) \/ t \in todo
    /\ kern.live => \A t \in Tasks \ (kern.done \union kern.failed \union kern.out) :
                        Fresh(t) \/ t \in todo

\* What is started used the outputs its dependencies have now.
UsedPresent(t) ==
    ~Fresh(t) /\ t \notin todo => \A d \in DependsOn[t] :
        /\ Finished(d) /\ ~Held(d) /\ d \notin todo
        /\ jobs[issue[t].job].saw[d] = issue[d].job

\* A job that was just started did too, and an oracle's task does not pass it by.
FirstStep ==
    /\ step.pc = "spawned" =>
          \A d \in DependsOn[step.task] : jobs[step.job].saw[d] = issue[d].job
    /\ step.pc \in {"absorb", "filed"} => step.arg = "turn"
    /\ step.pc = "advance" /\ step.arg = "done" /\ step.task \in Oracle =>
          issue[step.task].st = "verified"

\* All this unless a run was resumed.
FirstRun ==
    ~resumed /\ step.pc # "off" =>
        NotStarted /\ (\A t \in Tasks : UsedPresent(t)) /\ FirstStep

\* SealedBeforeClaimed for one task
Claimed(t) ==
    LET i == issue[t] IN
    /\ i.st \in {"done", "verifying", "verified", "rejected"} => OutputRecord(t, i.job) \in Written
    /\ i.st = "verified" => VerdictRecord(t, i.job, TRUE) \in Written
    /\ i.st = "rejected" => VerdictRecord(t, i.job, FALSE) \in Written

DispatchInv ==
    /\ Typed /\ HeldOnce /\ Phases /\ Answered /\ StepFacts /\ Released /\ FirstRun
    /\ \A t \in Tasks : IssueJob(t) /\ TaskMail(t) /\ Claimed(t)

-----------------------------------------------------------------------------
(* Waves *)

\* An order of a wave names its tasks, each once.
LEMMA OrderOfWave ==
    ASSUME NEW wave \in SUBSET Tasks, NEW order \in SetToSeqs(wave)
    PROVE  /\ order \in Seq(Tasks)
           /\ \A i \in DOMAIN order : order[i] \in wave
           /\ \A i, j \in DOMAIN order : order[i] = order[j] => i = j
<1>1. IsFiniteSet(wave) /\ Cardinality(wave) \in Nat
  <2>1. IsFiniteSet(Tasks)
    BY DispatchConstants
  <2>2. IsFiniteSet(wave)
    BY <2>1, FS_Subset
  <2>. QED BY <2>2, FS_CardinalityType
<1>2. /\ order \in [1 .. Cardinality(wave) -> wave]
      /\ \A i, j \in 1 .. Cardinality(wave) : i # j => order[i] # order[j]
  BY DEF SetToSeqs
<1>. QED BY <1>1, <1>2

\* The kernel releases tasks it has not released, whose dependencies are done.
LEMMA WaveIsReady ==
    ASSUME NEW done, NEW failed, NEW out, NEW wave \in Waves(done, failed, out)
    PROVE  /\ wave \in SUBSET Tasks
           /\ \A t \in wave : /\ t \notin done /\ t \notin failed /\ t \notin out
                              /\ DependsOn[t] \subseteq done
  BY DEF Waves, Ready

-----------------------------------------------------------------------------
(* The chain keeps what was written, wherever an append stopped. *)

Contents(c) == c.lines \union c.spoilt

LEMMA SealKeeps ==
    ASSUME NEW c, NEW r, Parses(c)
    PROVE  /\ Contents(c) \subseteq Contents(Sealed(c, r)) /\ r \in Contents(Sealed(c, r))
           /\ \A d \in Cut(c, r) : Contents(c) \subseteq Contents(d)
  BY DEF Parses, Contents, Sealed, Cut

LEMMA LoggedKeeps ==
    ASSUME NEW c, NEW r, NEW d \in Logged(c, r) PROVE Contents(c) \subseteq Contents(d)
<1>1. CASE Parses(c)
  <2>1. d = Sealed(c, r) \/ d = c \/ d \in Cut(c, r)
    BY <1>1 DEF Logged, SealedIf
  <2>. QED BY <1>1, <2>1, SealKeeps
<1>2. CASE ~Parses(c)
  BY <1>2 DEF Logged, SealedIf
<1>. QED BY <1>1, <1>2

\* At most one line lacks its newline, and the one that does not parse has at most
\* two records.
ChainShape(c) == (\E q : c.loose \subseteq {q}) /\ Cardinality(c.spoilt) <= 2

LEMMA SealShape ==
    ASSUME NEW c, NEW r, Parses(c), ChainShape(c)
    PROVE  ChainShape(Sealed(c, r)) /\ \A d \in Cut(c, r) : ChainShape(d)
<1>1. Cardinality({}) = 0 /\ Cardinality({r}) = 1
  BY FS_EmptySet, FS_Singleton
<1>2. PICK q : c.loose \subseteq {q}
  BY DEF ChainShape
<1>3. Cardinality(c.loose \union {r}) <= 2
  <2>1. PICK S : S = c.loose
    OBVIOUS
  <2>2. IsFiniteSet({q}) /\ Cardinality({q}) = 1 /\ S \subseteq {q}
    BY <1>2, <2>1, FS_Singleton
  <2>3. IsFiniteSet(S) /\ Cardinality(S) <= 1
    BY <2>2, FS_Subset
  <2>4. Cardinality(S) \in Nat
    BY <2>3, FS_CardinalityType
  <2>5. Cardinality(S \union {r}) = IF r \in S THEN Cardinality(S) ELSE Cardinality(S) + 1
    BY <2>3, FS_AddElement
  <2>6. Cardinality(S \union {r}) <= 2
    BY <2>3, <2>4, <2>5
  <2>. QED BY <2>1, <2>6
<1>4. ChainShape(Sealed(c, r))
  <2>1. CASE c.loose = {}
    BY <1>1, <2>1 DEF ChainShape, Sealed
  <2>2. CASE c.loose # {}
    BY <1>3, <2>2 DEF ChainShape, Sealed
  <2>. QED BY <2>1, <2>2
<1>5. ASSUME NEW d \in Cut(c, r) PROVE ChainShape(d)
  <2>1. \/ d = Sealed(c, r)
        \/ d = [lines |-> c.lines \union {r}, loose |-> {r}, spoilt |-> {}]
        \/ d = [lines |-> c.lines, loose |-> {}, spoilt |-> {r}]
    BY <1>5 DEF Cut
  <2>. QED BY <1>1, <1>4, <2>1 DEF ChainShape
<1>. QED BY <1>4, <1>5

LEMMA LoggedShape ==
    ASSUME NEW c, NEW r, ChainShape(c), NEW d \in Logged(c, r) PROVE ChainShape(d)
<1>1. CASE Parses(c)
  <2>1. d = Sealed(c, r) \/ d = c \/ d \in Cut(c, r)
    BY <1>1 DEF Logged, SealedIf
  <2>. QED BY <1>1, <2>1, SealShape
<1>2. CASE ~Parses(c)
  BY <1>2 DEF Logged, SealedIf
<1>. QED BY <1>1, <1>2

\* Every step leaves the chain alone, or appends to one whose last line parses.
LEMMA ShapeStep == ChainShape(chain) /\ [Next]_vars => ChainShape(chain)'
<1>. SUFFICES ASSUME ChainShape(chain), [Next]_vars PROVE ChainShape(chain')
  BY DEF ChainShape
<1>1. CASE chain' = chain
  BY <1>1
<1>2. CASE SealOutput
  BY <1>2, SealShape DEF SealOutput
<1>3. ASSUME NEW v \in verdicts, OnVerdict(v) PROVE ChainShape(chain')
  BY <1>3, SealShape DEF OnVerdict
<1>4. ASSUME NEW q \in Sealing, SealFails(q) PROVE ChainShape(chain')
  BY <1>4, SealShape DEF SealFails
<1>5. CASE Converge
  BY <1>5, LoggedShape DEF Converge
<1>6. ASSUME SealReplan PROVE ChainShape(chain')
  BY <1>6, LoggedShape DEF SealReplan
<1>7. ASSUME NEW s \in Signatures,
             GiveUp(s) \/ ReplanAll(s) \/ \E r \in Reopened : ReplanTargeted(s, r)
      PROVE  ChainShape(chain')
  BY <1>6, <1>7, LoggedShape DEF GiveUp, ReplanAll, ReplanTargeted
<1>8. CASE StartRun \/ ResumeRun \/ OpenFails \/ ReplanFails \/ StepFails \/ OnAbort \/ SealRefused
  BY <1>1, <1>8
     DEF StartRun, ResumeRun, OpenFails, ReplanFails, StepFails, OnAbort, SealRefused, disk
<1>9. CASE \/ \E t \in Tasks : OpenIssue(t) \/ ResetIssue(t)
           \/ Launch \/ WriteSpawned \/ \E j \in inbox : OnResponse(j)
           \/ WriteDone \/ WriteFailed \/ Gate \/ WriteVerdict \/ RetryTask \/ NextRound
  BY <1>1, <1>9
     DEF OpenIssue, ResetIssue, Launch, WriteSpawned, OnResponse, WriteDone, WriteFailed, Gate,
         WriteVerdict, RetryTask, NextRound, disk
<1>10. CASE Advance
  <2>1. chain' = chain
    BY <1>10 DEF Advance, disk
  <2>. QED BY <1>1, <2>1
<1>11. CASE ProcessOne
  <2>1. chain' = chain
    BY <1>11 DEF ProcessOne, MissingDep, SpawnOne, Reconcile, ResumeOracle, FastForward, disk
  <2>. QED BY <1>1, <2>1
<1>12. CASE \/ \E o \in oracles, ok \in BOOLEAN : OracleEnds(o, ok)
            \/ \E j \in Jobs : JobExits(j) \/ \E ans \in Answers : JobAnswers(j, ans)
            \/ \E j \in stream : Ingest(j)
            \/ KernelLost \/ Crash \/ Boot \/ UNCHANGED vars
  BY <1>1, <1>12
     DEF OracleEnds, JobExits, JobAnswers, Ingest, KernelLost, Crash, Boot, vars, disk
<1>. QED
  BY <1>2, <1>3, <1>4, <1>5, <1>7, <1>8, <1>9, <1>10, <1>11, <1>12 DEF Next, Driver

-----------------------------------------------------------------------------
(* The driver ends: what stays is what is on disk, and perhaps the kernel's run. *)

LEMMA DriverEnds ==
    ASSUME DispatchInv, EndDriver,
           UNCHANGED <<issue, jobs, stream, resumed>>, latest' \subseteq latest,
           Written \subseteq Written', run' \in {"none", "open", "closed"},
           kern' \in {kern, NoRun}
    PROVE  DispatchInv'
<1>0. /\ Typed /\ HeldOnce /\ Phases /\ Answered /\ StepFacts /\ Released /\ FirstRun
      /\ \A t \in Tasks : IssueJob(t) /\ TaskMail(t) /\ Claimed(t)
  BY DEF DispatchInv
<1>1. /\ step' = Off /\ queue' = <<>> /\ owned' = {} /\ todo' = {} /\ round' = 0
      /\ inbox' = {} /\ verdicts' = {} /\ oracles' = {}
  BY DEF EndDriver
<1>2. Off \in Steps /\ Off.pc = "off" /\ Off.task = NoTask /\ Off.job = 0
  BY DEF Off, At, Steps
<1>3. NoRun \in KernelStates /\ NoRun.live = FALSE
  BY DEF NoRun, KernelStates
<1>4. Typed'
  <2>1. kern' \in KernelStates
    BY <1>0, <1>3 DEF Typed
  <2>2. TypeOK'
    <3>1. kern'.live \in BOOLEAN /\ kern'.done \subseteq Tasks /\ kern'.failed \subseteq Tasks
          /\ kern'.out \subseteq Tasks
      BY <2>1 DEF KernelStates
    <3>2. Jobs' = Jobs
      BY DEF Jobs
    <3>3. step'.task \in Tasks \union {NoTask} /\ step'.job \in 0 .. Len(jobs')
      BY <1>0, <1>1, <1>2 DEF Typed
    <3>4. round' \in 0 .. MaxReplans
      BY <1>1, DispatchConstants
    <3>. QED BY <1>0, <1>1, <3>1, <3>2, <3>3, <3>4 DEF Typed, TypeOK
  <2>. QED BY <1>0, <1>1, <1>2, <2>1, <2>2 DEF Typed
<1>5. \A t \in Tasks : ~Queued(t)' /\ ~Working(t)' /\ ~Awaited(t)' /\ ~Judged(t)'
  <2>1. \A t : ~Queued(t)'
    BY <1>1 DEF Queued
  <2>2. \A t : ~Working(t)'
    BY <1>1, <1>2 DEF Working, Busy
  <2>. QED BY <1>1, <2>1, <2>2 DEF Awaited, Judged
<1>6. HeldOnce'
  <2>1. QueueOnce'
    BY <1>1 DEF QueueOnce
  <2>2. JudgedOnce'
    BY <1>1 DEF JudgedOnce
  <2>. QED BY <1>5, <2>1, <2>2 DEF HeldOnce
<1>7. Phases'
  BY <1>1, <1>2 DEF Phases
<1>8. Answered'
  BY <1>0, <1>1 DEF Answered
<1>9. StepFacts'
  BY <1>1, <1>2 DEF StepFacts, Busy
<1>10. Released'
  <2>1. \A t \in Tasks : ~Held(t)'
    BY <1>5 DEF Held
  <2>2. kern'.live => kern' = kern
    BY <1>3
  <2>3. \A t : Finished(t)' <=> Finished(t)
    BY DEF Finished
  <2>. QED BY <1>0, <1>1, <2>1, <2>2, <2>3 DEF Released
<1>11. FirstRun'
  BY <1>1, <1>2 DEF FirstRun
<1>12. \A t \in Tasks : IssueJob(t)' /\ TaskMail(t)' /\ Claimed(t)'
  <2>1. \A t \in Tasks : IssueJob(t)' /\ Claimed(t)'
    BY <1>0 DEF IssueJob, Fresh, Jobs, Claimed
  <2>2. \A t \in Tasks : TaskMail(t)'
    BY <1>1 DEF TaskMail
  <2>. QED BY <2>1, <2>2
<1>. QED BY <1>4, <1>6, <1>7, <1>8, <1>9, <1>10, <1>11, <1>12 DEF DispatchInv

-----------------------------------------------------------------------------
(* A step of the driver that concerns one task it holds. *)

AtTask == Busy \union {"wave"}

\* everything that concerns other tasks is left alone
Concerns(t) ==
    /\ UNCHANGED <<kern, todo, resumed, stream, latest, round>>
    /\ inbox' \subseteq inbox /\ Written \subseteq Written'
    /\ \A x \in Tasks : x # t => issue'[x] = issue[x]
    /\ Len(jobs) <= Len(jobs') /\ \A j \in Jobs : jobs'[j] = jobs[j]
    /\ \/ queue' = queue /\ ~Queued(t)
       \/ queue # <<>> /\ Head(queue) = t /\ queue' = Tail(queue)
    /\ \A j \in owned' : jobs'[j].task # t => j \in owned
    /\ \A o \in oracles' : o.task # t => o \in oracles
    /\ \A v \in verdicts' : v.task # t => v \in verdicts
    /\ step.pc \in AtTask /\ (step.pc \in Busy => step.task = t)
    /\ step'.pc \in AtTask /\ (step'.pc \in Busy => step'.task = t)

\* t is in one place outside of the queue
PlacedOnce(t) ==
    /\ Working(t) => ~Awaited(t) /\ ~Judged(t)
    /\ \A o, p \in oracles : o.task = t /\ p.task = t => o = p
    /\ \A v, w \in verdicts : v.task = t /\ w.task = t => v = w
    /\ \A o \in oracles, v \in verdicts : o.task # t \/ v.task # t

\* taking the head leaves the rest of the queue
LEMMA QueueTail ==
    ASSUME queue \in Seq(Tasks), QueueOnce, queue # <<>>, queue' = Tail(queue)
    PROVE  /\ Head(queue) \in Tasks /\ Queued(Head(queue))
           /\ queue' \in Seq(Tasks) /\ QueueOnce'
           /\ \A x : Queued(x)' => Queued(x) /\ x # Head(queue)
<1>1. /\ Len(queue) \in Nat /\ Len(queue) >= 1 /\ DOMAIN queue = 1 .. Len(queue)
      /\ Head(queue) = queue[1] /\ 1 \in DOMAIN queue
  OBVIOUS
<1>2. /\ queue' \in Seq(Tasks) /\ DOMAIN queue' = 1 .. (Len(queue) - 1)
      /\ \A i \in DOMAIN queue' : queue'[i] = queue[i + 1] /\ i + 1 \in DOMAIN queue /\ i + 1 # 1
  BY <1>1
<1>3. Head(queue) \in Tasks /\ Queued(Head(queue))
  BY <1>1 DEF Queued
<1>4. QueueOnce'
  <2>. SUFFICES ASSUME NEW i \in DOMAIN queue', NEW j \in DOMAIN queue', queue'[i] = queue'[j]
                PROVE  i = j
    BY DEF QueueOnce
  <2>1. i + 1 = j + 1
    BY <1>2 DEF QueueOnce
  <2>. QED BY <1>2, <2>1
<1>5. \A x : Queued(x)' => Queued(x) /\ x # Head(queue)
  <2>. SUFFICES ASSUME NEW i \in DOMAIN queue' PROVE Queued(queue'[i]) /\ queue'[i] # queue[1]
    BY <1>1 DEF Queued
  <2>. QED BY <1>1, <1>2 DEF Queued, QueueOnce
<1>. QED BY <1>2, <1>3, <1>4, <1>5

LEMMA TaskStep ==
    ASSUME DispatchInv, NEW t \in Tasks, Held(t), Concerns(t),
           Typed', PlacedOnce(t)', StepFacts',
           IssueJob(t)', TaskMail(t)', Claimed(t)',
           ~resumed => FirstStep',
           ~resumed => \/ Fresh(t)'
                       \/ ~Fresh(t) /\ issue'[t].job = issue[t].job
                       \/ \A d \in DependsOn[t] : jobs'[issue'[t].job].saw[d] = issue[d].job
    PROVE  DispatchInv'
<1>0. /\ Typed /\ HeldOnce /\ Phases /\ Answered /\ StepFacts /\ Released /\ FirstRun
      /\ \A x \in Tasks : IssueJob(x) /\ TaskMail(x) /\ Claimed(x)
  BY DEF DispatchInv
<1>1. /\ UNCHANGED <<kern, todo, resumed, stream, latest, round>>
      /\ inbox' \subseteq inbox /\ Written \subseteq Written'
      /\ \A x \in Tasks : x # t => issue'[x] = issue[x]
      /\ Len(jobs) <= Len(jobs') /\ \A j \in Jobs : jobs'[j] = jobs[j]
      /\ step.pc \in AtTask /\ (step.pc \in Busy => step.task = t)
      /\ step'.pc \in AtTask /\ (step'.pc \in Busy => step'.task = t)
  BY DEF Concerns
<1>2. /\ owned \subseteq Jobs /\ stream \union latest \union inbox \subseteq Jobs
      /\ \A j \in Jobs : j \in Jobs' /\ jobs[j] \in JobRecords
  <2>1. jobs \in Seq(JobRecords) /\ jobs' \in Seq(JobRecords)
    BY <1>0 DEF Typed
  <2>2. \A j \in Jobs : j \in Jobs'
    BY <1>1, <2>1 DEF Jobs
  <2>. QED BY <1>0, <2>1, <2>2 DEF Typed, TypeOK, Jobs
<1>3. /\ QueueOnce' /\ ~Queued(t)'
      /\ \A x : Queued(x)' => Queued(x)
  <2>1. CASE queue' = queue /\ ~Queued(t)
    BY <1>0, <2>1 DEF HeldOnce, QueueOnce, Queued
  <2>2. CASE queue # <<>> /\ Head(queue) = t /\ queue' = Tail(queue)
    BY <1>0, <2>2, QueueTail DEF HeldOnce, Typed
  <2>. QED BY <2>1, <2>2 DEF Concerns
<1>4. \A x \in Tasks : x # t =>
          /\ Awaited(x)' => Awaited(x)
          /\ Judged(x)' => Judged(x)
          /\ ~Working(x)'
  <2>1. \A x \in Tasks : x # t /\ Awaited(x)' => Awaited(x)
    <3>. SUFFICES ASSUME NEW j \in owned', jobs'[j].task # t PROVE j \in owned /\ jobs'[j] = jobs[j]
      BY DEF Awaited
    <3>. QED BY <1>1, <1>2 DEF Concerns
  <2>2. \A x \in Tasks : x # t /\ Judged(x)' => Judged(x)
    BY DEF Concerns, Judged
  <2>. QED BY <1>1, <2>1, <2>2 DEF Working
<1>5. \A x \in Tasks : Held(x)' => Held(x)
  BY <1>3, <1>4 DEF Held
<1>6. HeldOnce'
  <2>1. JudgedOnce'
    <3>1. \A o, p \in oracles' : o.task = p.task => o = p
      BY <1>0 DEF Concerns, PlacedOnce, HeldOnce, JudgedOnce
    <3>2. \A v, w \in verdicts' : v.task = w.task => v = w
      BY <1>0 DEF Concerns, PlacedOnce, HeldOnce, JudgedOnce
    <3>3. \A o \in oracles', v \in verdicts' : o.task # v.task
      BY <1>0 DEF Concerns, PlacedOnce, HeldOnce, JudgedOnce
    <3>. QED BY <3>1, <3>2, <3>3 DEF JudgedOnce
  <2>2. \A x \in Tasks : Queued(x)' => ~Working(x)' /\ ~Awaited(x)' /\ ~Judged(x)'
    BY <1>0, <1>3, <1>4 DEF HeldOnce
  <2>3. \A x \in Tasks : Working(x)' => ~Awaited(x)' /\ ~Judged(x)'
    BY <1>4 DEF PlacedOnce
  <2>. QED BY <1>3, <2>1, <2>2, <2>3 DEF HeldOnce
<1>7. Phases'
  BY <1>0, <1>1 DEF Phases, AtTask, Busy
<1>8. Answered'
  BY <1>0, <1>1, <1>2 DEF Answered
<1>9. /\ \A d \in Tasks : d # t => (Finished(d)' <=> Finished(d)) /\ (Fresh(d)' <=> Fresh(d))
      /\ \A x \in Tasks : DependsOn[x] \subseteq Tasks
  BY <1>1, DispatchConstants DEF Finished, Fresh
<1>10. \A d \in DependsOn[t] : d # t
  BY <1>0 DEF Released
<1>11. Released'
  <2>1. ASSUME kern'.live
        PROVE  /\ \A x \in Tasks : Held(x)' => x \in kern'.out
               /\ \A x \in kern'.out : x \notin kern'.done /\ DependsOn[x] \subseteq kern'.done
               /\ \A x \in kern'.done : Finished(x)' /\ x \notin todo'
    <3>1. kern' = kern /\ todo' = todo /\ kern.done \subseteq Tasks
      BY <1>0, <1>1 DEF Typed, TypeOK
    <3>2. t \in kern.out
      BY <1>0, <2>1, <3>1 DEF Released
    <3>. QED BY <1>0, <1>5, <1>9, <2>1, <3>1, <3>2 DEF Released
  <2>2. \A x \in Tasks : Held(x)' => \A d \in DependsOn[x] : Finished(d)' /\ ~Held(d)'
                             /\ d \notin todo'
    <3>. SUFFICES ASSUME NEW x \in Tasks, Held(x), NEW d \in DependsOn[x]
                  PROVE  Finished(d)' /\ ~Held(d)' /\ d \notin todo'
      BY <1>5
    <3>1. Finished(d) /\ ~Held(d) /\ d \notin todo /\ d \in Tasks /\ d # t
      BY <1>0, <1>9 DEF Released
    <3>. QED BY <1>1, <1>5, <1>9, <3>1
  <2>. QED BY <2>1, <2>2 DEF Released
<1>12. FirstRun'
  <2>. SUFFICES ASSUME ~resumed
                PROVE  NotStarted' /\ (\A x \in Tasks : UsedPresent(x)') /\ FirstStep'
    BY <1>1 DEF FirstRun
  <2>1. NotStarted /\ (\A x \in Tasks : UsedPresent(x))
    BY <1>0, <1>1 DEF FirstRun, AtTask, Busy
  <2>2. NotStarted'
    <3>1. \A x \in Tasks : Queued(x)' => Fresh(x)' \/ x \in todo'
      BY <1>1, <1>3, <1>9, <2>1 DEF NotStarted
    <3>2. kern.live => t \in kern.out
      BY <1>0 DEF Released
    <3>3. kern'.live => \A x \in Tasks \ (kern'.done \union kern'.failed \union kern'.out) :
                            Fresh(x)' \/ x \in todo'
      BY <1>1, <1>9, <2>1, <3>2 DEF NotStarted
    <3>. QED BY <3>1, <3>3 DEF NotStarted
  <2>3. ASSUME NEW x \in Tasks PROVE UsedPresent(x)'
    <3>. SUFFICES ASSUME ~Fresh(x)', x \notin todo', NEW d \in DependsOn[x]
                  PROVE  /\ Finished(d)' /\ ~Held(d)' /\ d \notin todo'
                         /\ jobs'[issue'[x].job].saw[d] = issue'[d].job
      BY DEF UsedPresent
    <3>0. d \in Tasks
      BY <1>9
    <3>1. CASE x # t
      <4>1. ~Fresh(x) /\ issue'[x] = issue[x] /\ x \notin todo
        BY <1>1, <1>9, <3>1
      <4>2. Finished(d) /\ ~Held(d) /\ d \notin todo /\ jobs[issue[x].job].saw[d] = issue[d].job
        BY <2>1, <4>1 DEF UsedPresent
      <4>3. d # t /\ issue'[d] = issue[d]
        BY <1>1, <3>0, <4>2
      <4>4. jobs'[issue[x].job] = jobs[issue[x].job]
        BY <1>0, <1>1, <4>1 DEF IssueJob
      <4>. QED BY <1>1, <1>5, <1>9, <3>0, <4>1, <4>2, <4>3, <4>4
    <3>2. CASE x = t
      <4>1. Finished(d) /\ ~Held(d) /\ d \notin todo /\ d # t
        BY <1>0, <1>10, <3>2 DEF Released
      <4>2. issue'[d] = issue[d] /\ Finished(d)' /\ ~Held(d)' /\ d \notin todo'
        BY <1>1, <1>5, <1>9, <3>0, <4>1
      <4>3. CASE ~Fresh(t) /\ issue'[t].job = issue[t].job
        <5>1. jobs'[issue[t].job] = jobs[issue[t].job]
          BY <1>0, <1>1, <4>3 DEF IssueJob
        <5>2. jobs[issue[t].job].saw[d] = issue[d].job
          BY <1>1, <2>1, <3>2, <4>3 DEF UsedPresent
        <5>. QED BY <3>2, <4>2, <4>3, <5>1, <5>2
      <4>4. CASE \A e \in DependsOn[t] : jobs'[issue'[t].job].saw[e] = issue[e].job
        BY <3>2, <4>2, <4>4
      <4>. QED BY <3>2, <4>3, <4>4
    <3>. QED BY <3>1, <3>2
  <2>. QED BY <2>2, <2>3
<1>13. \A x \in Tasks : IssueJob(x)' /\ TaskMail(x)' /\ Claimed(x)'
  <2>. SUFFICES ASSUME NEW x \in Tasks, x # t PROVE IssueJob(x)' /\ TaskMail(x)' /\ Claimed(x)'
    OBVIOUS
  <2>1. issue'[x] = issue[x]
    BY <1>1
  <2>2. IssueJob(x)'
    BY <1>0, <1>1, <1>2, <2>1 DEF IssueJob, Fresh
  <2>3. Claimed(x)'
    BY <1>0, <1>1, <2>1 DEF Claimed
  <2>4. \A j \in owned' : jobs'[j].task = x => issue'[x].st = "spawned" /\ issue'[x].job = j
    <3>. SUFFICES ASSUME NEW j \in owned', jobs'[j].task = x
                  PROVE  issue[x].st = "spawned" /\ issue[x].job = j
      BY <2>1
    <3>1. j \in owned /\ jobs'[j] = jobs[j]
      BY <1>1, <1>2 DEF Concerns
    <3>. QED BY <1>0, <3>1 DEF TaskMail
  <2>5. TaskMail(x)'
    BY <1>0, <2>1, <2>4 DEF TaskMail, Concerns
  <2>. QED BY <2>2, <2>3, <2>5
<1>. QED BY <1>0, <1>6, <1>7, <1>8, <1>11, <1>12, <1>13 DEF DispatchInv

-----------------------------------------------------------------------------
(* process_wave *)

\* Types, after a step that starts no job.
LEMMA TypedStep ==
    ASSUME Typed, UNCHANGED <<run, kern, jobs, stream, latest, todo, round, resumed>>,
           inbox' \subseteq inbox, owned' \subseteq Jobs,
           issue' \in [Tasks -> IssueRecords], queue' \in Seq(Tasks),
           step' \in Steps, step'.job \in 0 .. Len(jobs),
           oracles' \subseteq [task : Tasks, attempt : 0 .. MaxAttempts - 1],
           verdicts' \subseteq [task : Tasks, attempt : 0 .. MaxAttempts - 1, ok : BOOLEAN]
    PROVE  Typed'
<1>1. step'.task \in Tasks \union {NoTask}
  BY DEF Steps
<1>2. Jobs' = Jobs
  BY DEF Jobs
<1>3. TypeOK'
  BY <1>1, <1>2 DEF Typed, TypeOK
<1>. QED BY <1>3 DEF Typed

\* The step of a task the driver works on, and holds nowhere else.
LEMMA WorkStep ==
    ASSUME DispatchInv, NEW t \in Tasks, Held(t), Concerns(t),
           Typed', ~Awaited(t)', ~Judged(t)', StepFacts', IssueJob(t)', Claimed(t)',
           ~resumed => FirstStep',
           ~resumed => \/ Fresh(t)'
                       \/ ~Fresh(t) /\ issue'[t].job = issue[t].job
    PROVE  DispatchInv'
<1>1. PlacedOnce(t)' /\ TaskMail(t)'
  BY DEF PlacedOnce, TaskMail, Awaited, Judged
<1>. QED BY <1>1, TaskStep

\* A job is started.
LEMMA Spawned ==
    ASSUME Typed, NEW t \in Tasks, NEW saw \in UNION {[D -> 0 .. MaxJobs] : D \in SUBSET Tasks},
           Spawn(t, saw), UNCHANGED <<run, issue, kern, stream, latest, inbox, owned, todo, round,
                                      oracles, verdicts, resumed>>,
           queue' \in Seq(Tasks)
    PROVE  /\ Typed' /\ Len(jobs) <= Len(jobs') /\ \A j \in Jobs : jobs'[j] = jobs[j]
           /\ step'.pc = "spawned" /\ step'.task = t /\ step'.job \in Jobs'
           /\ jobs'[step'.job].task = t /\ jobs'[step'.job].saw = saw
           /\ \A j \in Jobs : j \in Jobs'
<1>1. PICK job : job = [task |-> t, alive |-> TRUE, ans |-> "no", saw |-> saw]
  OBVIOUS
<1>2. PICK n : n = Len(jobs)
  OBVIOUS
<1>3. /\ jobs \in Seq(JobRecords) /\ n \in Nat /\ n < MaxJobs
      /\ jobs' = Append(jobs, job)
  <2>1. jobs \in Seq(JobRecords)
    BY DEF Typed
  <2>2. n \in Nat
    BY <1>2, <2>1
  <2>. QED BY <1>1, <1>2, <2>1, <2>2 DEF Spawn
<1>a. job \in JobRecords /\ job.task = t /\ job.saw = saw
  BY <1>1 DEF JobRecords
<1>b. /\ step' \in Steps /\ step'.pc = "spawned" /\ step'.task = t /\ step'.job = n + 1
  <2>1. n + 1 \in Nat
    BY <1>3
  <2>2. step' = [pc |-> "spawned", task |-> t, job |-> n + 1, arg |-> ""]
    BY <1>2 DEF Spawn, At
  <2>. QED BY <2>1, <2>2 DEF Steps, Busy
<1>4. /\ jobs' \in Seq(JobRecords) /\ Len(jobs') = n + 1 /\ jobs'[n + 1] = job
      /\ \A j \in 1 .. n : jobs'[j] = jobs[j]
  BY <1>2, <1>3, <1>a
<1>5. Len(jobs') <= MaxJobs /\ step'.job \in Jobs' /\ \A j \in Jobs : j \in Jobs'
  BY <1>2, <1>3, <1>b, <1>4, DispatchConstants DEF Jobs
<1>6. TypeOK'
  <2>1. step'.task \in Tasks \union {NoTask} /\ step'.job \in 0 .. Len(jobs')
    BY <1>3, <1>b, <1>4
  <2>2. (stream \union latest \union inbox \union owned)' \subseteq Jobs'
    BY <1>5 DEF Typed, TypeOK
  <2>. QED BY <1>5, <2>1, <2>2 DEF Typed, TypeOK
<1>7. Typed'
  BY <1>b, <1>4, <1>6 DEF Typed
<1>. QED BY <1>2, <1>3, <1>a, <1>b, <1>4, <1>5, <1>7 DEF Jobs

\* spawn_one starts a job for the head of the queue.
LEMMA StepSpawnOne ==
    ASSUME DispatchInv, step.pc = "wave", queue # <<>>, SpawnOne(Head(queue)),
           queue' = Tail(queue), UNCHANGED <<shell, todo, round, sig>>
    PROVE  DispatchInv'
<1>0. /\ Typed /\ HeldOnce /\ Released /\ StepFacts
      /\ \A x \in Tasks : IssueJob(x) /\ TaskMail(x) /\ Claimed(x)
  BY DEF DispatchInv
<1>1. PICK t : t = Head(queue)
  OBVIOUS
<1>2. t \in Tasks /\ Queued(t) /\ queue' \in Seq(Tasks)
  BY <1>0, <1>1, QueueTail DEF Typed, HeldOnce
<1>3. /\ Fresh(t) /\ Spawn(t, [d \in DependsOn[t] |-> issue[d].job])
      /\ UNCHANGED <<run, issue, Written, kern, stream, up, latest, inbox, verdicts, oracles, owned,
                     todo, round, sig, starts, faults, resumed>>
  BY <1>1 DEF Written, SpawnOne, Fresh, disk, mail, counts, shell
<1>4. PICK saw : saw = [d \in DependsOn[t] |-> issue[d].job]
  OBVIOUS
<1>5. saw \in UNION {[D -> 0 .. MaxJobs] : D \in SUBSET Tasks}
  <2>1. DependsOn[t] \in SUBSET Tasks
    BY <1>2, DispatchConstants
  <2>2. \A d \in Tasks : issue[d].job \in 0 .. MaxJobs
    BY <1>0 DEF Typed, TypeOK, IssueRecords
  <2>3. saw \in [DependsOn[t] -> 0 .. MaxJobs]
    BY <1>4, <2>1, <2>2
  <2>. QED BY <2>1, <2>3
<1>6. /\ Typed' /\ Len(jobs) <= Len(jobs') /\ \A j \in Jobs : jobs'[j] = jobs[j]
      /\ step'.pc = "spawned" /\ step'.task = t /\ step'.job \in Jobs'
      /\ jobs'[step'.job].task = t /\ jobs'[step'.job].saw = saw
      /\ \A j \in Jobs : j \in Jobs'
  BY <1>0, <1>2, <1>3, <1>4, <1>5, Spawned
<1>7. ~Awaited(t) /\ ~Judged(t) /\ ~Working(t)
  BY <1>0, <1>2 DEF HeldOnce
<1>8. owned \subseteq Jobs
  BY <1>0 DEF Typed, TypeOK
<1>9. ~Awaited(t)' /\ ~Judged(t)'
  BY <1>3, <1>6, <1>7, <1>8 DEF Awaited, Judged
<1>10. Concerns(t)
  BY <1>1, <1>2, <1>3, <1>6, <1>8 DEF Concerns, AtTask, Busy
<1>11. StepFacts'
  BY <1>2, <1>3, <1>6 DEF StepFacts, Fresh, Busy
<1>12. IssueJob(t)' /\ Claimed(t)'
  BY <1>0, <1>2, <1>3 DEF IssueJob, Fresh, Claimed
<1>13. FirstStep'
  BY <1>3, <1>4, <1>6 DEF FirstStep
<1>14. Fresh(t)'
  BY <1>3 DEF Fresh
<1>. QED BY <1>2, <1>6, <1>9, <1>10, <1>11, <1>12, <1>13, <1>14, WorkStep DEF Held

\* the wait
LEMMA WaveStep == InWave \in Steps /\ InWave.pc = "wave" /\ InWave.job = 0 /\ InWave.task = NoTask
  BY DEF InWave, At, Steps

\* What a working driver knows of its task.
LEMMA AtWork ==
    ASSUME DispatchInv, step.pc \in Busy
    PROVE  /\ step.task \in Tasks /\ Held(step.task) /\ Working(step.task) /\ ~Queued(step.task)
           /\ ~Awaited(step.task) /\ ~Judged(step.task)
           /\ step.job \in Jobs /\ jobs[step.job].task = step.task
           /\ step.job \in 0 .. Len(jobs) /\ jobs[step.job] \in JobRecords
           /\ issue[step.task] \in IssueRecords /\ step \in Steps
<1>1. step.task \in Tasks /\ step.job \in Jobs /\ jobs[step.job].task = step.task
  BY DEF DispatchInv, StepFacts
<1>2. Working(step.task)
  BY DEF Working
<1>3. Typed /\ TypeOK /\ HeldOnce
  BY DEF DispatchInv, Typed
<1>4. ~Queued(step.task) /\ ~Awaited(step.task) /\ ~Judged(step.task)
  BY <1>1, <1>2, <1>3 DEF HeldOnce
<1>5. step.job \in 0 .. Len(jobs) /\ step \in Steps /\ issue[step.task] \in IssueRecords
  BY <1>1, <1>3 DEF Typed, TypeOK
<1>6. jobs[step.job] \in JobRecords
  BY <1>1, <1>3 DEF Typed, Jobs
<1>. QED BY <1>1, <1>2, <1>4, <1>5, <1>6 DEF Held

\* the record of an issue is replaced
LEMMA IssueSet ==
    ASSUME Typed, NEW t \in Tasks, NEW r \in IssueRecords, issue' = [issue EXCEPT ![t] = r]
    PROVE  /\ issue' \in [Tasks -> IssueRecords] /\ issue'[t] = r
           /\ \A x \in Tasks : x # t => issue'[x] = issue[x]
  BY DEF Typed, TypeOK

\* The job is entered in the issue and in job_to_task.
LEMMA StepWriteSpawned == DispatchInv /\ WriteSpawned => DispatchInv'
<1>. SUFFICES ASSUME DispatchInv, WriteSpawned PROVE DispatchInv'
  OBVIOUS
<1>0. Typed /\ StepFacts /\ FirstRun /\ HeldOnce
  BY DEF DispatchInv
<1>1. PICK t, j : t = step.task /\ j = step.job
  OBVIOUS
<1>2. PICK r : r = [st |-> "spawned", job |-> j, resp |-> "none",
                    attempt |-> IF issue[t].st = "verifying" THEN issue[t].attempt + 1 ELSE 0]
  OBVIOUS
<1>3. /\ step.pc = "spawned" /\ issue' = [issue EXCEPT ![t] = r] /\ owned' = owned \union {j}
      /\ step' = InWave
      /\ UNCHANGED <<run, Written, kern, jobs, stream, up, latest, inbox, verdicts, oracles, queue,
                     todo, round, sig, starts, faults, resumed>>
  BY <1>1, <1>2 DEF Written, WriteSpawned, daemon, shell, mail, counts
<1>4. /\ t \in Tasks /\ Held(t) /\ ~Queued(t) /\ ~Awaited(t) /\ ~Judged(t)
      /\ j \in Jobs /\ jobs[j].task = t /\ issue[t] \in IssueRecords
  BY <1>1, <1>3, AtWork DEF Busy
<1>5. r \in IssueRecords /\ r.st = "spawned" /\ r.job = j
  <2>1. j \in 0 .. MaxJobs
    BY <1>0, <1>4, DispatchConstants DEF Typed, TypeOK, Jobs
  <2>2. issue[t].st = "verifying" => issue[t].attempt + 1 < MaxAttempts
    BY <1>0, <1>1, <1>3 DEF StepFacts
  <2>3. (IF issue[t].st = "verifying" THEN issue[t].attempt + 1 ELSE 0) \in 0 .. MaxAttempts - 1
    BY <1>4, <2>2, DispatchConstants DEF IssueRecords
  <2>. QED BY <1>2, <2>1, <2>3 DEF IssueRecords, Statuses
<1>6. /\ issue' \in [Tasks -> IssueRecords] /\ issue'[t] = r
      /\ \A x \in Tasks : x # t => issue'[x] = issue[x]
  BY <1>0, <1>3, <1>4, <1>5, IssueSet
<1>7. Typed'
  <2>1. owned' \subseteq Jobs
    BY <1>0, <1>3, <1>4 DEF Typed, TypeOK
  <2>2. step'.job \in 0 .. Len(jobs) /\ step' \in Steps
    BY <1>0, <1>3, WaveStep DEF Typed
  <2>. QED BY <1>0, <1>3, <1>6, <2>1, <2>2, TypedStep DEF Typed
<1>8. Concerns(t)
  BY <1>1, <1>3, <1>4, <1>6, WaveStep DEF Concerns, AtTask, Busy
<1>9. ~Working(t)' /\ ~Judged(t)'
  BY <1>3, <1>4, WaveStep DEF Working, Judged, Busy
<1>10. PlacedOnce(t)' /\ TaskMail(t)'
  BY <1>3, <1>4, <1>5, <1>6, <1>9 DEF PlacedOnce, TaskMail, Judged, Awaited
<1>11. StepFacts'
  BY <1>3, WaveStep DEF StepFacts, Busy
<1>12. IssueJob(t)' /\ Claimed(t)'
  BY <1>3, <1>4, <1>5, <1>6 DEF IssueJob, Claimed, Jobs
<1>13. ~resumed => FirstStep'
  BY <1>3, WaveStep DEF FirstStep
<1>14. ~resumed => \A d \in DependsOn[t] : jobs'[issue'[t].job].saw[d] = issue[d].job
  BY <1>0, <1>1, <1>3, <1>5, <1>6 DEF FirstRun, FirstStep
<1>. QED BY <1>4, <1>7, <1>8, <1>10, <1>11, <1>12, <1>13, <1>14, TaskStep

\* The head of the queue, before process_one.
LEMMA AtHead ==
    ASSUME DispatchInv, step.pc = "wave", queue # <<>>, queue' = Tail(queue)
    PROVE  /\ Head(queue) \in Tasks /\ Queued(Head(queue)) /\ Held(Head(queue))
           /\ ~Awaited(Head(queue)) /\ ~Judged(Head(queue)) /\ queue' \in Seq(Tasks)
           /\ issue[Head(queue)] \in IssueRecords
           /\ ~resumed => Fresh(Head(queue))
<1>1. Typed /\ HeldOnce /\ TypeOK /\ Phases /\ FirstRun
  BY DEF DispatchInv, Typed
<1>2. Head(queue) \in Tasks /\ Queued(Head(queue)) /\ queue' \in Seq(Tasks)
  BY <1>1, QueueTail DEF Typed, HeldOnce
<1>3. ~resumed => Fresh(Head(queue))
  BY <1>1, <1>2 DEF Phases, FirstRun, NotStarted
<1>. QED BY <1>1, <1>2, <1>3 DEF HeldOnce, TypeOK, Held

\* reconcile_spawned: a known response is absorbed, a live job awaited, a lost one failed.
LEMMA StepReconcile ==
    ASSUME DispatchInv, step.pc = "wave", queue # <<>>, Reconcile(Head(queue)),
           queue' = Tail(queue), UNCHANGED <<shell, todo, round, sig>>
    PROVE  DispatchInv'
<1>0. /\ Typed /\ StepFacts /\ HeldOnce /\ Answered
      /\ \A x \in Tasks : IssueJob(x) /\ TaskMail(x) /\ Claimed(x)
  BY DEF DispatchInv
<1>1. PICK t : t = Head(queue)
  OBVIOUS
<1>2. PICK j : j = issue[t].job
  OBVIOUS
<1>3. /\ t \in Tasks /\ Held(t) /\ ~Awaited(t) /\ ~Judged(t) /\ queue' \in Seq(Tasks)
      /\ issue[t] \in IssueRecords /\ (~resumed => Fresh(t))
  BY <1>1, AtHead
<1>4. /\ issue[t].st = "spawned"
      /\ UNCHANGED <<run, Written, kern, jobs, stream, up, latest, inbox, verdicts, oracles, todo,
                     round, sig, starts, faults, resumed>>
  BY <1>1 DEF Written, Reconcile, daemon, shell, mail, counts
<1>5. resumed /\ ~Fresh(t) /\ j \in Jobs /\ jobs[j].task = t
  BY <1>0, <1>2, <1>3, <1>4 DEF IssueJob, Fresh, Typed
<1>6. j \in 0 .. Len(jobs) /\ j \in Nat
  BY <1>0, <1>5 DEF Jobs, Typed
<1>7. CASE j \in latest
  <2>1. step' = At("absorb", t, j, "resume") /\ UNCHANGED <<issue, owned>>
    BY <1>1, <1>2, <1>7 DEF Written, Reconcile
  <2>2. /\ step' \in Steps /\ step'.pc = "absorb" /\ step'.task = t /\ step'.job = j
        /\ step'.arg = "resume"
    BY <1>3, <1>6, <2>1 DEF At, Steps, Busy
  <2>3. Typed'
    <3>1. issue \in [Tasks -> IssueRecords] /\ owned \subseteq Jobs
      BY <1>0 DEF Typed, TypeOK
    <3>. QED BY <1>0, <1>3, <1>4, <1>6, <2>1, <2>2, <3>1, TypedStep DEF Typed
  <2>4. ~Awaited(t)' /\ ~Judged(t)'
    BY <1>3, <1>4, <2>1 DEF Awaited, Judged
  <2>5. Concerns(t)
    BY <1>1, <1>3, <1>4, <2>1, <2>2 DEF Concerns, AtTask, Busy
  <2>6. jobs[j].ans # "no"
    BY <1>0, <1>7 DEF Answered
  <2>7. StepFacts'
    BY <1>2, <1>3, <1>4, <1>5, <2>1, <2>2, <2>6 DEF StepFacts, Busy, Jobs
  <2>8. IssueJob(t)' /\ Claimed(t)'
    BY <1>0, <1>3, <1>4, <2>1 DEF IssueJob, Fresh, Claimed, Jobs
  <2>. QED BY <1>3, <1>5, <2>3, <2>4, <2>5, <2>7, <2>8, WorkStep
<1>a. \/ j \in latest
      \/ owned' = owned \union {j} /\ UNCHANGED <<issue, step>>
      \/ /\ issue' = [issue EXCEPT ![t].st = "failed", ![t].resp = "text"]
         /\ step' = At("advance", t, j, "failed") /\ UNCHANGED owned
  BY <1>1, <1>2 DEF Reconcile
<1>8. CASE owned' = owned \union {j} /\ UNCHANGED <<issue, step>>
  <2>1. owned' = owned \union {j} /\ UNCHANGED <<issue, step>>
    BY <1>8
  <2>2. Typed'
    <3>1. issue \in [Tasks -> IssueRecords] /\ owned' \subseteq Jobs /\ step.job \in 0 .. Len(jobs)
      BY <1>0, <1>5, <2>1 DEF Typed, TypeOK
    <3>. QED BY <1>0, <1>3, <1>4, <2>1, <3>1, TypedStep DEF Typed
  <2>3. ~Working(t)' /\ ~Judged(t)'
    BY <1>3, <1>4, <2>1 DEF Working, Judged, Busy
  <2>4. PlacedOnce(t)' /\ TaskMail(t)'
    BY <1>2, <1>3, <1>4, <1>5, <2>1, <2>3 DEF PlacedOnce, TaskMail, Judged, Awaited
  <2>5. Concerns(t)
    BY <1>1, <1>3, <1>4, <1>5, <2>1 DEF Concerns, AtTask, Busy
  <2>6. StepFacts'
    BY <2>1 DEF StepFacts, Busy
  <2>7. IssueJob(t)' /\ Claimed(t)'
    BY <1>0, <1>3, <1>4, <2>1 DEF IssueJob, Fresh, Claimed, Jobs
  <2>. QED BY <1>3, <1>5, <2>2, <2>4, <2>5, <2>6, <2>7, TaskStep
<1>9. CASE /\ issue' = [issue EXCEPT ![t].st = "failed", ![t].resp = "text"]
           /\ step' = At("advance", t, j, "failed") /\ UNCHANGED owned
  <2>1. /\ issue' = [issue EXCEPT ![t].st = "failed", ![t].resp = "text"]
        /\ step' = At("advance", t, j, "failed") /\ UNCHANGED owned
    BY <1>9
  <2>2. /\ step' \in Steps /\ step'.pc = "advance" /\ step'.task = t /\ step'.job = j
        /\ step'.arg = "failed"
    BY <1>3, <1>6, <2>1 DEF At, Steps, Busy
  <2>3. /\ issue' \in [Tasks -> IssueRecords] /\ issue'[t].st = "failed" /\ issue'[t].job = j
        /\ \A x \in Tasks : x # t => issue'[x] = issue[x]
    BY <1>0, <1>2, <1>3, <2>1 DEF Typed, TypeOK, IssueRecords, Statuses
  <2>4. Typed'
    <3>1. owned \subseteq Jobs
      BY <1>0 DEF Typed, TypeOK
    <3>. QED BY <1>0, <1>3, <1>4, <1>6, <2>1, <2>2, <2>3, <3>1, TypedStep DEF Typed
  <2>5. ~Awaited(t)' /\ ~Judged(t)'
    BY <1>3, <1>4, <2>1 DEF Awaited, Judged
  <2>6. Concerns(t)
    BY <1>1, <1>3, <1>4, <2>1, <2>2, <2>3 DEF Concerns, AtTask, Busy
  <2>7. StepFacts'
    BY <1>3, <1>4, <1>5, <2>2, <2>3 DEF StepFacts, Busy, Jobs, Fresh
  <2>8. IssueJob(t)' /\ Claimed(t)'
    BY <1>4, <1>5, <2>3 DEF IssueJob, Claimed, Jobs
  <2>. QED BY <1>3, <1>5, <2>4, <2>5, <2>6, <2>7, <2>8, WorkStep
<1>. QED BY <1>7, <1>8, <1>9, <1>a

\* An outcome found on disk is reported again.
LEMMA StepFastForward ==
    ASSUME DispatchInv, step.pc = "wave", queue # <<>>, FastForward(Head(queue)),
           queue' = Tail(queue), UNCHANGED <<shell, todo, round, sig>>
    PROVE  DispatchInv'
<1>0. /\ Typed /\ HeldOnce
      /\ \A x \in Tasks : IssueJob(x) /\ TaskMail(x) /\ Claimed(x)
  BY DEF DispatchInv
<1>1. PICK t : t = Head(queue)
  OBVIOUS
<1>2. PICK j : j = issue[t].job
  OBVIOUS
<1>3. /\ t \in Tasks /\ Held(t) /\ ~Awaited(t) /\ ~Judged(t) /\ queue' \in Seq(Tasks)
      /\ issue[t] \in IssueRecords /\ (~resumed => Fresh(t))
  BY <1>1, AtHead
<1>4. /\ UNCHANGED <<run, issue, Written, kern, jobs, stream, up, latest, inbox, verdicts, oracles,
                     owned, todo, round, sig, starts, faults, resumed>>
      /\ \/ issue[t].st \in {"done", "verified"} /\ step' = At("advance", t, j, "done")
         \/ issue[t].st \in {"failed", "rejected"} /\ step' = At("advance", t, j, "failed")
  BY <1>1, <1>2 DEF Written, FastForward, disk, daemon, shell, mail, counts
<1>5. resumed /\ ~Fresh(t) /\ j \in Jobs /\ jobs[j].task = t
  BY <1>0, <1>2, <1>3, <1>4 DEF IssueJob, Fresh, Typed
<1>6. j \in 0 .. Len(jobs) /\ j \in Nat
  BY <1>0, <1>5 DEF Jobs, Typed
<1>7. /\ step' \in Steps /\ step'.pc = "advance" /\ step'.task = t /\ step'.job = j
      /\ step'.arg \in {"done", "failed"} /\ (step'.arg = "done" => Finished(t))
  <2>1. CASE issue[t].st \in {"done", "verified"} /\ step' = At("advance", t, j, "done")
    BY <1>3, <1>6, <2>1 DEF At, Steps, Busy, Finished
  <2>2. CASE issue[t].st \in {"failed", "rejected"} /\ step' = At("advance", t, j, "failed")
    BY <1>3, <1>6, <2>2 DEF At, Steps, Busy
  <2>. QED BY <1>4, <2>1, <2>2
<1>8. Typed'
  <2>1. issue \in [Tasks -> IssueRecords] /\ owned \subseteq Jobs
    BY <1>0 DEF Typed, TypeOK
  <2>. QED BY <1>0, <1>3, <1>4, <1>6, <1>7, <2>1, TypedStep DEF Typed
<1>9. ~Awaited(t)' /\ ~Judged(t)'
  BY <1>3, <1>4 DEF Awaited, Judged
<1>10. Concerns(t)
  BY <1>1, <1>3, <1>4, <1>7 DEF Concerns, AtTask, Busy
<1>11. StepFacts'
  BY <1>3, <1>4, <1>5, <1>7 DEF StepFacts, Busy, Jobs, Fresh, Finished
<1>12. IssueJob(t)' /\ Claimed(t)'
  BY <1>0, <1>3, <1>4 DEF IssueJob, Fresh, Claimed, Jobs
<1>. QED BY <1>3, <1>5, <1>8, <1>9, <1>10, <1>11, <1>12, WorkStep

\* An oracle thread is started for a task that is held and whose output is sealed.
LEMMA OracleStarts ==
    ASSUME DispatchInv, NEW t \in Tasks, Held(t), ~Awaited(t), ~Judged(t), LaunchOracle(t),
           step.pc \in AtTask, step.pc \in Busy => step.task = t,
           issue[t].st \in {"done", "verifying"},
           UNCHANGED <<run, Written, kern, jobs, stream, latest, inbox, verdicts, owned, todo, round,
                       resumed>>,
           queue' \in Seq(Tasks),
           \/ queue' = queue /\ ~Queued(t)
           \/ queue # <<>> /\ Head(queue) = t /\ queue' = Tail(queue)
    PROVE  DispatchInv'
<1>0. /\ Typed /\ HeldOnce /\ issue[t] \in IssueRecords
      /\ \A x \in Tasks : IssueJob(x) /\ TaskMail(x) /\ Claimed(x)
  BY DEF DispatchInv, Typed, TypeOK
<1>1. PICK o : o = [task |-> t, attempt |-> issue[t].attempt]
  OBVIOUS
<1>2. /\ issue' = [issue EXCEPT ![t].st = "verifying"] /\ oracles' = oracles \union {o}
      /\ step' = InWave
  BY <1>1 DEF LaunchOracle
<1>3. /\ issue' \in [Tasks -> IssueRecords] /\ issue'[t].st = "verifying"
      /\ issue'[t].job = issue[t].job /\ issue'[t].attempt = issue[t].attempt
      /\ \A x \in Tasks : x # t => issue'[x] = issue[x]
  BY <1>0, <1>2 DEF Typed, TypeOK, IssueRecords, Statuses
<1>4. o \in [task : Tasks, attempt : 0 .. MaxAttempts - 1] /\ o.task = t
          /\ o.attempt = issue[t].attempt
  BY <1>0, <1>1 DEF IssueRecords
<1>5. Typed'
  <2>1. owned' \subseteq Jobs /\ step'.job \in 0 .. Len(jobs) /\ step' \in Steps
    BY <1>0, <1>2, WaveStep DEF Typed, TypeOK
  <2>2. oracles' \subseteq [task : Tasks, attempt : 0 .. MaxAttempts - 1]
    BY <1>0, <1>2, <1>4 DEF Typed
  <2>. QED BY <1>0, <1>3, <2>1, <2>2, TypedStep DEF Typed
<1>6. ~Working(t)' /\ ~Awaited(t)'
  BY <1>2, WaveStep DEF Working, Awaited, Busy
<1>7. PlacedOnce(t)' /\ TaskMail(t)'
  BY <1>2, <1>3, <1>4, <1>6 DEF PlacedOnce, TaskMail, Judged, Awaited
<1>8. Concerns(t)
  BY <1>2, <1>3, <1>4, WaveStep DEF Concerns, AtTask, Busy
<1>9. StepFacts'
  BY <1>2, WaveStep DEF StepFacts, Busy
<1>10. IssueJob(t)' /\ Claimed(t)'
  BY <1>0, <1>3 DEF IssueJob, Fresh, Claimed, Jobs
<1>11. FirstStep'
  BY <1>2, WaveStep DEF FirstStep
<1>12. ~Fresh(t)
  BY DEF Fresh
<1>. QED BY <1>3, <1>5, <1>7, <1>8, <1>9, <1>10, <1>11, <1>12, TaskStep

\* An interrupted verification is run again.
LEMMA StepResumeOracle ==
    ASSUME DispatchInv, step.pc = "wave", queue # <<>>, ResumeOracle(Head(queue)),
           queue' = Tail(queue), UNCHANGED <<shell, todo, round, sig>>
    PROVE  DispatchInv'
<1>1. PICK t : t = Head(queue)
  OBVIOUS
<1>2. /\ t \in Tasks /\ Held(t) /\ ~Awaited(t) /\ ~Judged(t) /\ queue' \in Seq(Tasks)
  BY <1>1, AtHead
<1>3. /\ issue[t].st = "verifying" /\ LaunchOracle(t)
      /\ UNCHANGED <<run, Written, kern, jobs, stream, latest, inbox, verdicts, owned, todo, round,
                     resumed>>
  BY <1>1 DEF Written, ResumeOracle, daemon, shell, counts
<1>. QED BY <1>1, <1>2, <1>3, OracleStarts DEF AtTask, Busy

-----------------------------------------------------------------------------
(* A final response *)

LEMMA StepGate == DispatchInv /\ Gate => DispatchInv'
<1>. SUFFICES ASSUME DispatchInv, Gate PROVE DispatchInv'
  OBVIOUS
<1>1. PICK t : t = step.task
  OBVIOUS
<1>2. /\ step.pc = "gate" /\ LaunchOracle(t)
      /\ UNCHANGED <<run, Written, kern, jobs, stream, latest, inbox, verdicts, owned, todo, round,
                     resumed, queue>>
  BY <1>1 DEF Written, Gate, daemon, shell, counts
<1>3. t \in Tasks /\ Held(t) /\ ~Awaited(t) /\ ~Judged(t) /\ ~Queued(t)
  BY <1>1, <1>2, AtWork DEF Busy
<1>4. issue[t].st = "done" /\ queue' \in Seq(Tasks)
  BY <1>1, <1>2 DEF DispatchInv, StepFacts, Typed
<1>. QED BY <1>1, <1>2, <1>3, <1>4, OracleStarts DEF AtTask, Busy

\* on_response of a job the driver waits for
LEMMA StepResponse ==
    ASSUME DispatchInv, NEW j \in inbox, OnResponse(j), j \in owned
    PROVE  DispatchInv'
<1>0. /\ Typed /\ TypeOK /\ HeldOnce /\ Answered
      /\ \A x \in Tasks : IssueJob(x) /\ TaskMail(x) /\ Claimed(x)
  BY DEF DispatchInv, Typed
<1>1. PICK t : t = jobs[j].task
  OBVIOUS
<1>2. /\ step.pc = "wave" /\ queue = <<>> /\ inbox' = inbox \ {j} /\ owned' = owned \ {j}
      /\ step' = At("absorb", t, j, "turn")
      /\ UNCHANGED <<run, issue, Written, kern, jobs, stream, up, latest, verdicts, oracles, queue,
                     todo, round, sig, starts, faults, resumed>>
  BY <1>1 DEF Written, OnResponse, Idle, disk, daemon, shell, counts
<1>3. j \in Jobs /\ jobs[j] \in JobRecords /\ j \in 0 .. Len(jobs) /\ j \in Nat
  BY <1>0 DEF Typed, TypeOK, Jobs
<1>4. t \in Tasks /\ Awaited(t) /\ Held(t)
  BY <1>1, <1>3 DEF JobRecords, Awaited, Held
<1>5. issue[t].st = "spawned" /\ issue[t].job = j /\ jobs[j].ans # "no"
  BY <1>0, <1>1, <1>4 DEF TaskMail, Answered
<1>6. ~Awaited(t)' /\ ~Judged(t)'
  <2>1. \A k \in owned : jobs[k].task = t => k = j
    BY <1>0, <1>4, <1>5 DEF TaskMail
  <2>2. ~Judged(t)
    BY <1>0, <1>4, <1>5 DEF TaskMail, Judged
  <2>. QED BY <1>2, <2>1, <2>2 DEF Awaited, Judged
<1>7. /\ step' \in Steps /\ step'.pc = "absorb" /\ step'.task = t /\ step'.job = j
      /\ step'.arg = "turn"
  BY <1>2, <1>3, <1>4 DEF At, Steps, Busy
<1>8. Typed'
  <2>1. issue \in [Tasks -> IssueRecords] /\ owned' \subseteq Jobs
    BY <1>0, <1>2 DEF TypeOK
  <2>. QED BY <1>0, <1>2, <1>3, <1>7, <2>1, TypedStep DEF Typed
<1>9. Concerns(t)
  BY <1>2, <1>7 DEF Concerns, AtTask, Busy, Queued
<1>10. StepFacts'
  BY <1>1, <1>2, <1>3, <1>4, <1>5, <1>7 DEF StepFacts, Busy, Jobs
<1>11. IssueJob(t)' /\ Claimed(t)'
  BY <1>0, <1>2, <1>4 DEF IssueJob, Fresh, Claimed, Jobs
<1>12. FirstStep'
  BY <1>7 DEF FirstStep
<1>13. ~Fresh(t)
  BY <1>5 DEF Fresh
<1>. QED BY <1>2, <1>4, <1>6, <1>8, <1>9, <1>10, <1>11, <1>12, <1>13, WorkStep

\* A step of the handler that works on t and goes on working on it.
LEMMA HandlerStep ==
    ASSUME DispatchInv, step.pc \in Busy, step' \in Steps,
           step'.pc \in Busy, step'.task = step.task, step'.job = step.job,
           UNCHANGED <<run, kern, jobs, stream, latest, inbox, verdicts, oracles, queue, owned,
                       todo, round, resumed>>,
           Written \subseteq Written', issue' \in [Tasks -> IssueRecords],
           \A x \in Tasks : x # step.task => issue'[x] = issue[x],
           StepFacts', IssueJob(step.task)', Claimed(step.task)', ~resumed => FirstStep',
           ~Fresh(step.task), issue'[step.task].job = issue[step.task].job
    PROVE  DispatchInv'
<1>1. PICK t : t = step.task
  OBVIOUS
<1>2. t \in Tasks /\ Held(t) /\ ~Awaited(t) /\ ~Judged(t) /\ ~Queued(t)
          /\ step.job \in 0 .. Len(jobs)
  BY <1>1, AtWork
<1>3. Typed'
  BY <1>2, TypedStep DEF DispatchInv, Typed, TypeOK
<1>4. ~Awaited(t)' /\ ~Judged(t)'
  BY <1>2 DEF Awaited, Judged
<1>5. Concerns(t)
  BY <1>1, <1>2 DEF Concerns, AtTask
<1>6. IssueJob(t)' /\ Claimed(t)'
  <2>1. step'.task = t
    BY <1>1
  <2>. QED BY <1>1, <2>1 DEF IssueJob, Fresh, Claimed
<1>. QED BY <1>1, <1>2, <1>3, <1>4, <1>5, <1>6, WorkStep

\* The output is sealed before the issue claims it.
LEMMA StepSealOutput == DispatchInv /\ SealOutput => DispatchInv'
<1>. SUFFICES ASSUME DispatchInv, SealOutput PROVE DispatchInv'
  OBVIOUS
<1>0. /\ Typed /\ TypeOK /\ StepFacts /\ FirstRun
      /\ \A x \in Tasks : IssueJob(x) /\ Claimed(x)
  BY DEF DispatchInv, Typed
<1>1. /\ step.pc = "absorb" /\ jobs[step.job].ans # "fail"
      /\ Written \subseteq Written' /\ OutputRecord(step.task, step.job) \in Written'
      /\ step' = [step EXCEPT !.pc = "filed"]
      /\ UNCHANGED <<run, issue, kern, jobs, stream, latest, inbox, verdicts, oracles, queue, owned,
                     todo, round, resumed>>
  BY SealKeeps DEF SealOutput, daemon, shell, mail, counts, Written, Contents
<1>2. /\ step.task \in Tasks /\ step \in Steps /\ step.job \in Jobs
             /\ jobs[step.job].task = step.task
  BY <1>1, AtWork DEF Busy
<1>3. /\ step' \in Steps /\ step'.pc = "filed" /\ step'.task = step.task /\ step'.job = step.job
      /\ step'.arg = step.arg
  BY <1>1, <1>2 DEF Steps, Busy
<1>4. /\ issue[step.task].st = "spawned" /\ issue[step.task].job = step.job
      /\ step.arg \in {"turn", "resume"} /\ jobs[step.job].ans # "no"
  BY <1>0, <1>1 DEF StepFacts
<1>5. StepFacts'
  BY <1>1, <1>2, <1>3, <1>4 DEF StepFacts, Busy, Jobs, OutputRecord
<1>6. IssueJob(step.task)' /\ Claimed(step.task)'
  <2>1. IssueJob(step.task)'
    BY <1>0, <1>1, <1>2, <1>3 DEF IssueJob, Fresh, Jobs
  <2>2. issue'[step'.task].st = "spawned"
    BY <1>1, <1>3, <1>4
  <2>. QED BY <2>1, <2>2 DEF Claimed
<1>7. ~resumed => FirstStep'
  BY <1>0, <1>1, <1>3 DEF FirstRun, FirstStep
<1>8. ~Fresh(step.task)
  BY <1>4 DEF Fresh
<1>. QED BY <1>0, <1>1, <1>3, <1>5, <1>6, <1>7, <1>8, HandlerStep DEF TypeOK, Busy

\* The issue claims the output.
LEMMA StepWriteDone == DispatchInv /\ WriteDone => DispatchInv'
<1>. SUFFICES ASSUME DispatchInv, WriteDone PROVE DispatchInv'
  OBVIOUS
<1>0. /\ Typed /\ TypeOK /\ StepFacts /\ FirstRun
      /\ \A x \in Tasks : IssueJob(x) /\ Claimed(x)
  BY DEF DispatchInv, Typed
<1>1. PICK ans, pc : ans = jobs[step.job].ans /\ pc = AfterDone
  OBVIOUS
<1>2. /\ step.pc = "filed"
      /\ issue' = [issue EXCEPT ![step.task].st = "done", ![step.task].resp = ans]
      /\ step' = [step EXCEPT !.pc = pc, !.arg = "done"]
      /\ UNCHANGED <<run, Written, kern, jobs, stream, latest, inbox, verdicts, oracles, queue, owned,
                     todo, round, resumed>>
  BY <1>1 DEF Written, WriteDone, daemon, shell, mail, counts
<1>3. /\ step.task \in Tasks /\ step \in Steps /\ step.job \in Jobs
             /\ jobs[step.job].task = step.task
      /\ issue[step.task] \in IssueRecords /\ jobs[step.job] \in JobRecords
  BY <1>2, AtWork DEF Busy
<1>4. /\ issue[step.task].st = "spawned" /\ issue[step.task].job = step.job
      /\ step.arg \in {"turn", "resume"} /\ ans \in {"text", "empty"}
      /\ OutputRecord(step.task, step.job) \in Written
  BY <1>0, <1>1, <1>2, <1>3 DEF StepFacts, JobRecords, Answers
<1>5. /\ pc \in {"gate", "advance"}
      /\ step.arg = "turn" /\ step.task \in Oracle => pc = "gate"
  BY <1>1 DEF AfterDone
<1>6. /\ step' \in Steps /\ step'.pc = pc /\ step'.task = step.task /\ step'.job = step.job
      /\ step'.arg = "done"
  BY <1>2, <1>3, <1>5 DEF Steps, Busy
<1>7. /\ issue' \in [Tasks -> IssueRecords] /\ issue'[step.task].st = "done"
      /\ issue'[step.task].job = step.job
      /\ \A x \in Tasks : x # step.task => issue'[x] = issue[x]
  BY <1>0, <1>2, <1>3, <1>4 DEF TypeOK, IssueRecords, Statuses
<1>8. StepFacts'
  BY <1>2, <1>3, <1>5, <1>6, <1>7 DEF StepFacts, Busy, Jobs, Fresh, Finished
<1>9. IssueJob(step.task)' /\ Claimed(step.task)'
  <2>1. IssueJob(step.task)'
    BY <1>2, <1>3, <1>6, <1>7 DEF IssueJob, Jobs
  <2>2. issue'[step'.task].st = "done"
        /\ OutputRecord(step'.task, issue'[step'.task].job) \in Written'
    BY <1>2, <1>4, <1>6, <1>7
  <2>. QED BY <2>1, <2>2 DEF Claimed
<1>10. ~resumed => FirstStep'
  <2>1. ~resumed => step.arg = "turn"
    BY <1>0, <1>2 DEF FirstRun, FirstStep
  <2>. QED BY <1>5, <1>6, <2>1 DEF FirstStep
<1>11. ~Fresh(step.task)
  BY <1>4 DEF Fresh
<1>. QED BY <1>2, <1>4, <1>5, <1>6, <1>7, <1>8, <1>9, <1>10, <1>11, HandlerStep DEF Busy

\* No response: the issue fails.
LEMMA StepWriteFailed == DispatchInv /\ WriteFailed => DispatchInv'
<1>. SUFFICES ASSUME DispatchInv, WriteFailed PROVE DispatchInv'
  OBVIOUS
<1>0. Typed /\ TypeOK /\ StepFacts
  BY DEF DispatchInv, Typed
<1>1. /\ step.pc = "absorb"
      /\ issue' = [issue EXCEPT ![step.task].st = "failed", ![step.task].resp = "text"]
      /\ step' = [step EXCEPT !.pc = "advance", !.arg = "failed"]
      /\ UNCHANGED <<run, Written, kern, jobs, stream, latest, inbox, verdicts, oracles, queue, owned,
                     todo, round, resumed>>
  BY DEF Written, WriteFailed, daemon, shell, mail, counts
<1>2. /\ step.task \in Tasks /\ step \in Steps /\ step.job \in Jobs
             /\ jobs[step.job].task = step.task
      /\ issue[step.task] \in IssueRecords
  BY <1>1, AtWork DEF Busy
<1>3. issue[step.task].st = "spawned" /\ issue[step.task].job = step.job
  BY <1>0, <1>1 DEF StepFacts
<1>4. /\ step' \in Steps /\ step'.pc = "advance" /\ step'.task = step.task /\ step'.job = step.job
      /\ step'.arg = "failed"
  BY <1>1, <1>2 DEF Steps, Busy
<1>5. /\ issue' \in [Tasks -> IssueRecords] /\ issue'[step.task].st = "failed"
      /\ issue'[step.task].job = step.job
      /\ \A x \in Tasks : x # step.task => issue'[x] = issue[x]
  BY <1>0, <1>1, <1>2, <1>3 DEF TypeOK, IssueRecords, Statuses
<1>6. StepFacts'
  BY <1>1, <1>2, <1>4, <1>5 DEF StepFacts, Busy, Jobs, Fresh
<1>7. IssueJob(step.task)' /\ Claimed(step.task)'
  BY <1>1, <1>2, <1>4, <1>5 DEF IssueJob, Claimed, Jobs
<1>8. FirstStep'
  BY <1>4 DEF FirstStep
<1>9. ~Fresh(step.task)
  BY <1>3 DEF Fresh
<1>. QED BY <1>1, <1>3, <1>4, <1>5, <1>6, <1>7, <1>8, <1>9, HandlerStep DEF Busy

-----------------------------------------------------------------------------
(* A verdict *)

\* The verdict is the one of the attempt the issue is at.
LEMMA StepVerdict ==
    ASSUME DispatchInv, NEW v \in verdicts, OnVerdict(v)
    PROVE  DispatchInv'
<1>0. /\ Typed /\ TypeOK /\ HeldOnce
      /\ \A x \in Tasks : IssueJob(x) /\ TaskMail(x) /\ Claimed(x)
  BY DEF DispatchInv, Typed
<1>1. PICK t, j : t = v.task /\ j = issue[v.task].job
  OBVIOUS
<1>2. PICK arg : arg = IF v.ok THEN "verified"
                       ELSE IF v.attempt + 1 < MaxAttempts THEN "retry" ELSE "rejected"
  OBVIOUS
<1>3. /\ t \in Tasks /\ v.attempt \in 0 .. MaxAttempts - 1 /\ v.ok \in BOOLEAN
  BY <1>0, <1>1 DEF Typed
<1>4. issue[t].st = "verifying" /\ issue[t].attempt = v.attempt
  BY <1>0, <1>1, <1>3 DEF TaskMail
<1>5. /\ step.pc = "wave" /\ queue = <<>> /\ verdicts' = verdicts \ {v}
      /\ Written \subseteq Written' /\ VerdictRecord(t, j, v.ok) \in Written'
      /\ step' = At("verdict", t, j, arg)
      /\ UNCHANGED <<run, issue, kern, jobs, stream, latest, inbox, oracles, queue, owned, todo,
                     round, resumed>>
  <2>1. Judges(v)
    BY <1>1, <1>4 DEF Judges
  <2>2. /\ step.pc = "wave" /\ queue = <<>> /\ verdicts' = verdicts \ {v} /\ Parses(chain)
        /\ chain' = Sealed(chain, VerdictRecord(t, j, v.ok))
        /\ step' = At("verdict", t, j, arg)
        /\ UNCHANGED <<run, issue, kern, jobs, stream, latest, inbox, oracles, queue, owned, todo,
                       round, resumed>>
    BY <1>1, <1>2, <2>1 DEF OnVerdict, Idle, daemon, shell, counts
  <2>. QED BY <2>2, SealKeeps DEF Written, Contents
<1>6. Judged(t) /\ Held(t) /\ ~Fresh(t)
  BY <1>1, <1>4 DEF Judged, Held, Fresh
<1>7. j \in Jobs /\ jobs[j].task = t /\ j \in 0 .. Len(jobs) /\ j \in Nat
  <2>1. j \in Jobs /\ jobs[j].task = t
    BY <1>0, <1>1, <1>3, <1>6 DEF IssueJob
  <2>2. Len(jobs) \in Nat
    BY <1>0 DEF Typed
  <2>. QED BY <2>1, <2>2 DEF Jobs
<1>8. /\ arg \in {"verified", "retry", "rejected"}
      /\ arg = "verified" => v.ok
      /\ arg = "rejected" => ~v.ok
      /\ arg = "retry" => v.attempt + 1 < MaxAttempts
  BY <1>2, <1>3
<1>9. /\ step' \in Steps /\ step'.pc = "verdict" /\ step'.task = t /\ step'.job = j
      /\ step'.arg = arg
  BY <1>3, <1>5, <1>7, <1>8 DEF At, Steps, Busy
<1>10. ~Awaited(t)' /\ ~Judged(t)'
  <2>1. ~Awaited(t)
    BY <1>0, <1>3, <1>4 DEF TaskMail, Awaited
  <2>2. \A o \in oracles : o.task # t
    BY <1>0, <1>1 DEF HeldOnce, JudgedOnce
  <2>3. \A w \in verdicts : w.task = t => w = v
    BY <1>0, <1>1 DEF HeldOnce, JudgedOnce
  <2>. QED BY <1>5, <2>1, <2>2, <2>3 DEF Awaited, Judged
<1>11. Typed'
  <2>1. issue \in [Tasks -> IssueRecords] /\ owned \subseteq Jobs
    BY <1>0 DEF TypeOK
  <2>. QED BY <1>0, <1>5, <1>7, <1>9, <2>1, TypedStep DEF Typed
<1>12. Concerns(t)
  BY <1>5, <1>9 DEF Concerns, AtTask, Busy, Queued
<1>13. StepFacts'
  <2>1. arg = "verified" => VerdictRecord(t, j, TRUE) \in Written'
    BY <1>3, <1>5, <1>8 DEF VerdictRecord
  <2>2. arg = "rejected" => VerdictRecord(t, j, FALSE) \in Written'
    BY <1>3, <1>5, <1>8 DEF VerdictRecord
  <2>. QED BY <1>1, <1>3, <1>4, <1>5, <1>7, <1>8, <1>9, <2>1, <2>2 DEF StepFacts, Busy, Jobs
<1>14. IssueJob(t)' /\ Claimed(t)'
  BY <1>0, <1>3, <1>5 DEF IssueJob, Fresh, Claimed, Jobs
<1>15. FirstStep'
  BY <1>9 DEF FirstStep
<1>. QED BY <1>3, <1>5, <1>6, <1>10, <1>11, <1>12, <1>13, <1>14, <1>15, WorkStep

\* The issue takes the sealed verdict.
LEMMA StepWriteVerdict == DispatchInv /\ WriteVerdict => DispatchInv'
<1>. SUFFICES ASSUME DispatchInv, WriteVerdict PROVE DispatchInv'
  OBVIOUS
<1>0. Typed /\ TypeOK /\ StepFacts /\ \A x \in Tasks : Claimed(x)
  BY DEF DispatchInv, Typed
<1>1. PICK out : out = IF step.arg = "verified" THEN "done" ELSE "failed"
  OBVIOUS
<1>2. /\ step.pc = "verdict" /\ step.arg \in {"verified", "rejected"}
      /\ issue' = [issue EXCEPT ![step.task].st = step.arg]
      /\ step' = [step EXCEPT !.pc = "advance", !.arg = out]
      /\ UNCHANGED <<run, Written, kern, jobs, stream, latest, inbox, verdicts, oracles, queue, owned,
                     todo, round, resumed>>
  BY <1>1 DEF Written, WriteVerdict, daemon, shell, mail, counts
<1>3. /\ step.task \in Tasks /\ step \in Steps /\ step.job \in Jobs
             /\ jobs[step.job].task = step.task
      /\ issue[step.task] \in IssueRecords
  BY <1>2, AtWork DEF Busy
<1>4. /\ issue[step.task].st = "verifying" /\ issue[step.task].job = step.job
      /\ step.arg = "verified" => VerdictRecord(step.task, step.job, TRUE) \in Written
      /\ step.arg = "rejected" => VerdictRecord(step.task, step.job, FALSE) \in Written
      /\ OutputRecord(step.task, step.job) \in Written
  BY <1>0, <1>2, <1>3 DEF StepFacts, Claimed
<1>5. /\ step' \in Steps /\ step'.pc = "advance" /\ step'.task = step.task /\ step'.job = step.job
      /\ step'.arg = out /\ out \in {"done", "failed"} /\ (out = "done" => step.arg = "verified")
  BY <1>1, <1>2, <1>3 DEF Steps, Busy
<1>6. /\ issue' \in [Tasks -> IssueRecords] /\ issue'[step.task].st = step.arg
      /\ issue'[step.task].job = step.job
      /\ \A x \in Tasks : x # step.task => issue'[x] = issue[x]
  BY <1>0, <1>2, <1>3, <1>4 DEF TypeOK, IssueRecords, Statuses
<1>7. StepFacts'
  BY <1>2, <1>3, <1>5, <1>6 DEF StepFacts, Busy, Jobs, Fresh, Finished
<1>8. IssueJob(step.task)' /\ Claimed(step.task)'
  <2>1. IssueJob(step.task)'
    BY <1>2, <1>3, <1>5, <1>6 DEF IssueJob, Jobs
  <2>2. /\ issue'[step'.task].st = step.arg
        /\ OutputRecord(step'.task, issue'[step'.task].job) \in Written'
        /\ step.arg = "verified" =>
               VerdictRecord(step'.task, issue'[step'.task].job, TRUE) \in Written'
        /\ step.arg = "rejected" =>
               VerdictRecord(step'.task, issue'[step'.task].job, FALSE) \in Written'
    <3>1. step'.task = step.task /\ issue'[step'.task].job = step.job /\ Written' = Written
      BY <1>2, <1>5, <1>6
    <3>. QED BY <1>4, <1>5, <1>6, <3>1
  <2>. QED BY <2>1, <2>2 DEF Claimed
<1>9. FirstStep'
  BY <1>5, <1>6 DEF FirstStep
<1>10. ~Fresh(step.task)
  BY <1>4 DEF Fresh
<1>. QED BY <1>2, <1>4, <1>5, <1>6, <1>7, <1>8, <1>9, <1>10, HandlerStep DEF Busy

\* retry_task starts a job with the last prompt.
LEMMA StepRetry == DispatchInv /\ RetryTask => DispatchInv'
<1>. SUFFICES ASSUME DispatchInv, RetryTask PROVE DispatchInv'
  OBVIOUS
<1>0. /\ Typed /\ TypeOK /\ StepFacts /\ FirstRun /\ Phases
      /\ \A x \in Tasks : IssueJob(x) /\ Claimed(x)
  BY DEF DispatchInv, Typed
<1>1. PICK t, saw : t = step.task /\ saw = jobs[step.job].saw
  OBVIOUS
<1>2. /\ step.pc = "verdict" /\ step.arg = "retry" /\ Spawn(t, saw)
      /\ UNCHANGED <<run, issue, Written, kern, stream, latest, inbox, verdicts, oracles, queue,
                     owned, todo, round, resumed>>
  BY <1>1 DEF Written, RetryTask, disk, shell, mail, counts
<1>3. /\ t \in Tasks /\ Held(t) /\ ~Awaited(t) /\ ~Judged(t) /\ ~Queued(t)
      /\ jobs[step.job] \in JobRecords
  BY <1>1, <1>2, AtWork DEF Busy
<1>4. saw \in UNION {[D -> 0 .. MaxJobs] : D \in SUBSET Tasks}
  BY <1>1, <1>3 DEF JobRecords
<1>5. issue[t].st = "verifying" /\ issue[t].job = step.job /\ issue[t].attempt + 1 < MaxAttempts
  BY <1>0, <1>1, <1>2 DEF StepFacts
<1>6. /\ Typed' /\ Len(jobs) <= Len(jobs') /\ \A j \in Jobs : jobs'[j] = jobs[j]
      /\ step'.pc = "spawned" /\ step'.task = t /\ step'.job \in Jobs'
      /\ jobs'[step'.job].task = t /\ jobs'[step'.job].saw = saw
      /\ \A j \in Jobs : j \in Jobs'
  <2>1. queue' \in Seq(Tasks)
    BY <1>0, <1>2 DEF Typed
  <2>. QED BY <1>0, <1>2, <1>3, <1>4, <2>1, Spawned
<1>7. owned \subseteq Jobs
  BY <1>0 DEF TypeOK
<1>8. ~Awaited(t)' /\ ~Judged(t)'
  BY <1>2, <1>3, <1>6, <1>7 DEF Awaited, Judged
<1>9. Concerns(t)
  BY <1>1, <1>2, <1>3, <1>6, <1>7 DEF Concerns, AtTask, Busy
<1>10. StepFacts'
  BY <1>2, <1>3, <1>5, <1>6 DEF StepFacts, Busy
<1>11. IssueJob(t)' /\ Claimed(t)'
  BY <1>0, <1>2, <1>3, <1>6 DEF IssueJob, Fresh, Claimed
<1>12. ~Fresh(t)
  BY <1>5 DEF Fresh
<1>13. ~resumed => FirstStep'
  <2>1. ~resumed => \A d \in DependsOn[t] : saw[d] = issue[d].job
    BY <1>0, <1>1, <1>2, <1>3, <1>5, <1>12 DEF FirstRun, UsedPresent, Phases
  <2>. QED BY <1>2, <1>6, <2>1 DEF FirstStep
<1>. QED BY <1>2, <1>3, <1>6, <1>8, <1>9, <1>10, <1>11, <1>12, <1>13, WorkStep

-----------------------------------------------------------------------------
(* The oracle threads, the jobs, the stream and the kernel *)

\* A step that leaves issues, chain and the driver's place alone.
LEMMA MailStep ==
    ASSUME DispatchInv, UNCHANGED <<run, issue, Written, step, queue, owned, todo, round, resumed>>,
           kern' \in {kern, NoRun},
           jobs' \in Seq(JobRecords), Len(jobs') = Len(jobs),
           \A j \in Jobs : /\ jobs'[j].task = jobs[j].task /\ jobs'[j].saw = jobs[j].saw
                           /\ jobs[j].ans # "no" => jobs'[j].ans = jobs[j].ans,
           \A j \in (stream \union latest \union inbox)' : j \in Jobs /\ jobs'[j].ans # "no",
           \/ UNCHANGED <<oracles, verdicts>>
           \/ \E o \in oracles, ok \in BOOLEAN :
                 /\ oracles' = oracles \ {o}
                 /\ verdicts' = verdicts \union {[task |-> o.task, attempt |-> o.attempt,
                        ok |-> ok]}
    PROVE  DispatchInv'
<1>0. /\ Typed /\ TypeOK /\ HeldOnce /\ Phases /\ Answered /\ StepFacts /\ Released /\ FirstRun
      /\ \A t \in Tasks : IssueJob(t) /\ TaskMail(t) /\ Claimed(t)
  BY DEF DispatchInv, Typed
<1>1. Jobs' = Jobs /\ owned \subseteq Jobs
  BY <1>0 DEF Jobs, TypeOK
<1>2. /\ JudgedOnce' /\ \A t : Judged(t)' <=> Judged(t)
      /\ oracles = {} /\ verdicts = {} => oracles' = {} /\ verdicts' = {}
      /\ \A o \in oracles' : o \in oracles
      /\ \A v \in verdicts' : \/ v \in verdicts
                              \/ \E o \in oracles : v.task = o.task /\ v.attempt = o.attempt
      /\ verdicts' \subseteq [task : Tasks, attempt : 0 .. MaxAttempts - 1, ok : BOOLEAN]
  <2>1. CASE UNCHANGED <<oracles, verdicts>>
    BY <1>0, <2>1 DEF HeldOnce, JudgedOnce, Judged, Typed
  <2>2. ASSUME NEW o \in oracles, NEW ok \in BOOLEAN, oracles' = oracles \ {o},
               verdicts' = verdicts \union {[task |-> o.task, attempt |-> o.attempt, ok |-> ok]}
        PROVE  /\ JudgedOnce' /\ \A t : Judged(t)' <=> Judged(t)
               /\ oracles = {} /\ verdicts = {} => oracles' = {} /\ verdicts' = {}
               /\ \A p \in oracles' : p \in oracles
               /\ \A v \in verdicts' : \/ v \in verdicts
                                       \/ \E p \in oracles : v.task = p.task
                                              /\ v.attempt = p.attempt
               /\ verdicts' \subseteq [task : Tasks, attempt : 0 .. MaxAttempts - 1, ok : BOOLEAN]
    <3>1. PICK w : w = [task |-> o.task, attempt |-> o.attempt, ok |-> ok]
      OBVIOUS
    <3>2. /\ w.task = o.task /\ w.attempt = o.attempt
          /\ w \in [task : Tasks, attempt : 0 .. MaxAttempts - 1, ok : BOOLEAN]
      <4>1. o.task \in Tasks /\ o.attempt \in 0 .. MaxAttempts - 1
        BY <1>0 DEF Typed
      <4>. QED BY <3>1, <4>1
    <3>3. oracles' = oracles \ {o} /\ verdicts' = verdicts \union {w}
      BY <2>2, <3>1
    <3>4. JudgedOnce'
      BY <1>0, <3>2, <3>3 DEF HeldOnce, JudgedOnce
    <3>5. \A t : Judged(t)' <=> Judged(t)
      BY <1>0, <3>2, <3>3 DEF HeldOnce, JudgedOnce, Judged
    <3>6. verdicts' \subseteq [task : Tasks, attempt : 0 .. MaxAttempts - 1, ok : BOOLEAN]
      BY <1>0, <3>2, <3>3 DEF Typed
    <3>. QED BY <3>2, <3>3, <3>4, <3>5, <3>6
  <2>. QED BY <2>1, <2>2
<1>3. /\ \A t : (Queued(t)' <=> Queued(t)) /\ (Working(t)' <=> Working(t))
      /\ \A t : Awaited(t)' <=> Awaited(t)
      /\ \A t : Held(t)' <=> Held(t)
      /\ \A t : (Fresh(t)' <=> Fresh(t)) /\ (Finished(t)' <=> Finished(t))
  <2>1. \A t : (Queued(t)' <=> Queued(t)) /\ (Working(t)' <=> Working(t))
    BY DEF Queued, Working
  <2>2. \A t : Awaited(t)' <=> Awaited(t)
    BY <1>1 DEF Awaited
  <2>3. \A t : (Fresh(t)' <=> Fresh(t)) /\ (Finished(t)' <=> Finished(t))
    BY DEF Fresh, Finished
  <2>. QED BY <1>2, <2>1, <2>2, <2>3 DEF Held
<1>4. Typed'
  <2>1. NoRun \in KernelStates
    BY DEF NoRun, KernelStates
  <2>2. kern' \in KernelStates
    BY <1>0, <2>1 DEF Typed
  <2>3. kern'.live \in BOOLEAN /\ kern'.done \subseteq Tasks /\ kern'.failed \subseteq Tasks
        /\ kern'.out \subseteq Tasks
    BY <2>2 DEF KernelStates
  <2>4. (stream \union latest \union inbox \union owned)' \subseteq Jobs'
    BY <1>1
  <2>5. TypeOK'
    BY <1>0, <2>3, <2>4 DEF TypeOK
  <2>. QED BY <1>0, <1>2, <2>2, <2>5 DEF Typed
<1>5. HeldOnce'
  BY <1>0, <1>2, <1>3 DEF HeldOnce, QueueOnce
<1>6. Phases'
  BY <1>0, <1>2, <1>3 DEF Phases
<1>7. Answered'
  BY DEF Answered
<1>8. StepFacts'
  <2>1. step.pc \in Busy => step.job \in Jobs
    BY <1>0 DEF StepFacts
  <2>. QED BY <1>0, <1>1, <2>1 DEF StepFacts, Fresh, Finished, Busy
<1>9. Released'
  <2>1. kern'.live => kern' = kern
    BY DEF NoRun
  <2>. QED BY <1>0, <1>3, <2>1 DEF Released
<1>10. FirstRun'
  <2>. SUFFICES ASSUME ~resumed, step.pc # "off"
                PROVE  NotStarted' /\ (\A t \in Tasks : UsedPresent(t)') /\ FirstStep'
    BY DEF FirstRun
  <2>1. NotStarted /\ (\A t \in Tasks : UsedPresent(t)) /\ FirstStep
    BY <1>0 DEF FirstRun
  <2>2. NotStarted'
    <3>1. kern'.live => kern' = kern
      BY DEF NoRun
    <3>. QED BY <1>3, <2>1, <3>1 DEF NotStarted
  <2>3. \A t \in Tasks : UsedPresent(t)'
    <3>. SUFFICES ASSUME NEW t \in Tasks, ~Fresh(t), t \notin todo, NEW d \in DependsOn[t]
                  PROVE  /\ Finished(d)' /\ ~Held(d)' /\ d \notin todo'
                         /\ jobs'[issue'[t].job].saw[d] = issue'[d].job
      BY <1>3 DEF UsedPresent
    <3>1. /\ Finished(d) /\ ~Held(d) /\ d \notin todo
          /\ jobs[issue[t].job].saw[d] = issue[d].job
      BY <2>1 DEF UsedPresent
    <3>2. issue[t].job \in Jobs
      BY <1>0 DEF IssueJob
    <3>. QED BY <1>3, <3>1, <3>2
  <2>4. FirstStep'
    <3>1. step.pc \in Busy => step.job \in Jobs
      BY <1>0 DEF StepFacts
    <3>. QED BY <2>1, <3>1 DEF FirstStep, Busy
  <2>. QED BY <2>2, <2>3, <2>4
<1>11. ASSUME NEW t \in Tasks PROVE IssueJob(t)' /\ TaskMail(t)' /\ Claimed(t)'
  <2>1. IssueJob(t)'
    BY <1>0, <1>1, <1>3 DEF IssueJob
  <2>2. Claimed(t)'
    BY <1>0 DEF Claimed
  <2>3. TaskMail(t) /\ \A j \in owned : jobs'[j].task = jobs[j].task
    BY <1>0, <1>1
  <2>4. TaskMail(t)'
    BY <1>2, <2>3 DEF TaskMail
  <2>. QED BY <2>1, <2>2, <2>4
<1>. QED BY <1>4, <1>5, <1>6, <1>7, <1>8, <1>9, <1>10, <1>11 DEF DispatchInv

\* The steps outside of the driver that do not end it.
LEMMA EnvironmentStep ==
    ASSUME DispatchInv,
           \/ \E o \in oracles, ok \in BOOLEAN : OracleEnds(o, ok)
           \/ \E j \in Jobs : JobExits(j) \/ \E ans \in Answers : JobAnswers(j, ans)
           \/ \E j \in stream : Ingest(j)
           \/ \E j \in inbox : OnResponse(j) /\ j \notin owned
           \/ KernelLost \/ Boot \/ UNCHANGED vars
    PROVE  DispatchInv'
<1>0. /\ Typed /\ TypeOK /\ Answered /\ jobs \in Seq(JobRecords) /\ kern \in KernelStates
      /\ stream \union latest \union inbox \subseteq Jobs
      /\ \A j \in Jobs : jobs[j] \in JobRecords
  BY DEF DispatchInv, Typed, TypeOK, Jobs
<1>1. ASSUME NEW o \in oracles, NEW ok \in BOOLEAN, OracleEnds(o, ok) PROVE DispatchInv'
  <2>1. /\ UNCHANGED <<run, issue, Written, kern, jobs, stream, latest, inbox, step, queue, owned,
                       todo, round, resumed>>
        /\ oracles' = oracles \ {o}
        /\ verdicts' = verdicts \union {[task |-> o.task, attempt |-> o.attempt, ok |-> ok]}
    BY <1>1 DEF Written, OracleEnds, disk, daemon, shell, driver, counts
  <2>2. \A j \in (stream \union latest \union inbox)' : j \in Jobs /\ jobs'[j].ans # "no"
    BY <1>0, <2>1 DEF Answered
  <2>. QED BY <1>0, <2>1, <2>2, MailStep
<1>2. ASSUME NEW j \in Jobs, JobExits(j) PROVE DispatchInv'
  <2>1. /\ UNCHANGED <<run, issue, Written, kern, stream, latest, inbox, step, queue, owned, todo,
                       round, resumed, oracles, verdicts>>
        /\ jobs' = [jobs EXCEPT ![j].alive = FALSE]
    BY <1>2 DEF Written, JobExits, disk, shell, mail, driver, counts
  <2>2. PICK r : r = [jobs[j] EXCEPT !.alive = FALSE]
    OBVIOUS
  <2>3. r \in JobRecords /\ r.task = jobs[j].task /\ r.saw = jobs[j].saw /\ r.ans = jobs[j].ans
    BY <1>0, <2>2 DEF JobRecords
  <2>4. /\ jobs' \in Seq(JobRecords) /\ Len(jobs') = Len(jobs) /\ jobs'[j] = r
        /\ \A k \in Jobs : k # j => jobs'[k] = jobs[k]
    <3>1. jobs' = [jobs EXCEPT ![j] = r]
      BY <2>1, <2>2
    <3>. QED BY <1>0, <2>3, <3>1 DEF Jobs
  <2>5. \A k \in (stream \union latest \union inbox)' : k \in Jobs /\ jobs'[k].ans # "no"
    BY <1>0, <2>1, <2>3, <2>4 DEF Answered
  <2>6. \A k \in Jobs : /\ jobs'[k].task = jobs[k].task /\ jobs'[k].saw = jobs[k].saw
                        /\ jobs[k].ans # "no" => jobs'[k].ans = jobs[k].ans
    BY <2>3, <2>4
  <2>. QED BY <2>1, <2>4, <2>5, <2>6, MailStep
<1>3. ASSUME NEW j \in Jobs, NEW ans \in Answers, JobAnswers(j, ans) PROVE DispatchInv'
  <2>1. /\ UNCHANGED <<run, issue, Written, kern, latest, inbox, step, queue, owned, todo, round,
                       resumed, oracles, verdicts>>
        /\ jobs' = [jobs EXCEPT ![j].ans = ans] /\ jobs[j].ans = "no"
        /\ stream' = stream \union {j}
    BY <1>3 DEF Written, JobAnswers, disk, shell, mail, driver, counts
  <2>2. PICK r : r = [jobs[j] EXCEPT !.ans = ans]
    OBVIOUS
  <2>3. r \in JobRecords /\ r.task = jobs[j].task /\ r.saw = jobs[j].saw /\ r.ans # "no"
    BY <1>0, <2>2 DEF JobRecords, Answers
  <2>4. /\ jobs' \in Seq(JobRecords) /\ Len(jobs') = Len(jobs) /\ jobs'[j] = r
        /\ \A k \in Jobs : k # j => jobs'[k] = jobs[k]
    BY <1>0, <2>1, <2>2, <2>3 DEF Jobs
  <2>5. \A k \in (stream \union latest \union inbox)' : k \in Jobs /\ jobs'[k].ans # "no"
    <3>1. \A k \in stream \union latest \union inbox : k \in Jobs /\ jobs[k].ans # "no"
      BY <1>0 DEF Answered
    <3>2. (stream \union latest \union inbox)' = (stream \union latest \union inbox) \union {j}
      BY <2>1
    <3>. QED BY <2>3, <2>4, <3>1, <3>2
  <2>6. \A k \in Jobs : /\ jobs'[k].task = jobs[k].task /\ jobs'[k].saw = jobs[k].saw
                        /\ jobs[k].ans # "no" => jobs'[k].ans = jobs[k].ans
    BY <2>1, <2>3, <2>4
  <2>. QED BY <2>1, <2>4, <2>5, <2>6, MailStep
<1>4. ASSUME NEW j \in stream, Ingest(j) PROVE DispatchInv'
  <2>1. /\ UNCHANGED <<run, issue, Written, kern, jobs, step, queue, owned, todo, round, resumed,
                       oracles, verdicts>>
        /\ stream' = stream \ {j} /\ latest' = latest \union {j}
        /\ inbox' \subseteq inbox \union {j}
    BY <1>4 DEF Written, Ingest, disk, driver, counts
  <2>2. \A k \in (stream \union latest \union inbox)' : k \in Jobs /\ jobs'[k].ans # "no"
    BY <1>0, <2>1 DEF Answered
  <2>. QED BY <1>0, <2>1, <2>2, MailStep
<1>5. ASSUME NEW j \in inbox, OnResponse(j), j \notin owned PROVE DispatchInv'
  <2>1. /\ UNCHANGED <<run, issue, Written, kern, jobs, stream, latest, step, queue, owned, todo,
                       round, resumed, oracles, verdicts>>
        /\ inbox' = inbox \ {j}
    BY <1>5 DEF Written, OnResponse, disk, daemon, shell, counts
  <2>2. \A k \in (stream \union latest \union inbox)' : k \in Jobs /\ jobs'[k].ans # "no"
    BY <1>0, <2>1 DEF Answered
  <2>. QED BY <1>0, <2>1, <2>2, MailStep
<1>6. CASE KernelLost \/ Boot \/ UNCHANGED vars
  <2>1. /\ UNCHANGED <<run, issue, Written, jobs, stream, latest, inbox, step, queue, owned, todo,
                       round, resumed, oracles, verdicts>>
        /\ kern' \in {kern, NoRun}
    BY <1>6 DEF Written, KernelLost, Boot, vars, disk, daemon, shell, mail, driver, counts
  <2>2. \A k \in (stream \union latest \union inbox)' : k \in Jobs /\ jobs'[k].ans # "no"
    BY <1>0, <2>1 DEF Answered
  <2>. QED BY <1>0, <2>1, <2>2, MailStep
<1>. QED BY <1>1, <1>2, <1>3, <1>4, <1>5, <1>6

-----------------------------------------------------------------------------
(* start_run, resume_run and the re-plan *)

\* A driver, or a round, begins with a wave of a kernel for which the tasks in done are
\* finished and will not be reset.
LEMMA RoundBegins ==
    ASSUME DispatchInv, step.pc \in {"off", "finalize"},
           NEW done \in SUBSET Tasks, NEW wave \in Waves(done, {}, {}),
               NEW order \in SetToSeqs(wave),
           queue' = order,
           kern' = [live |-> TRUE, done |-> done, failed |-> {}, out |-> wave],
           \A d \in done : Finished(d) /\ d \notin todo',
           step' \in Steps, step'.pc \in {"open", "reset", "wave"}, step'.job = 0,
           step'.pc = "wave" => todo' = {} /\ resumed',
           step'.pc = "reset" => round < MaxReplans,
           todo' \subseteq Tasks, run' \in {"none", "open", "closed"}, resumed' \in BOOLEAN,
           Written \subseteq Written',
           UNCHANGED <<issue, jobs, stream, latest, inbox, oracles, verdicts, owned, round>>,
           ~resumed' => \A t \in Tasks : t \notin todo' =>
               t \in done /\ \A d \in DependsOn[t] :
                   d \in done /\ jobs[issue[t].job].saw[d] = issue[d].job
    PROVE  DispatchInv'
<1>0. /\ Typed /\ TypeOK /\ HeldOnce /\ Phases /\ Answered
      /\ \A t \in Tasks : IssueJob(t) /\ TaskMail(t) /\ Claimed(t)
  BY DEF DispatchInv, Typed
<1>1. /\ wave \in SUBSET Tasks
      /\ \A t \in wave : t \notin done /\ DependsOn[t] \subseteq done
  BY WaveIsReady
<1>2. /\ queue' \in Seq(Tasks) /\ QueueOnce' /\ \A t : Queued(t)' => t \in wave
  BY <1>1, OrderOfWave DEF QueueOnce, Queued
<1>3. owned' = {} /\ oracles' = {} /\ verdicts' = {}
  BY <1>0 DEF Phases
<1>4. \A t : ~Working(t)' /\ ~Awaited(t)' /\ ~Judged(t)'
  <2>1. \A t : ~Working(t)'
    BY DEF Working, Busy
  <2>. QED BY <1>3, <2>1 DEF Awaited, Judged
<1>5. \A t : Held(t)' => t \in wave
  BY <1>2, <1>4 DEF Held
<1>6. \A t : (Fresh(t)' <=> Fresh(t)) /\ (Finished(t)' <=> Finished(t))
  BY DEF Fresh, Finished
<1>7. /\ kern' \in KernelStates /\ kern'.live = TRUE /\ kern'.done = done /\ kern'.failed = {}
      /\ kern'.out = wave
  BY <1>1 DEF KernelStates
<1>8. Typed'
  <2>0. Len(jobs') \in Nat
    BY <1>0 DEF Typed
  <2>a. 0 \in 0 .. Len(jobs')
    BY <2>0
  <2>b. step'.task \in Tasks \union {NoTask}
    BY DEF Steps
  <2>1. step'.task \in Tasks \union {NoTask} /\ step'.job \in 0 .. Len(jobs')
    BY <2>a, <2>b
  <2>2. kern'.live \in BOOLEAN /\ kern'.done \subseteq Tasks /\ kern'.failed \subseteq Tasks
        /\ kern'.out \subseteq Tasks
    BY <1>1, <1>7
  <2>3. (stream \union latest \union inbox \union owned)' \subseteq Jobs'
    BY <1>0 DEF TypeOK, Jobs
  <2>4. TypeOK'
    BY <1>0, <2>1, <2>2, <2>3 DEF TypeOK
  <2>. QED BY <1>0, <1>2, <1>3, <1>7, <2>4 DEF Typed
<1>9. HeldOnce'
  BY <1>2, <1>3, <1>4 DEF HeldOnce, JudgedOnce
<1>10. Phases'
  BY <1>3 DEF Phases
<1>11. Answered'
  BY <1>0 DEF Answered
<1>12. StepFacts'
  BY DEF StepFacts, Busy
<1>13. Released'
  <2>1. \A t \in Tasks : Held(t)' => \A d \in DependsOn[t] : Finished(d)' /\ ~Held(d)'
                             /\ d \notin todo'
    BY <1>1, <1>5, <1>6
  <2>. QED BY <1>1, <1>5, <1>6, <1>7, <2>1 DEF Released
<1>14. FirstRun'
  <2>. SUFFICES ASSUME ~resumed'
                PROVE  NotStarted' /\ (\A t \in Tasks : UsedPresent(t)') /\ FirstStep'
    BY DEF FirstRun
  <2>1. NotStarted'
    BY <1>1, <1>2, <1>7 DEF NotStarted
  <2>2. \A t \in Tasks : UsedPresent(t)'
    BY <1>1, <1>5, <1>6 DEF UsedPresent
  <2>3. FirstStep'
    BY DEF FirstStep
  <2>. QED BY <2>1, <2>2, <2>3
<1>15. \A t \in Tasks : IssueJob(t)' /\ TaskMail(t)' /\ Claimed(t)'
  <2>1. \A t \in Tasks : IssueJob(t)' /\ Claimed(t)'
    BY <1>0 DEF IssueJob, Fresh, Claimed, Jobs
  <2>2. \A t \in Tasks : TaskMail(t)'
    BY <1>3 DEF TaskMail
  <2>. QED BY <2>1, <2>2
<1>. QED BY <1>8, <1>9, <1>10, <1>11, <1>12, <1>13, <1>14, <1>15 DEF DispatchInv

\* dispatch, and dispatch --resume
LEMMA StepBegin == DispatchInv /\ (StartRun \/ ResumeRun) => DispatchInv'
<1>. SUFFICES ASSUME DispatchInv, StartRun \/ ResumeRun PROVE DispatchInv'
  OBVIOUS
<1>0. Typed /\ TypeOK /\ Phases
  BY DEF DispatchInv, Typed
<1>1. CASE StartRun
  <2>1. /\ step.pc = "off" /\ run' = "open" /\ todo' = Tasks
        /\ step' = At("open", NoTask, 0, "")
        /\ UNCHANGED <<issue, Written, jobs, stream, latest, inbox, oracles, verdicts, owned, round,
                       resumed>>
    BY <1>1 DEF Written, StartRun, daemon, shell, mail
  <2>a. PICK wave \in SUBSET Tasks : \E q \in SetToSeqs(wave) : Authorize(wave) /\ queue' = q
    BY <1>1 DEF Written, StartRun
  <2>2. PICK order \in SetToSeqs(wave) : Authorize(wave) /\ queue' = order
    BY <2>a
  <2>3. step' \in Steps /\ step'.pc = "open" /\ step'.job = 0
    BY <2>1 DEF At, Steps
  <2>4. wave \in Waves({}, {}, {})
        /\ kern' = [live |-> TRUE, done |-> {}, failed |-> {}, out |-> wave]
    BY <2>2 DEF Authorize
  <2>5. resumed' \in BOOLEAN
    BY <1>0, <2>1 DEF Typed
  <2>6. /\ {} \in SUBSET Tasks /\ (\A d \in {} : Finished(d) /\ d \notin todo')
        /\ todo' \subseteq Tasks
        /\ \A t \in Tasks : t \notin todo' =>
               t \in {} /\ \A d \in DependsOn[t] :
                   d \in {} /\ jobs[issue[t].job].saw[d] = issue[d].job
    BY <2>1
  <2>. QED BY <2>1, <2>2, <2>3, <2>4, <2>5, <2>6, RoundBegins
<1>2. CASE ResumeRun
  <2>1. /\ step.pc = "off" /\ step' = InWave /\ resumed' = TRUE
        /\ UNCHANGED <<run, issue, Written, jobs, stream, latest, inbox, oracles, verdicts, owned,
                       todo, round>>
    BY <1>2 DEF Written, ResumeRun, disk, daemon, shell, mail
  <2>a. PICK wave \in SUBSET Tasks : \E q \in SetToSeqs(wave) : Authorize(wave) /\ queue' = q
    BY <1>2 DEF Written, ResumeRun
  <2>2. PICK order \in SetToSeqs(wave) : Authorize(wave) /\ queue' = order
    BY <2>a
  <2>3. wave \in Waves({}, {}, {})
        /\ kern' = [live |-> TRUE, done |-> {}, failed |-> {}, out |-> wave]
    BY <2>2 DEF Authorize
  <2>4. todo' = {} /\ run' \in {"none", "open", "closed"} /\ resumed'
    BY <1>0, <2>1 DEF Phases, TypeOK
  <2>. QED BY <2>1, <2>2, <2>3, <2>4, WaveStep, RoundBegins
<1>. QED BY <1>1, <1>2

\* A re-plan, of the whole DAG or of a part that is closed under dependents.
LEMMA StepReplan ==
    ASSUME DispatchInv, NEW s, ReplanAll(s) \/ \E r \in Reopened : ReplanTargeted(s, r)
    PROVE  DispatchInv'
<1>0. Typed /\ TypeOK /\ Phases /\ FirstRun
  BY DEF DispatchInv, Typed
<1>1. CASE ReplanAll(s)
  <2>1. /\ step.pc = "finalize" /\ round < MaxReplans /\ todo' = Tasks
        /\ Written \subseteq Written' /\ step' = At("reset", NoTask, 0, "")
        /\ UNCHANGED <<run, issue, jobs, stream, latest, inbox, oracles, verdicts, owned, round,
                       resumed>>
    <3>1. SealReplan
      BY <1>1 DEF ReplanAll
    <3>. QED BY <1>1, <3>1, LoggedKeeps DEF ReplanAll, SealReplan, Written, Contents, daemon, shell, mail
  <2>a. PICK wave \in SUBSET Tasks : \E q \in SetToSeqs(wave) : Authorize(wave) /\ queue' = q
    BY <1>1 DEF ReplanAll
  <2>2. PICK order \in SetToSeqs(wave) : Authorize(wave) /\ queue' = order
    BY <2>a
  <2>3. step' \in Steps /\ step'.pc = "reset" /\ step'.job = 0
    BY <2>1 DEF At, Steps
  <2>4. wave \in Waves({}, {}, {})
        /\ kern' = [live |-> TRUE, done |-> {}, failed |-> {}, out |-> wave]
    BY <2>2 DEF Authorize
  <2>5. resumed' \in BOOLEAN /\ run' \in {"none", "open", "closed"}
    BY <1>0, <2>1 DEF Typed, TypeOK
  <2>6. /\ {} \in SUBSET Tasks /\ (\A d \in {} : Finished(d) /\ d \notin todo')
        /\ todo' \subseteq Tasks
        /\ \A t \in Tasks : t \notin todo' =>
               t \in {} /\ \A d \in DependsOn[t] :
                   d \in {} /\ jobs[issue[t].job].saw[d] = issue[d].job
    BY <2>1
  <2>. QED BY <2>1, <2>2, <2>3, <2>4, <2>5, <2>6, RoundBegins
<1>2. ASSUME NEW r \in Reopened, ReplanTargeted(s, r) PROVE DispatchInv'
  <2>1. /\ step.pc = "finalize" /\ round < MaxReplans /\ todo' = r
        /\ Written \subseteq Written' /\ step' = At("reset", NoTask, 0, "")
        /\ UNCHANGED <<run, issue, jobs, stream, latest, inbox, oracles, verdicts, owned, round,
                       resumed>>
    <3>1. SealReplan
      BY <1>2 DEF ReplanTargeted
    <3>. QED BY <1>2, <3>1, LoggedKeeps DEF ReplanTargeted, SealReplan, Written, Contents, daemon, shell, mail
  <2>a. PICK wave \in Waves(Tasks \ r, {}, {}) : \E q \in SetToSeqs(wave) :
            /\ kern' = [live |-> TRUE, done |-> Tasks \ r, failed |-> {}, out |-> wave]
            /\ queue' = q
    BY <1>2 DEF ReplanTargeted
  <2>2. PICK order \in SetToSeqs(wave) :
            /\ kern' = [live |-> TRUE, done |-> Tasks \ r, failed |-> {}, out |-> wave]
            /\ queue' = order
    BY <2>a
  <2>3. step' \in Steps /\ step'.pc = "reset" /\ step'.job = 0
    BY <2>1 DEF At, Steps
  <2>4. r \subseteq Tasks /\ \A t \in Tasks : (DependsOn[t] \intersect r # {}) => t \in r
    BY DEF Reopened
  <2>5. resumed' \in BOOLEAN /\ run' \in {"none", "open", "closed"} /\ todo = {}
    BY <1>0, <2>1 DEF Typed, TypeOK, Phases
  <2>6. \A d \in Tasks \ r : Finished(d) /\ d \notin todo'
    BY <1>0, <2>1 DEF Phases
  <2>7. ASSUME ~resumed', NEW t \in Tasks, t \notin todo'
        PROVE  t \in Tasks \ r /\ \A d \in DependsOn[t] :
                   d \in Tasks \ r /\ jobs[issue[t].job].saw[d] = issue[d].job
    <3>1. ~Fresh(t) /\ ~resumed
      BY <1>0, <2>1, <2>7 DEF Phases, Fresh, Finished
    <3>2. \A d \in DependsOn[t] : jobs[issue[t].job].saw[d] = issue[d].job
      BY <1>0, <2>1, <2>5, <3>1 DEF FirstRun, UsedPresent
    <3>3. DependsOn[t] \subseteq Tasks
      BY DispatchConstants
    <3>. QED BY <2>1, <2>4, <2>7, <3>2, <3>3
  <2>8. Tasks \ r \in SUBSET Tasks /\ todo' \subseteq Tasks
    BY <2>1, <2>4
  <2>. QED BY <2>1, <2>2, <2>3, <2>5, <2>6, <2>7, <2>8, RoundBegins
<1>. QED BY <1>1, <1>2

\* An issue is opened, or reset for the next round.
LEMMA StepReset ==
    ASSUME DispatchInv, NEW t \in Tasks, OpenIssue(t) \/ ResetIssue(t)
    PROVE  DispatchInv'
<1>0. /\ Typed /\ TypeOK /\ HeldOnce /\ Phases /\ Answered /\ Released /\ FirstRun
      /\ \A x \in Tasks : IssueJob(x) /\ TaskMail(x) /\ Claimed(x)
  BY DEF DispatchInv, Typed
<1>1. /\ step.pc \in {"open", "reset"} /\ t \in todo /\ todo' = todo \ {t}
      /\ UNCHANGED <<run, Written, kern, jobs, stream, latest, inbox, oracles, verdicts, step, queue,
                     owned, round, resumed>>
  BY DEF Written, OpenIssue, ResetIssue, daemon, shell, mail, counts
<1>2. PICK r : /\ issue' = [issue EXCEPT ![t] = r] /\ r \in IssueRecords
               /\ r.st \in {"absent", "pending"}
  <2>1. Pending \in IssueRecords /\ Pending.st = "pending"
    BY DispatchConstants DEF Pending, IssueRecords, Statuses
  <2>2. issue[t] \in IssueRecords
    BY <1>0 DEF TypeOK
  <2>3. \/ issue' = [issue EXCEPT ![t] = Pending]
        \/ issue[t].st = "absent" /\ issue' = [issue EXCEPT ![t] = issue[t]]
    BY DEF Written, OpenIssue, ResetIssue
  <2>. QED BY <2>1, <2>2, <2>3
<1>3. /\ issue' \in [Tasks -> IssueRecords] /\ issue'[t] = r
      /\ \A x \in Tasks : x # t => issue'[x] = issue[x]
  BY <1>0, <1>2, IssueSet
<1>4. /\ Fresh(t)'
      /\ \A x \in Tasks : x # t => (Fresh(x)' <=> Fresh(x)) /\ (Finished(x)' <=> Finished(x))
  BY <1>2, <1>3 DEF Fresh, Finished
<1>5. \A x : /\ (Queued(x)' <=> Queued(x)) /\ (Working(x)' <=> Working(x))
             /\ (Awaited(x)' <=> Awaited(x)) /\ (Judged(x)' <=> Judged(x))
             /\ (Held(x)' <=> Held(x))
  BY <1>1 DEF Held, Queued, Working, Awaited, Judged
<1>6. \A x \in Tasks : DependsOn[x] \subseteq Tasks
  BY DispatchConstants
<1>7. Typed'
  <2>1. Jobs' = Jobs
    BY <1>1 DEF Jobs
  <2>2. todo' \subseteq Tasks
    BY <1>0, <1>1 DEF TypeOK
  <2>3. TypeOK'
    BY <1>0, <1>1, <1>3, <2>1, <2>2 DEF TypeOK
  <2>. QED BY <1>0, <1>1, <2>3 DEF Typed
<1>8. HeldOnce'
  BY <1>0, <1>1, <1>5 DEF HeldOnce, QueueOnce, JudgedOnce
<1>9. Phases'
  BY <1>0, <1>1 DEF Phases
<1>10. Answered'
  BY <1>0, <1>1 DEF Answered
<1>11. StepFacts'
  BY <1>1 DEF StepFacts, Busy
<1>12. Released'
  <2>1. kern.done \subseteq Tasks
    BY <1>0 DEF TypeOK
  <2>2. kern'.live =>
            /\ \A x \in Tasks : Held(x)' => x \in kern'.out
            /\ \A x \in kern'.out : x \notin kern'.done /\ DependsOn[x] \subseteq kern'.done
            /\ \A x \in kern'.done : Finished(x)' /\ x \notin todo'
    BY <1>0, <1>1, <1>4, <1>5, <2>1 DEF Released
  <2>3. \A x \in Tasks : Held(x)' => \A d \in DependsOn[x] : Finished(d)' /\ ~Held(d)'
                             /\ d \notin todo'
    BY <1>0, <1>1, <1>4, <1>5, <1>6 DEF Released
  <2>. QED BY <2>2, <2>3 DEF Released
<1>13. FirstRun'
  <2>. SUFFICES ASSUME ~resumed
                PROVE  NotStarted' /\ (\A x \in Tasks : UsedPresent(x)') /\ FirstStep'
    BY <1>1 DEF FirstRun
  <2>1. NotStarted /\ \A x \in Tasks : UsedPresent(x)
    BY <1>0, <1>1 DEF FirstRun
  <2>2. NotStarted'
    BY <1>1, <1>4, <1>5, <2>1 DEF NotStarted
  <2>3. ASSUME NEW x \in Tasks, ~Fresh(x)', x \notin todo', NEW d \in DependsOn[x]
        PROVE  /\ Finished(d)' /\ ~Held(d)' /\ d \notin todo'
               /\ jobs'[issue'[x].job].saw[d] = issue'[d].job
    <3>1. x # t /\ ~Fresh(x) /\ x \notin todo /\ d \in Tasks
      BY <1>1, <1>4, <1>6, <2>3
    <3>2. Finished(d) /\ ~Held(d) /\ d \notin todo /\ jobs[issue[x].job].saw[d] = issue[d].job
      BY <2>1, <3>1 DEF UsedPresent
    <3>3. d # t
      BY <1>1, <3>2
    <3>. QED BY <1>1, <1>3, <1>4, <1>5, <3>1, <3>2, <3>3
  <2>4. FirstStep'
    BY <1>1 DEF FirstStep
  <2>. QED BY <2>2, <2>3, <2>4 DEF UsedPresent
<1>14. ASSUME NEW x \in Tasks PROVE IssueJob(x)' /\ TaskMail(x)' /\ Claimed(x)'
  <2>1. TaskMail(x)'
    BY <1>0, <1>1 DEF TaskMail, Phases
  <2>2. IssueJob(x)'
    BY <1>0, <1>1, <1>3, <1>4 DEF IssueJob, Jobs
  <2>3. Claimed(x)'
    <3>1. CASE x = t
      BY <1>2, <1>3, <3>1 DEF Claimed
    <3>2. CASE x # t
      BY <1>0, <1>1, <1>3, <3>2 DEF Claimed
    <3>. QED BY <3>1, <3>2
  <2>. QED BY <2>1, <2>2, <2>3
<1>. QED BY <1>7, <1>8, <1>9, <1>10, <1>11, <1>12, <1>13, <1>14 DEF DispatchInv

\* The wave is entered.
LEMMA StepLaunch == DispatchInv /\ (Launch \/ NextRound) => DispatchInv'
<1>. SUFFICES ASSUME DispatchInv, Launch \/ NextRound PROVE DispatchInv'
  OBVIOUS
<1>0. /\ Typed /\ TypeOK /\ HeldOnce /\ Phases /\ Answered /\ Released /\ FirstRun
      /\ \A x \in Tasks : IssueJob(x) /\ TaskMail(x) /\ Claimed(x)
  BY DEF DispatchInv, Typed
<1>1. /\ step.pc \in {"open", "reset"} /\ todo = {} /\ step' = InWave
      /\ round' = round \/ (step.pc = "reset" /\ round' = round + 1)
      /\ UNCHANGED <<run, issue, Written, kern, jobs, stream, latest, inbox, oracles, verdicts, queue,
                     owned, todo, resumed>>
  BY DEF Written, Launch, NextRound, disk, daemon, shell, mail, counts
<1>2. \A x : /\ (Queued(x)' <=> Queued(x)) /\ (Working(x)' <=> Working(x))
             /\ (Awaited(x)' <=> Awaited(x)) /\ (Judged(x)' <=> Judged(x))
             /\ (Held(x)' <=> Held(x))
  <2>1. \A x : ~Working(x) /\ ~Working(x)'
    BY <1>1, WaveStep DEF Working, Busy
  <2>. QED BY <1>1, <2>1 DEF Held, Queued, Awaited, Judged
<1>3. \A x : (Fresh(x)' <=> Fresh(x)) /\ (Finished(x)' <=> Finished(x))
  BY <1>1 DEF Fresh, Finished
<1>4. Typed'
  <2>1. Jobs' = Jobs
    BY <1>1 DEF Jobs
  <2>2. round' \in 0 .. MaxReplans
    BY <1>0, <1>1, DispatchConstants DEF TypeOK, Phases
  <2>3. step'.task \in Tasks \union {NoTask} /\ step'.job \in 0 .. Len(jobs') /\ step' \in Steps
    BY <1>0, <1>1, WaveStep DEF Typed
  <2>4. TypeOK'
    BY <1>0, <1>1, <2>1, <2>2, <2>3 DEF TypeOK
  <2>. QED BY <1>0, <1>1, <2>3, <2>4 DEF Typed
<1>5. HeldOnce'
  BY <1>0, <1>1, <1>2 DEF HeldOnce, QueueOnce, JudgedOnce
<1>6. Phases' /\ Answered'
  BY <1>0, <1>1, WaveStep DEF Phases, Answered
<1>7. StepFacts' /\ FirstStep'
  BY <1>1, WaveStep DEF StepFacts, FirstStep, Busy
<1>8. Released'
  BY <1>0, <1>1, <1>2, <1>3 DEF Released
<1>9. FirstRun'
  <2>1. ~resumed => NotStarted /\ \A x \in Tasks : UsedPresent(x)
    BY <1>0, <1>1 DEF FirstRun
  <2>2. ~resumed => NotStarted'
    BY <1>1, <1>2, <1>3, <2>1 DEF NotStarted
  <2>3. ~resumed => \A x \in Tasks : UsedPresent(x)'
    BY <1>1, <1>2, <1>3, <2>1 DEF UsedPresent
  <2>. QED BY <1>1, <1>7, <2>2, <2>3 DEF FirstRun
<1>10. \A x \in Tasks : IssueJob(x)' /\ TaskMail(x)' /\ Claimed(x)'
  <2>1. \A x \in Tasks : TaskMail(x)'
    BY <1>0, <1>1 DEF TaskMail
  <2>2. \A x \in Tasks : IssueJob(x)'
    BY <1>0, <1>1 DEF IssueJob, Fresh, Jobs
  <2>3. \A x \in Tasks : Claimed(x)'
    BY <1>0, <1>1 DEF Claimed
  <2>. QED BY <2>1, <2>2, <2>3
<1>. QED BY <1>4, <1>5, <1>6, <1>7, <1>8, <1>9, <1>10 DEF DispatchInv

-----------------------------------------------------------------------------
(* advance: the kernel takes the outcome of t and releases a wave. *)

\* the outcome of t is folded in, and wave is queued in this order
FoldsIn(t, done, failed, wave, order) ==
    /\ step.pc = "advance" /\ kern.live /\ t = step.task
    /\ done = IF step.arg = "done" THEN kern.done \union {t} ELSE kern.done
    /\ failed = IF step.arg = "failed" THEN kern.failed \union {t} ELSE kern.failed
    /\ wave \subseteq Tasks
    /\ \A x \in wave : /\ x \notin done /\ x \notin failed /\ x \notin kern.out \ {t}
                       /\ DependsOn[x] \subseteq done
    /\ order \in Seq(Tasks) /\ \A i \in DOMAIN order : order[i] \in wave
    /\ \A i, j \in DOMAIN order : order[i] = order[j] => i = j
    /\ queue' = queue \o order
    /\ kern' \in KernelStates /\ kern'.live /\ kern'.done = done /\ kern'.failed = failed
    /\ kern'.out = (kern.out \ {t}) \union wave
    /\ step' \in Steps /\ step'.job = 0
    /\ step'.pc = "wave" \/ (step'.pc = "finalize" /\ done = Tasks)
    /\ UNCHANGED <<run, issue, Written, jobs, stream, latest, inbox, verdicts, oracles, owned, todo,
                   round, resumed>>

LEMMA AdvanceStep ==
    ASSUME DispatchInv, NEW t, NEW done, NEW failed, NEW wave, NEW order,
           FoldsIn(t, done, failed, wave, order)
    PROVE  DispatchInv'
<1>. USE DEF FoldsIn
<1>0. /\ Typed /\ TypeOK /\ HeldOnce /\ Phases /\ Answered /\ StepFacts /\ Released /\ FirstRun
      /\ \A x \in Tasks : IssueJob(x) /\ TaskMail(x) /\ Claimed(x)
  BY DEF DispatchInv, Typed
<1>1. /\ t \in Tasks /\ ~Fresh(t) /\ step.arg \in {"done", "failed"}
      /\ step.arg = "done" => Finished(t)
  BY <1>0 DEF StepFacts, Busy
<1>2. Working(t) /\ \A x \in Tasks : Working(x) => x = t
  BY DEF Working, Busy
<1>3. ~Queued(t) /\ ~Awaited(t) /\ ~Judged(t)
  BY <1>0, <1>1, <1>2 DEF HeldOnce
<1>4. t \in kern.out /\ t \notin kern.done
  BY <1>0, <1>1, <1>2 DEF Released, Held
<1>5. /\ kern.done \subseteq done /\ done \subseteq Tasks
      /\ \A x \in done : x \in kern.done \/ x = t
      /\ t \in done \union failed /\ kern.failed \subseteq failed
  BY <1>0, <1>1 DEF TypeOK
<1>6. \A x \in done : Finished(x) /\ x \notin todo
  <2>1. todo = {}
    BY <1>0 DEF Phases
  <2>2. \A x \in kern.done : Finished(x)
    BY <1>0 DEF Released
  <2>3. t \in done => Finished(t)
    BY <1>1, <1>4
  <2>. QED BY <1>5, <2>1, <2>2, <2>3
<1>7. todo = {} /\ todo' = {}
  BY <1>0 DEF Phases
<1>8. \A x \in Tasks : Held(x) => x \in kern.out
  BY <1>0 DEF Released
<1>9. \A x \in wave : x # t /\ x \notin kern.out /\ x \notin kern.done
                          /\ x \notin kern.failed /\ ~Held(x)
  BY <1>5, <1>8
<1>10. /\ queue' \in Seq(Tasks) /\ QueueOnce' /\ \A x : Queued(x)' => Queued(x) \/ x \in wave
  <2>1. queue \in Seq(Tasks) /\ queue' \in Seq(Tasks)
    BY <1>0 DEF Typed
  <2>2. /\ Len(queue) \in Nat /\ Len(order) \in Nat
        /\ DOMAIN queue = 1 .. Len(queue) /\ DOMAIN order = 1 .. Len(order)
        /\ DOMAIN queue' = 1 .. (Len(queue) + Len(order))
        /\ \A i \in DOMAIN queue' : queue'[i] = IF i <= Len(queue) THEN queue[i]
                                                ELSE order[i - Len(queue)]
    BY <2>1
  <2>3. ASSUME NEW i \in DOMAIN queue'
        PROVE  \/ i \in DOMAIN queue /\ queue'[i] = queue[i] /\ queue'[i] \notin wave
               \/ /\ i \notin DOMAIN queue /\ i - Len(queue) \in DOMAIN order
                  /\ queue'[i] = order[i - Len(queue)] /\ queue'[i] \in wave
    <3>1. CASE i <= Len(queue)
      <4>1. i \in DOMAIN queue /\ queue'[i] = queue[i]
        BY <2>2, <2>3, <3>1
      <4>2. Held(queue[i])
        BY <4>1 DEF Held, Queued
      <4>. QED BY <1>9, <4>1, <4>2
    <3>2. CASE i > Len(queue)
      BY <2>2, <2>3, <3>2
    <3>. QED BY <2>2, <3>1, <3>2
  <2>4. ASSUME NEW i \in DOMAIN queue', NEW j \in DOMAIN queue', queue'[i] = queue'[j] PROVE i = j
    <3>1. CASE i \in DOMAIN queue
      BY <1>0, <2>3, <2>4, <3>1 DEF HeldOnce, QueueOnce
    <3>2. CASE i \notin DOMAIN queue
      <4>1. i - Len(queue) = j - Len(queue)
        BY <2>3, <2>4, <3>2
      <4>. QED BY <2>2, <4>1
    <3>. QED BY <3>1, <3>2
  <2>5. QueueOnce'
    BY <2>4 DEF QueueOnce
  <2>6. \A x : Queued(x)' => Queued(x) \/ x \in wave
    BY <2>3 DEF Queued
  <2>. QED BY <2>1, <2>5, <2>6
<1>11. \A x : ~Working(x)' /\ (Awaited(x)' <=> Awaited(x)) /\ (Judged(x)' <=> Judged(x))
  <2>1. \A x : ~Working(x)'
    BY DEF Working, Busy
  <2>. QED BY <2>1 DEF Awaited, Judged
<1>12. \A x \in Tasks : Held(x)' => /\ x # t /\ (Held(x) \/ x \in wave)
                                    /\ x \in (kern.out \ {t}) \union wave
  BY <1>3, <1>8, <1>9, <1>10, <1>11 DEF Held
<1>13. \A x : (Fresh(x)' <=> Fresh(x)) /\ (Finished(x)' <=> Finished(x))
  BY DEF Fresh, Finished
<1>14. \A x \in (kern.out \ {t}) \union wave : x \notin done /\ DependsOn[x] \subseteq done
  BY <1>0, <1>5 DEF Released
<1>15. Released'
  <2>1. ASSUME NEW x \in Tasks, Held(x)', NEW d \in DependsOn[x]
        PROVE  Finished(d)' /\ ~Held(d)' /\ d \notin todo'
    <3>1. d \in done /\ d \in Tasks
      BY <1>5, <1>12, <1>14, <2>1
    <3>2. ~Held(d)'
      BY <1>12, <1>14, <3>1
    <3>. QED BY <1>6, <1>7, <1>13, <3>1, <3>2
  <2>. QED BY <1>6, <1>7, <1>12, <1>13, <1>14, <2>1 DEF Released
<1>16. HeldOnce'
  <2>1. JudgedOnce'
    BY <1>0 DEF HeldOnce, JudgedOnce
  <2>2. \A x \in Tasks : Queued(x)' => ~Awaited(x) /\ ~Judged(x)
    BY <1>0, <1>9, <1>10 DEF HeldOnce, Held
  <2>. QED BY <1>10, <1>11, <2>1, <2>2 DEF HeldOnce
<1>17. Typed'
  <2>0. Len(jobs') \in Nat /\ Jobs' = Jobs
    BY <1>0 DEF Typed, Jobs
  <2>1. 0 \in 0 .. Len(jobs')
    BY <2>0
  <2>2. step'.task \in Tasks \union {NoTask}
    BY DEF Steps
  <2>3. kern'.live \in BOOLEAN /\ kern'.done \subseteq Tasks /\ kern'.failed \subseteq Tasks
        /\ kern'.out \subseteq Tasks
    BY DEF KernelStates
  <2>4. TypeOK'
    BY <1>0, <2>0, <2>1, <2>2, <2>3 DEF TypeOK
  <2>. QED BY <1>0, <1>10, <2>4 DEF Typed
<1>18. Phases'
  <2>1. ASSUME step'.pc = "finalize"
        PROVE  queue' = <<>> /\ owned' = {} /\ oracles' = {} /\ verdicts' = {}
    <3>1. \A x \in Tasks : ~Held(x)'
      BY <1>12, <1>14, <2>1
    <3>2. queue' = <<>>
      <4>1. \A i \in DOMAIN queue' : FALSE
        BY <1>10, <3>1 DEF Held, Queued
      <4>. QED BY <1>10, <4>1
    <3>3. owned' = {}
      <4>0. owned' \subseteq 1 .. Len(jobs') /\ jobs' \in Seq(JobRecords)
        BY <1>17 DEF Typed, TypeOK, Jobs
      <4>a. \A j \in owned' : jobs'[j] \in JobRecords
        BY <4>0
      <4>1. \A j \in owned' : jobs'[j].task \in Tasks
        BY <4>a DEF JobRecords
      <4>. QED BY <3>1, <4>1 DEF Held, Awaited
    <3>4. oracles' = {} /\ verdicts' = {}
      <4>1. (\A o \in oracles' : o.task \in Tasks) /\ (\A v \in verdicts' : v.task \in Tasks)
        BY <1>17 DEF Typed
      <4>. QED BY <3>1, <4>1 DEF Held, Judged
    <3>. QED BY <3>2, <3>3, <3>4
  <2>2. step'.pc = "finalize" => \A x \in Tasks : Finished(x)'
    BY <1>6, <1>13
  <2>. QED BY <1>7, <2>1, <2>2 DEF Phases
<1>19. Answered' /\ StepFacts'
  BY <1>0 DEF Answered, StepFacts, Busy
<1>20. FirstRun'
  <2>. SUFFICES ASSUME ~resumed
                PROVE  NotStarted' /\ (\A x \in Tasks : UsedPresent(x)') /\ FirstStep'
    BY DEF FirstRun
  <2>1. NotStarted /\ \A x \in Tasks : UsedPresent(x)
    BY <1>0 DEF FirstRun
  <2>2. \A x \in wave : Fresh(x)
    BY <1>7, <1>9, <2>1 DEF NotStarted
  <2>3. NotStarted'
    <3>1. \A x \in Tasks : Queued(x)' => Fresh(x)'
      BY <1>7, <1>10, <1>13, <2>1, <2>2 DEF NotStarted
    <3>2. \A x \in Tasks \ (kern.done \union kern.failed \union kern.out) : Fresh(x)'
      BY <1>7, <1>13, <2>1 DEF NotStarted
    <3>3. \A x \in Tasks \ (done \union failed \union ((kern.out \ {t}) \union wave)) :
              x \in Tasks \ (kern.done \union kern.failed \union kern.out)
      BY <1>5
    <3>. QED BY <3>1, <3>2, <3>3 DEF NotStarted
  <2>4. ASSUME NEW x \in Tasks, ~Fresh(x)', NEW d \in DependsOn[x]
        PROVE  Finished(d)' /\ ~Held(d)' /\ d \notin todo'
            /\ jobs'[issue'[x].job].saw[d] = issue'[d].job
    <3>1. Finished(d) /\ ~Held(d) /\ jobs[issue[x].job].saw[d] = issue[d].job
      BY <1>7, <1>13, <2>1, <2>4 DEF UsedPresent
    <3>2. d \in Tasks
      BY DispatchConstants
    <3>3. d \notin wave
      BY <2>2, <3>1 DEF Finished, Fresh
    <3>4. ~Held(d)'
      BY <1>12, <3>1, <3>2, <3>3
    <3>. QED BY <1>7, <1>13, <3>1, <3>4
  <2>5. FirstStep'
    BY DEF FirstStep
  <2>. QED BY <2>3, <2>4, <2>5 DEF UsedPresent
<1>21. \A x \in Tasks : IssueJob(x)' /\ TaskMail(x)' /\ Claimed(x)'
  <2>1. \A x \in Tasks : TaskMail(x)'
    BY <1>0 DEF TaskMail
  <2>2. \A x \in Tasks : IssueJob(x)'
    BY <1>0 DEF IssueJob, Fresh, Jobs
  <2>3. \A x \in Tasks : Claimed(x)'
    BY <1>0 DEF Claimed
  <2>. QED BY <2>1, <2>2, <2>3
<1>. QED BY <1>15, <1>16, <1>17, <1>18, <1>19, <1>20, <1>21 DEF DispatchInv

\* The kernel answers an outcome: it ends the run, has nothing left, or releases a wave.
LEMMA StepAdvance == DispatchInv /\ Advance => DispatchInv'
<1>. SUFFICES ASSUME DispatchInv, Advance PROVE DispatchInv'
  OBVIOUS
<1>0. /\ Typed /\ TypeOK /\ StepFacts /\ Released /\ step.pc = "advance"
  BY DEF DispatchInv, Typed, Advance
<1>1. PICK t, done, failed, out :
          /\ t = step.task
          /\ done = IF step.arg = "done" THEN kern.done \union {t} ELSE kern.done
          /\ failed = IF step.arg = "failed" THEN kern.failed \union {t} ELSE kern.failed
          /\ out = kern.out \ {t}
  OBVIOUS
<1>2. \/ Stop /\ chain' = chain /\ kern' \in {kern, NoRun}
      \/ /\ kern.live /\ done = Tasks
         /\ kern' = [kern EXCEPT !.done = done, !.out = out]
         /\ step' = At("finalize", NoTask, 0, "")
         /\ UNCHANGED <<disk, daemon, shell, mail, queue, owned, todo, round, sig, counts>>
      \/ /\ kern.live
         /\ \E wave \in Waves(done, failed, out) :
               /\ kern' = [live |-> TRUE, done |-> done, failed |-> failed, out |-> out \union wave]
               /\ \E order \in SetToSeqs(wave) : queue' = queue \o order
         /\ step' = InWave
         /\ UNCHANGED <<disk, daemon, shell, mail, owned, todo, round, sig, counts>>
  BY <1>1, Zenon DEF Advance
<1>3. CASE Stop /\ chain' = chain /\ kern' \in {kern, NoRun}
  <2>1. /\ EndDriver /\ UNCHANGED <<issue, Written, jobs, stream, latest, resumed>>
        /\ run' \in {run, "closed"}
    BY <1>3 DEF Stop, CloseRun, shell, Written
  <2>. QED BY <1>0, <1>3, <2>1, DriverEnds DEF TypeOK
<1>4. CASE /\ kern.live /\ done = Tasks
           /\ kern' = [kern EXCEPT !.done = done, !.out = out]
           /\ step' = At("finalize", NoTask, 0, "")
           /\ UNCHANGED <<disk, daemon, shell, mail, queue, owned, todo, round, sig, counts>>
  <2>1. UNCHANGED <<run, issue, Written, jobs, stream, latest, inbox, verdicts, oracles, queue, owned,
                    todo, round, resumed>>
    BY <1>4 DEF disk, daemon, shell, mail, counts, Written
  <2>2. t \in Tasks /\ t \in kern.out /\ t \notin kern.done
    <3>1. t \in Tasks /\ Working(t)
      BY <1>0, <1>1 DEF StepFacts, Busy, Working
    <3>. QED BY <1>0, <1>4, <3>1 DEF Released, Held
  <2>3. step.arg = "done" /\ failed = kern.failed
    BY <1>0, <1>1, <1>4, <2>2 DEF StepFacts
  <2>4. /\ kern' \in KernelStates /\ kern'.live /\ kern'.done = done /\ kern'.failed = failed
        /\ kern'.out = (kern.out \ {t}) \union {}
    BY <1>0, <1>1, <1>4, <2>3 DEF Typed, KernelStates
  <2>5. step' \in Steps /\ step'.job = 0 /\ step'.pc = "finalize"
    BY <1>4 DEF At, Steps
  <2>6. queue' = queue \o <<>> /\ <<>> \in Seq(Tasks) /\ DOMAIN <<>> = {}
    <3>1. queue \in Seq(Tasks)
      BY <1>0 DEF Typed
    <3>. QED BY <2>1, <3>1
  <2>7. /\ \A i \in DOMAIN <<>> : <<>>[i] \in {}
        /\ \A i, j \in DOMAIN <<>> : <<>>[i] = <<>>[j] => i = j
    BY <2>6
  <2>8. /\ {} \in SUBSET Tasks
        /\ \A x \in {} : /\ x \notin done /\ x \notin failed /\ x \notin kern.out \ {t}
                         /\ DependsOn[x] \subseteq done
    OBVIOUS
  <2>9. step'.pc = "wave" \/ (step'.pc = "finalize" /\ done = Tasks)
    BY <1>4, <2>5
  <2>10. FoldsIn(t, done, failed, {}, <<>>)
    BY <1>0, <1>1, <1>4, <2>1, <2>4, <2>5, <2>6, <2>7, <2>8, <2>9 DEF FoldsIn
  <2>. QED BY <2>10, AdvanceStep
<1>5. CASE /\ kern.live
           /\ \E wave \in Waves(done, failed, out) :
                 /\ kern' = [live |-> TRUE, done |-> done, failed |-> failed,
                        out |-> out \union wave]
                 /\ \E order \in SetToSeqs(wave) : queue' = queue \o order
           /\ step' = InWave
           /\ UNCHANGED <<disk, daemon, shell, mail, owned, todo, round, sig, counts>>
  <2>1. PICK wave \in Waves(done, failed, out) :
            /\ kern' = [live |-> TRUE, done |-> done, failed |-> failed, out |-> out \union wave]
            /\ \E order \in SetToSeqs(wave) : queue' = queue \o order
    BY <1>5
  <2>2. PICK order \in SetToSeqs(wave) : queue' = queue \o order
    BY <2>1
  <2>3. /\ wave \in SUBSET Tasks
        /\ \A x \in wave : /\ x \notin done /\ x \notin failed /\ x \notin kern.out \ {t}
                           /\ DependsOn[x] \subseteq done
    BY <1>1, WaveIsReady
  <2>4. /\ order \in Seq(Tasks) /\ \A i \in DOMAIN order : order[i] \in wave
        /\ \A i, j \in DOMAIN order : order[i] = order[j] => i = j
    BY <2>3, OrderOfWave
  <2>5. UNCHANGED <<run, issue, Written, jobs, stream, latest, inbox, verdicts, oracles, owned, todo,
                    round, resumed>>
    BY <1>5 DEF disk, daemon, shell, mail, counts, Written
  <2>6. t \in Tasks /\ done \subseteq Tasks /\ failed \subseteq Tasks /\ out \subseteq Tasks
    BY <1>0, <1>1 DEF StepFacts, Busy, TypeOK
  <2>7. /\ kern' \in KernelStates /\ kern'.live /\ kern'.done = done /\ kern'.failed = failed
        /\ kern'.out = (kern.out \ {t}) \union wave
    BY <1>1, <2>1, <2>3, <2>6 DEF KernelStates
  <2>8. step' \in Steps /\ step'.job = 0 /\ step'.pc = "wave"
    BY <1>5, WaveStep
  <2>9. step'.pc = "wave" \/ (step'.pc = "finalize" /\ done = Tasks)
    BY <2>8
  <2>10. FoldsIn(t, done, failed, wave, order)
    BY <1>0, <1>1, <1>5, <2>2, <2>3, <2>4, <2>5, <2>7, <2>8, <2>9 DEF FoldsIn
  <2>. QED BY <2>10, AdvanceStep
<1>. QED BY <1>2, <1>3, <1>4, <1>5

-----------------------------------------------------------------------------
(* Every step *)

\* The steps with which a driver ends.
LEMMA StepEnds ==
    ASSUME DispatchInv,
           \/ Converge \/ (\E s \in Signatures : GiveUp(s)) \/ (\E t \in Tasks : MissingDep(t))
           \/ OnAbort \/ StepFails \/ OpenFails \/ ReplanFails \/ Crash \/ SealRefused
           \/ \E q \in Sealing : SealFails(q)
    PROVE  DispatchInv'
<1>0. run \in {"none", "open", "closed"}
  BY DEF DispatchInv, Typed, TypeOK
<1>1. CASE Converge \/ \E s \in Signatures : GiveUp(s)
  <2>1. /\ Stop /\ Written \subseteq Written' /\ kern' \in {kern, NoRun}
    <3>1. \A r : chain' \in Logged(chain, r) => Written \subseteq Written'
      BY LoggedKeeps DEF Written, Contents
    <3>2. SealReplan => Written \subseteq Written'
      BY LoggedKeeps DEF SealReplan, Written, Contents
    <3>3. chain' = chain => Written \subseteq Written'
      BY DEF Written
    <3>. QED BY <1>1, <3>1, <3>2, <3>3 DEF Converge, GiveUp
  <2>2. EndDriver /\ UNCHANGED <<issue, jobs, stream, latest, resumed>> /\ run' \in {run, "closed"}
    BY <2>1 DEF Stop, CloseRun, shell
  <2>. QED BY <1>0, <2>1, <2>2, DriverEnds
<1>2. CASE (\E t \in Tasks : MissingDep(t)) \/ OnAbort \/ StepFails \/ SealRefused
  <2>1. Teardown /\ resumed' = resumed /\ chain' = chain /\ run' \in {run, "closed"}
    BY <1>2 DEF MissingDep, OnAbort, StepFails, SealRefused, CloseRun
  <2>2. EndDriver /\ UNCHANGED <<issue, Written, jobs, stream, latest>> /\ kern' = NoRun
    BY <2>1 DEF Teardown, daemon, shell, Written
  <2>. QED BY <1>0, <2>1, <2>2, DriverEnds
<1>3. CASE OpenFails \/ ReplanFails \/ Crash
  <2>1. /\ EndDriver /\ UNCHANGED <<issue, Written, kern, jobs, stream, resumed>>
        /\ latest' \in {latest, {}} /\ run' \in {run, "closed"}
    BY <1>3 DEF Written, OpenFails, ReplanFails, Crash, disk, daemon, shell
  <2>. QED BY <1>0, <2>1, DriverEnds
<1>4. ASSUME NEW q \in Sealing, SealFails(q) PROVE DispatchInv'
  <2>1. /\ EndDriver /\ UNCHANGED <<issue, jobs, stream, resumed>> /\ kern' \in {kern, NoRun}
        /\ latest' \in {latest, {}} /\ run' \in {run, "closed"}
    BY <1>4 DEF SealFails, Teardown, daemon, shell
  <2>2. Written \subseteq Written'
    BY <1>4, SealKeeps DEF SealFails, Written, Contents
  <2>. QED BY <1>0, <2>1, <2>2, DriverEnds
<1>. QED BY <1>1, <1>2, <1>3, <1>4

LEMMA StepProcessOne == DispatchInv /\ ProcessOne => DispatchInv'
<1>. SUFFICES ASSUME DispatchInv, ProcessOne PROVE DispatchInv'
  OBVIOUS
<1>1. step.pc = "wave" /\ queue # <<>> /\ queue \in Seq(Tasks)
  BY DEF ProcessOne, DispatchInv, Typed
<1>2. Head(queue) \in Tasks
  BY <1>1
<1>3. \/ MissingDep(Head(queue))
      \/ /\ \/ SpawnOne(Head(queue)) \/ Reconcile(Head(queue))
            \/ ResumeOracle(Head(queue)) \/ FastForward(Head(queue))
         /\ queue' = Tail(queue) /\ UNCHANGED <<shell, todo, round, sig>>
  BY DEF ProcessOne
<1>4. CASE MissingDep(Head(queue))
  BY <1>2, <1>4, StepEnds
<1>. QED BY <1>1, <1>3, <1>4, StepSpawnOne, StepReconcile, StepResumeOracle, StepFastForward

LEMMA StepDriver == DispatchInv /\ Driver => DispatchInv'
<1>. SUFFICES ASSUME DispatchInv, Driver PROVE DispatchInv'
  OBVIOUS
<1>1. CASE \E t \in Tasks : OpenIssue(t) \/ ResetIssue(t)
  BY <1>1, StepReset
<1>2. CASE Launch \/ NextRound
  BY <1>2, StepLaunch
<1>3. CASE ProcessOne
  BY <1>3, StepProcessOne
<1>4. CASE WriteSpawned \/ SealOutput \/ WriteDone \/ WriteFailed
  BY <1>4, StepWriteSpawned, StepSealOutput, StepWriteDone, StepWriteFailed
<1>5. ASSUME NEW j \in inbox, OnResponse(j) PROVE DispatchInv'
  BY <1>5, StepResponse, EnvironmentStep
<1>6. CASE Gate \/ WriteVerdict \/ RetryTask \/ Advance
  BY <1>6, StepGate, StepWriteVerdict, StepRetry, StepAdvance
<1>7. ASSUME NEW v \in verdicts, OnVerdict(v) PROVE DispatchInv'
  BY <1>7, StepVerdict
<1>8. ASSUME NEW s \in Signatures,
             ReplanAll(s) \/ \E r \in Reopened : ReplanTargeted(s, r)
      PROVE  DispatchInv'
  BY <1>8, StepReplan
<1>9. CASE Converge \/ SealRefused \/ \E s \in Signatures : GiveUp(s)
  BY <1>9, StepEnds
<1>. QED BY <1>1, <1>2, <1>3, <1>4, <1>5, <1>6, <1>7, <1>8, <1>9 DEF Driver

\* A fresh workspace satisfies the invariant.
LEMMA DispatchInit == Init => DispatchInv
<1>. SUFFICES ASSUME Init PROVE DispatchInv
  OBVIOUS
<1>1. /\ run = "none" /\ issue = [t \in Tasks |-> Blank] /\ Written = {} /\ kern = NoRun
             /\ jobs = <<>>
      /\ stream = {} /\ latest = {} /\ inbox = {} /\ verdicts = {} /\ oracles = {} /\ step = Off
      /\ queue = <<>> /\ owned = {} /\ todo = {} /\ round = 0 /\ resumed = FALSE
  BY DEF Written, Init
<1>2. Off \in Steps /\ Off.pc = "off" /\ Off.task = NoTask /\ Off.job = 0
  BY DEF Off, At, Steps
<1>3. NoRun \in KernelStates /\ NoRun.live = FALSE /\ NoRun.done = {} /\ NoRun.failed = {}
          /\ NoRun.out = {}
  BY DEF NoRun, KernelStates
<1>4. Blank \in IssueRecords /\ Blank.st = "absent"
  BY DispatchConstants DEF Blank, IssueRecords, Statuses
<1>5. Typed
  <2>1. issue \in [Tasks -> IssueRecords]
    BY <1>1, <1>4
  <2>2. Len(jobs) = 0 /\ jobs \in Seq(JobRecords) /\ queue \in Seq(Tasks)
    BY <1>1
  <2>a. Len(jobs) <= MaxJobs /\ step.job \in 0 .. Len(jobs) /\ round \in 0 .. MaxReplans
    BY <1>1, <1>2, <2>2, DispatchConstants
  <2>b. stream \union latest \union inbox \union owned \subseteq Jobs
    BY <1>1
  <2>3. TypeOK
    BY <1>1, <1>2, <1>3, <2>1, <2>a, <2>b DEF TypeOK
  <2>. QED BY <1>1, <1>2, <1>3, <2>2, <2>3 DEF Typed
<1>6. \A t : ~Queued(t) /\ ~Working(t) /\ ~Awaited(t) /\ ~Judged(t)
  <2>1. \A t : ~Queued(t)
    BY <1>1 DEF Queued
  <2>2. \A t : ~Working(t)
    BY <1>1, <1>2 DEF Working, Busy
  <2>. QED BY <1>1, <2>1, <2>2 DEF Awaited, Judged
<1>7. HeldOnce
  BY <1>1, <1>6 DEF HeldOnce, QueueOnce, JudgedOnce
<1>8. Phases /\ Answered
  BY <1>1, <1>2 DEF Phases, Answered
<1>9. StepFacts /\ FirstRun
  BY <1>1, <1>2 DEF StepFacts, FirstRun, Busy
<1>10. Released
  BY <1>1, <1>3, <1>6 DEF Released, Held
<1>11. \A t \in Tasks : IssueJob(t) /\ TaskMail(t) /\ Claimed(t)
  BY <1>1, <1>4 DEF IssueJob, Fresh, TaskMail, Claimed
<1>. QED BY <1>5, <1>7, <1>8, <1>9, <1>10, <1>11 DEF DispatchInv

LEMMA DispatchStep == DispatchInv /\ [Next]_vars => DispatchInv'
<1>. SUFFICES ASSUME DispatchInv, [Next]_vars PROVE DispatchInv'
  OBVIOUS
<1>1. CASE StartRun \/ ResumeRun
  BY <1>1, StepBegin
<1>2. CASE Driver
  BY <1>2, StepDriver
<1>3. CASE \/ OpenFails \/ ReplanFails \/ StepFails \/ OnAbort \/ Crash
           \/ \E q \in Sealing : SealFails(q)
  BY <1>3, StepEnds
<1>4. CASE \/ \E o \in oracles, ok \in BOOLEAN : OracleEnds(o, ok)
           \/ \E j \in Jobs : JobExits(j) \/ \E ans \in Answers : JobAnswers(j, ans)
           \/ \E j \in stream : Ingest(j)
           \/ KernelLost \/ Boot \/ UNCHANGED vars
  BY <1>4, EnvironmentStep
<1>. QED BY <1>1, <1>2, <1>3, <1>4 DEF Next

\* In every state a run can reach, over crashes, resumes and re-plans, the driver holds
\* each task in one place, and the issues, the chain and the kernel agree with it.
THEOREM DispatchInvariant == Spec => []DispatchInv
<1>1. DispatchInv /\ [Next]_vars => DispatchInv'
  BY DispatchStep
<1>. QED BY <1>1, DispatchInit, PTL DEF Spec

\* What an issue file claims (absorb, handle_verdict) is in the dispatch chain,
\* wherever the shell died and whichever write of an append failed; and all of it can
\* be read but the two records at most of a last line that was written in two halves.
THEOREM ClaimsAlwaysSealed == Spec => []SealedBeforeClaimed
<1>1. DispatchInv /\ ChainShape(chain) => SealedBeforeClaimed
  BY DEF DispatchInv, Claimed, ChainShape, SealedBeforeClaimed
<1>2. Init => ChainShape(chain)
  BY FS_EmptySet DEF Init, ChainShape
<1>3. Spec => []ChainShape(chain)
  BY <1>2, ShapeStep, PTL DEF Spec
<1>. QED BY <1>1, <1>3, DispatchInvariant, PTL

\* advance reports a task only while the kernel has it in flight, so each release is
\* answered at most once.
THEOREM OutcomesReportedOnce == Spec => []OneOutcome
<1>1. DispatchInv => OneOutcome
  BY DEF DispatchInv, StepFacts, Released, Held, Working, Busy, OneOutcome
<1>. QED BY <1>1, DispatchInvariant, PTL

\* Without a resume, Done of a task with an oracle means a passing verdict (gate_or_advance).
THEOREM GateAlwaysHeld == Spec => []GateHeld
<1>1. DispatchInv => GateHeld
  BY DEF DispatchInv, FirstRun, FirstStep, GateHeld
<1>. QED BY <1>1, DispatchInvariant, PTL

\* spawn_one composes from finished, sealed outputs; a drained run that was not resumed
\* used the outputs its dependencies have now, however many rounds were re-planned.
THEOREM InputsAlwaysSound == Spec => []InputsSound
<1>1. ASSUME DispatchInv PROVE InputsSound
  <2>1. TypeOK /\ StepFacts /\ Released /\ FirstRun /\ Phases /\ \A d \in Tasks : Claimed(d)
    BY <1>1 DEF DispatchInv, Typed
  <2>2. \A t \in Tasks : DependsOn[t] \subseteq Tasks
    BY DispatchConstants
  <2>3. DependenciesFinished
    <3>. SUFFICES ASSUME step.pc = "spawned", NEW d \in DependsOn[step.task]
                  PROVE  Finished(d) /\ OutputRecord(d, issue[d].job) \in Written
      BY DEF DependenciesFinished, Finished
    <3>1. step.task \in Tasks /\ Held(step.task)
      BY <2>1 DEF StepFacts, Busy, Held, Working
    <3>2. Finished(d) /\ d \in Tasks
      BY <2>1, <2>2, <3>1 DEF Released
    <3>. QED BY <2>1, <3>2 DEF Claimed, Finished
  <2>4. FreshOutputs
    <3>. SUFFICES ASSUME step.pc = "finalize", ~resumed, NEW t \in Tasks, NEW d \in DependsOn[t]
                  PROVE  jobs[issue[t].job].saw[d] = issue[d].job
      BY DEF FreshOutputs
    <3>1. ~Fresh(t) /\ todo = {}
      BY <2>1 DEF Phases, Finished, Fresh
    <3>2. UsedPresent(t)
      BY <2>1 DEF FirstRun
    <3>. QED BY <3>1, <3>2 DEF UsedPresent
  <2>. QED BY <2>1, <2>3, <2>4 DEF InputsSound
<1>. QED BY <1>1, DispatchInvariant, PTL

-----------------------------------------------------------------------------
(* McpProxy: the pending map holds the calls that wait, and no other *)

\* A reply that arrived took its call out of the map, and only a dispatched call
\* gets one: so a call that returns with its reply leaves no entry behind.
RepliedLeft == \A c \in replied : c \notin pending /\ call[c].at # "idle"

\* A call that waits was sent to some subscriber.
SentSomewhere == \A c \in Calls : call[c].at = "waiting" => call[c].to \in Sessions

MapSound == PendingIsLive /\ NoOrphans /\ RepliedLeft /\ SentSomewhere

ProxyInv == ProxyTypeOK /\ MapSound

\* ProxyInv holds at the start.
LEMMA MapStart == ProxyInit => ProxyInv
<1>. SUFFICES ASSUME ProxyInit PROVE ProxyInv
  OBVIOUS
<1>1. NoSession \in SessionType
  BY DEF NoSession, SessionType
<1>2. ProxyTypeOK
  BY <1>1, ProxyConstants DEF ProxyInit, ProxyTypeOK, Sessions, CallType
<1>. QED
  BY <1>2 DEF ProxyInit, ProxyInv, MapSound, PendingIsLive, NoOrphans, RepliedLeft, SentSomewhere

\* One session changes and stays a session.
LEMMA SessionChange ==
    ASSUME ProxyTypeOK, NEW s \in Sessions, NEW r \in SessionType,
           session' = [session EXCEPT ![s] = r],
           UNCHANGED <<call, replied, generation>>, pending' \subseteq pending,
           sink' \in 0 .. MaxSessions
    PROVE  ProxyTypeOK'
  BY DEF ProxyTypeOK

\* Every step keeps the types.
LEMMA ProxyType == ProxyTypeOK /\ [ProxyNext]_proxy_vars => ProxyTypeOK'
<1>. SUFFICES ASSUME ProxyTypeOK, [ProxyNext]_proxy_vars PROVE ProxyTypeOK'
  OBVIOUS
<1>c. \A s \in Sessions : session[s] \in SessionType
  BY DEF ProxyTypeOK
<1>1. ASSUME NEW c \in Calls, Dispatch(c) PROVE ProxyTypeOK'
  BY <1>1 DEF Dispatch, ProxyTypeOK, CallType
<1>2. ASSUME NEW c \in Calls, Send(c) PROVE ProxyTypeOK'
  <2>1. CASE Listening
    <3>1. sink \in Sessions
      BY <2>1 DEF Listening, ProxyTypeOK, Sessions
    <3>2. Append(session[sink].chan, c) \in Seq(Calls)
      BY <1>c, <3>1 DEF SessionType
    <3>3. [session[sink] EXCEPT !.chan = Append(@, c)] \in SessionType
      BY <1>c, <3>1, <3>2, Zenon DEF SessionType
    <3>4. session' \in [Sessions -> SessionType]
      BY <1>2, <2>1, <3>1, <3>3 DEF Send, ProxyTypeOK
    <3>5. [call[c] EXCEPT !.at = "waiting", !.to = sink] \in CallType
      BY Zenon DEF ProxyTypeOK, CallType
    <3>. QED BY <1>2, <2>1, <3>1, <3>4, <3>5 DEF Send, ProxyTypeOK
  <2>2. CASE ~Listening
    BY <1>2, <2>2 DEF Send, ProxyTypeOK, CallType
  <2>. QED BY <2>1, <2>2
<1>3. ASSUME NEW c \in Calls, Offline(c) PROVE ProxyTypeOK'
  BY <1>3 DEF Offline, Withdraw, Return, ProxyTypeOK, CallType
<1>4. ASSUME NEW c \in Calls, Receive(c) PROVE ProxyTypeOK'
  <2>1. \A w \in {"reply", "disconnected"} :
            [call[c] EXCEPT !.at = "returned", !.with = w] \in CallType
    BY DEF ProxyTypeOK, CallType
  <2>. QED BY <1>4, <2>1 DEF Receive, Return, ProxyTypeOK
<1>b. ASSUME NEW s \in Sessions, AttachBump(s) PROVE ProxyTypeOK'
  <2>1. [session[s] EXCEPT !.phase = "bumped", !.alive = TRUE] \in SessionType
    BY <1>c, Zenon DEF SessionType
  <2>. QED BY <1>b, <2>1, ProxyConstants DEF AttachBump, ProxyTypeOK, Sessions
<1>5. ASSUME NEW s \in Sessions, AttachInstall(s) PROVE ProxyTypeOK'
  <2>1. [session[s] EXCEPT !.phase = "installed"] \in SessionType
    BY <1>c, Zenon DEF SessionType
  <2>2. sink' \in 0 .. MaxSessions
    BY <1>5, ProxyConstants DEF AttachInstall, Sessions
  <2>. QED BY <1>5, <2>1, <2>2, SessionChange DEF AttachInstall, ProxyTypeOK
<1>6. ASSUME NEW s \in Sessions, AttachFails(s) PROVE ProxyTypeOK'
  <2>1. [session[s] EXCEPT !.phase = "on"] \in SessionType
    BY <1>c, Zenon DEF SessionType
  <2>. QED BY <1>6, <2>1, SessionChange DEF AttachFails, FailPending, ProxyTypeOK
<1>7. ASSUME NEW s \in Sessions, WriterWrites(s) PROVE ProxyTypeOK'
  <2>1. Tail(session[s].chan) \in Seq(Calls) /\ Head(session[s].chan) \in Calls
    BY <1>7, <1>c DEF WriterWrites, SessionType
  <2>2. session[s].asked \union {Head(session[s].chan)} \in SUBSET Calls
    BY <1>c, <2>1 DEF SessionType
  <2>3. [session[s] EXCEPT !.chan = Tail(@), !.asked = @ \union {Head(session[s].chan)}]
            \in SessionType
    BY <1>c, <2>1, <2>2, Zenon DEF SessionType
  <2>. QED BY <1>7, <2>3, SessionChange DEF WriterWrites, ProxyTypeOK
<1>8. ASSUME NEW s \in Sessions, WriterExits(s) PROVE ProxyTypeOK'
  <2>. DEFINE p == IF generation = s THEN "clearing" ELSE "failing"
  <2>1. <<>> \in Seq(Calls) /\ p \in {"clearing", "failing"}
    OBVIOUS
  <2>. HIDE DEF p
  <2>2. [session[s] EXCEPT !.phase = p, !.chan = <<>>] \in SessionType
    BY <1>c, <2>1, Zenon DEF SessionType
  <2>3. session' = [session EXCEPT ![s] = [session[s] EXCEPT !.phase = p, !.chan = <<>>]]
    BY <1>8 DEF WriterExits, p
  <2>. QED BY <1>8, <2>2, <2>3, SessionChange DEF WriterExits, ProxyTypeOK
<1>9. ASSUME NEW s \in Sessions, WriterClears(s) PROVE ProxyTypeOK'
  <2>1. [session[s] EXCEPT !.phase = "failing"] \in SessionType
    BY <1>c, Zenon DEF SessionType
  <2>2. sink' \in 0 .. MaxSessions
    BY <1>9, ProxyConstants DEF WriterClears
  <2>. QED BY <1>9, <2>1, <2>2, SessionChange DEF WriterClears
<1>10. ASSUME NEW s \in Sessions, WriterFails(s) PROVE ProxyTypeOK'
  <2>1. [session[s] EXCEPT !.phase = "done"] \in SessionType
    BY <1>c, Zenon DEF SessionType
  <2>. QED BY <1>10, <2>1, SessionChange DEF WriterFails, FailPending, ProxyTypeOK
<1>11. ASSUME NEW s \in Sessions, NEW c \in Calls, ReplReplies(s, c) PROVE ProxyTypeOK'
  <2>1. session[s].asked \ {c} \in SUBSET Calls /\ session[s].replies \union {c} \in SUBSET Calls
    BY <1>c DEF SessionType
  <2>2. [session[s] EXCEPT !.asked = @ \ {c}, !.replies = @ \union {c}] \in SessionType
    BY <1>c, <2>1, Zenon DEF SessionType
  <2>. QED BY <1>11, <2>2, SessionChange DEF ReplReplies, ProxyTypeOK
<1>12. ASSUME NEW s \in Sessions, NEW c \in Calls, ResolveMcp(s, c) PROVE ProxyTypeOK'
  <2>1. session[s].replies \ {c} \in SUBSET Calls
    BY <1>c DEF SessionType
  <2>2. [session[s] EXCEPT !.replies = @ \ {c}] \in SessionType
    BY <1>c, <2>1, Zenon DEF SessionType
  <2>3. session' \in [Sessions -> SessionType]
    BY <1>12, <2>2 DEF ResolveMcp, ProxyTypeOK
  <2>4. replied' \subseteq Calls /\ pending' \subseteq Calls
    BY <1>12 DEF ResolveMcp, ProxyTypeOK
  <2>. QED BY <1>12, <2>3, <2>4 DEF ResolveMcp, ProxyTypeOK
<1>13. ASSUME NEW s \in Sessions, ReplDies(s) PROVE ProxyTypeOK'
  <2>1. [session[s] EXCEPT !.alive = FALSE, !.asked = {}] \in SessionType
    BY <1>c, Zenon DEF SessionType
  <2>. QED BY <1>13, <2>1, SessionChange DEF ReplDies, ProxyTypeOK
<1>14. CASE UNCHANGED proxy_vars
  BY <1>14 DEF proxy_vars, ProxyTypeOK
<1>. QED
  BY <1>1, <1>2, <1>3, <1>4, <1>5, <1>6, <1>7, <1>8, <1>9, <1>10, <1>11, <1>12, <1>13,
     <1>14, <1>b DEF ProxyNext

\* A step that leaves calls and replies alone, adds nothing to the map, and takes a
\* session to an end only by emptying the map, keeps the rest of the invariant.
LEMMA SessionStep ==
    ASSUME ProxyInv, call' = call, replied' = replied, pending' \subseteq pending,
           \A s \in Sessions :
              session'[s].phase \in {"none", "done"} =>
                  session[s].phase \in {"none", "done"} \/ pending' = {}
    PROVE  MapSound'
  BY DEF ProxyTypeOK, ProxyInv, MapSound, PendingIsLive, NoOrphans, RepliedLeft, SentSomewhere

\* Every step keeps ProxyInv: the map is emptied before a writer is done, and a call
\* leaves the map before or as it returns.
LEMMA ProxyStep == ProxyInv /\ [ProxyNext]_proxy_vars => ProxyInv'
<1>. SUFFICES ASSUME ProxyInv, [ProxyNext]_proxy_vars PROVE MapSound'
  BY ProxyType DEF ProxyInv
<1>. USE DEF ProxyInv
<1>1. ASSUME NEW c \in Calls, Dispatch(c) PROVE MapSound'
  <2>1. \A d \in Calls : call'[d] = IF d = c THEN [call[c] EXCEPT !.at = "inserted"] ELSE call[d]
    BY <1>1 DEF Dispatch, ProxyTypeOK, CallType
  <2>2. call'[c].at = "inserted" /\ c \notin replied
    BY <1>1, <2>1 DEF Dispatch, ProxyTypeOK, CallType, MapSound, RepliedLeft
  <2>. QED BY <1>1, <2>1, <2>2 DEF Dispatch, ProxyTypeOK, MapSound, PendingIsLive, NoOrphans,
           RepliedLeft, SentSomewhere
<1>2. ASSUME NEW c \in Calls, Send(c) PROVE MapSound'
  <2>1. CASE Listening
    <3>1. \A d \in Calls : call'[d] = IF d = c THEN [call[c] EXCEPT !.at = "waiting", !.to = sink]
                                               ELSE call[d]
      BY <1>2, <2>1 DEF Send, ProxyTypeOK, SessionType
    <3>2. call'[c].at = "waiting" /\ call'[c].to = sink
      BY <3>1 DEF ProxyTypeOK, CallType
    <3>3. sink \in Sessions /\ session[sink].phase \notin {"none", "done"}
      BY <2>1 DEF Listening, ProxyTypeOK, Sessions
    <3>4. \A s \in Sessions : session'[s].phase = session[s].phase
      <4>1. session' = [session EXCEPT ![sink].chan = Append(@, c)]
        BY <1>2, <2>1 DEF Send
      <4>2. session[sink] \in SessionType
        BY <3>3 DEF ProxyTypeOK
      <4>. QED BY <3>3, <4>1, <4>2 DEF ProxyTypeOK, SessionType
    <3>. QED
      BY <1>2, <3>1, <3>2, <3>3, <3>4
      DEF Send, ProxyTypeOK, Sessions, MapSound, PendingIsLive, NoOrphans, RepliedLeft,
          SentSomewhere
  <2>2. CASE ~Listening
    BY <1>2, <2>2 DEF Send, ProxyTypeOK, CallType, MapSound, PendingIsLive, NoOrphans, RepliedLeft,
        SentSomewhere
  <2>. QED BY <2>1, <2>2
<1>3. ASSUME NEW c \in Calls, Offline(c) PROVE MapSound'
  BY <1>3 DEF Offline, Withdraw, Return, ProxyTypeOK, CallType, MapSound, PendingIsLive, NoOrphans,
      RepliedLeft, SentSomewhere
<1>4. ASSUME NEW c \in Calls, Receive(c) PROVE MapSound'
  <2>1. /\ c \in replied \/ c \notin pending
        /\ UNCHANGED <<replied, pending, generation, sink, session>>
    BY <1>4 DEF Receive
  <2>2. call'[c].at = "returned" /\ \A d \in Calls : d # c => call'[d] = call[d]
    BY <1>4 DEF Receive, Return, ProxyTypeOK, CallType
  <2>. QED
    BY <2>1, <2>2
    DEF ProxyTypeOK, MapSound, PendingIsLive, NoOrphans, RepliedLeft, SentSomewhere
<1>b. ASSUME NEW s \in Sessions, AttachBump(s) PROVE MapSound'
  BY <1>b, SessionStep DEF AttachBump, ProxyTypeOK, SessionType
<1>5. ASSUME NEW s \in Sessions, AttachInstall(s) PROVE MapSound'
  BY <1>5, SessionStep DEF AttachInstall, ProxyTypeOK, SessionType
<1>6. ASSUME NEW s \in Sessions, AttachFails(s) PROVE MapSound'
  BY <1>6, SessionStep DEF AttachFails, FailPending, ProxyTypeOK, SessionType
<1>7. ASSUME NEW s \in Sessions, WriterWrites(s) PROVE MapSound'
  BY <1>7, SessionStep DEF WriterWrites, ProxyTypeOK, SessionType
<1>8. ASSUME NEW s \in Sessions, WriterExits(s) PROVE MapSound'
  BY <1>8, SessionStep DEF WriterExits, ProxyTypeOK, SessionType
<1>9. ASSUME NEW s \in Sessions, WriterClears(s) PROVE MapSound'
  BY <1>9, SessionStep DEF WriterClears, ProxyTypeOK, SessionType
<1>10. ASSUME NEW s \in Sessions, WriterFails(s) PROVE MapSound'
  BY <1>10, SessionStep DEF WriterFails, FailPending, ProxyTypeOK, SessionType
<1>11. ASSUME NEW s \in Sessions, NEW c \in Calls, ReplReplies(s, c)
       PROVE MapSound'
  BY <1>11, SessionStep DEF ReplReplies, ProxyTypeOK, SessionType
<1>12. ASSUME NEW s \in Sessions, NEW c \in Calls, ResolveMcp(s, c)
       PROVE MapSound'
  <2>1. \A t \in Sessions : session'[t].phase = session[t].phase
    BY <1>12 DEF ResolveMcp, ProxyTypeOK, SessionType
  <2>. QED
    BY <1>12, <2>1 DEF ResolveMcp, ProxyTypeOK, Sessions, MapSound, PendingIsLive, NoOrphans,
        RepliedLeft, SentSomewhere
<1>13. ASSUME NEW s \in Sessions, ReplDies(s) PROVE MapSound'
  BY <1>13, SessionStep DEF ReplDies, ProxyTypeOK, SessionType
<1>14. CASE UNCHANGED proxy_vars
  BY <1>14 DEF proxy_vars, MapSound, PendingIsLive, NoOrphans, RepliedLeft, SentSomewhere
<1>. QED
  BY <1>1, <1>2, <1>3, <1>4, <1>5, <1>6, <1>7, <1>8, <1>9, <1>10, <1>11, <1>12, <1>13,
     <1>14, <1>b DEF ProxyNext

\* The pending map holds live calls only, and none that was sent to a subscriber whose
\* writer thread is over, for any calls and any number of subscribers that attach,
\* answer, die and are replaced in any order.
THEOREM PendingAlwaysSound == ProxySpec => []PendingSound
<1>1. ProxyInv => PendingSound
  BY DEF ProxyInv, MapSound, PendingSound
<1>. QED BY <1>1, MapStart, ProxyStep, PTL DEF ProxySpec

=============================================================================
