-------------------------- MODULE StreamPublisher --------------------------
(***************************************************************************)
(* The event stream publisher: one task tails the SEAL chain files and the *)
(* journal bus, filters by scope and pushes batches to the backend; a      *)
(* cursor file remembers how far each chain has been settled.              *)
(* Source: crates/orkia-stream/src (lib.rs, batch.rs, cursor.rs, scope.rs, *)
(* auth.rs, transport.rs, sources/seal.rs).                                *)
(*                                                                         *)
(* Byte offsets are line numbers, every line is complete and chains only   *)
(* grow.  The backend is external: it takes a batch once per idempotency   *)
(* key.                                                                    *)
(***************************************************************************)
EXTENDS Naturals, Sequences, FiniteSets, SequencesExt, Filter

CONSTANTS
    Chains, Bus,    \* the chain ids; the journal bus as a source of lines
    Classes,        \* what a chain line may be: a scope, or "bad"
    MaxEvents,      \* batch_max_events
    QueueCap,       \* JOURNAL_QUEUE_CAP
    HeldCap,        \* held_cap
    Retries,        \* MAX_RETRIES
    MaxRecords,     \* bound: records per chain
    MaxJournal,     \* bound: envelopes on the bus
    MaxChanges,     \* bound: logins, pauses, shutdowns
    MaxFaults       \* bound: crashes, refusals, lost answers, failed saves

ASSUME StreamConstants ==
    /\ Bus \notin Chains /\ IsFiniteSet(Chains)
    /\ Classes \subseteq {"public", "team", "private", "bad"}
    /\ {MaxEvents, QueueCap, HeldCap, Retries} \subseteq Nat \ {0}
    /\ {MaxRecords, MaxJournal, MaxChanges, MaxFaults} \subseteq Nat

VARIABLES
    file,       \* file[c]: the lines of c's seal.jsonl
    saved,      \* the cursor file: lines settled, per chain
    flag,       \* paused.flag exists
    auth,       \* "none", "bearer" (no workspace in the session) or "session"
    team,       \* member of a team
    pc,         \* where run is; "off" when no task runs
    cancel, paused,
    offset,     \* SealSource: lines read, per chain
    cursor,     \* SealCursor in memory
    events,     \* what the last poll returned, not yet processed
    queue,      \* the internal journal queue
    pending, first, held,   \* Batcher; first: first_event is set
    batch, attempt, keyed,  \* the push under way; keyed: the backend has seen its key
    backend,    \* lines the backend took, in order
    ledger      \* what was turned away, whether lines may be sent again, the counters

account == <<auth, team>>
control == <<cancel, paused, flag>>
source == <<offset, events, queue>>
batcher == <<pending, first, held>>
push == <<batch, attempt, keyed>>
stream_vars == <<file, saved, account, pc, control, cursor, source, batcher, push, backend, ledger>>

Line(c, n, s) == [src |-> c, n |-> n, scope |-> s]
Rec(c, n) == Line(c, n, file[c][n])     \* record n of chain c
Zero == [c \in Chains |-> 0]
Empty == [lines |-> <<>>, adv |-> Zero]

StreamInit ==
    /\ file = [c \in Chains |-> <<>>]
    /\ saved = Zero /\ flag = FALSE
    /\ auth = "session" /\ team = FALSE
    /\ pc = "off" /\ cancel = FALSE /\ paused = FALSE
    /\ offset = Zero /\ cursor = Zero /\ events = <<>> /\ queue = <<>>
    /\ pending = Empty /\ first = FALSE /\ held = <<>>
    /\ batch = Empty /\ attempt = 0 /\ keyed = FALSE
    /\ backend = <<>>
    /\ ledger = [withheld |-> {}, unnamed |-> {}, refused |-> {}, again |-> FALSE,
                 journal |-> 0, changes |-> 0, faults |-> 0]

Change ==
    /\ ledger.changes < MaxChanges
    /\ ledger' = [ledger EXCEPT !.changes = @ + 1]

Faulted(h) == [h EXCEPT !.faults = @ + 1]

-----------------------------------------------------------------------------
(* Outside: the chains, the session, the user *)

\* SealChain::append by any process; SealChain has the two writes it makes, and
\* tail_chain waits for the newline
AppendRecord(c, s) ==
    /\ Len(file[c]) < MaxRecords
    /\ file' = [file EXCEPT ![c] = Append(@, s)]
    /\ UNCHANGED <<saved, account, pc, control, cursor, source, batcher, push, backend, ledger>>

Relogin(a, t) ==
    /\ <<a, t>> # account /\ Change
    /\ auth' = a /\ team' = t
    /\ UNCHANGED <<file, saved, pc, control, cursor, source, batcher, push, backend>>

Pause ==
    /\ pc # "off" /\ ~flag /\ Change
    /\ flag' = TRUE /\ paused' = TRUE
    /\ UNCHANGED <<file, saved, account, pc, cancel, cursor, source, batcher, push, backend>>

Resume ==
    /\ pc # "off" /\ paused /\ Change
    /\ flag' = FALSE /\ paused' = FALSE
    /\ UNCHANGED <<file, saved, account, pc, cancel, cursor, source, batcher, push, backend>>

-----------------------------------------------------------------------------
(* start, shutdown, the end of the process *)

Start ==
    /\ pc = "off" /\ auth # "none"
    /\ pc' = "poll"
    /\ paused' = flag /\ cancel' = FALSE
    /\ cursor' = saved /\ offset' = saved
    /\ UNCHANGED <<file, saved, account, flag, events, queue, batcher, push, backend, ledger>>

Shutdown ==
    /\ pc # "off" /\ ~cancel /\ Change
    /\ cancel' = TRUE
    /\ UNCHANGED <<file, saved, account, pc, paused, flag, cursor, source, batcher, push, backend>>

\* memory is gone; what was pushed and not saved will be pushed again
Gone ==
    /\ pc' = "off" /\ cancel' = FALSE /\ paused' = FALSE
    /\ offset' = Zero /\ cursor' = Zero /\ events' = <<>> /\ queue' = <<>>
    /\ pending' = Empty /\ first' = FALSE /\ held' = <<>>
    /\ batch' = Empty /\ attempt' = 0 /\ keyed' = FALSE

\* shutdown's timeout, after which the process exits
ShutdownTimesOut ==
    /\ pc # "off" /\ cancel
    /\ Gone
    /\ ledger' = [ledger EXCEPT !.again = TRUE]
    /\ UNCHANGED <<file, saved, account, flag, backend>>

Crash ==
    /\ pc # "off" /\ ledger.faults < MaxFaults
    /\ Gone
    /\ ledger' = [Faulted(ledger) EXCEPT !.again = TRUE]
    /\ UNCHANGED <<file, saved, account, flag, backend>>

-----------------------------------------------------------------------------
(* ScopeGate::decide and the two process functions *)

\* mutant: what declares no known scope is published
MutDecide(s) == auth # "none" /\ (s = "team" => team)

Decide(s) ==
    \/ s = "public" /\ auth # "none"
    \/ s = "team" /\ auth # "none" /\ team

\* mutant: the newest line goes first
MutAddLine(l) == [lines |-> <<l>> \o pending.lines, adv |-> [pending.adv EXCEPT ![l.src] = l.n]]

\* Batch::add_seal_advance: one advance per chain, the latest
AddLine(l) ==
    [lines |-> Append(pending.lines, l), adv |-> [pending.adv EXCEPT ![l.src] = l.n]]
NoteDropped(l) == [lines |-> pending.lines, adv |-> [pending.adv EXCEPT ![l.src] = l.n]]

\* process_seal
ProcessSeal ==
    LET l == Head(events) IN
    /\ pc = "seal" /\ events # <<>>
    /\ events' = Tail(events)
    /\ \/ /\ ~Decide(l.scope)
          /\ pending' = NoteDropped(l)
          /\ ledger' = [ledger EXCEPT !.withheld = @ \union {l}]
          /\ UNCHANGED first
       \/ /\ Decide(l.scope) /\ auth # "session"
          /\ ledger' = [ledger EXCEPT !.unnamed = @ \union {l}]
          /\ UNCHANGED <<pending, first>>
       \/ /\ Decide(l.scope) /\ auth = "session"
          /\ pending' = AddLine(l)
          /\ first' = TRUE
          /\ UNCHANGED ledger
    /\ UNCHANGED <<file, saved, account, pc, control, cursor, offset, queue, held, push, backend>>

\* journal_pump: the envelope is dropped when the queue is full
PumpJournal(s) ==
    /\ pc # "off" /\ ~cancel /\ ledger.journal < MaxJournal
    /\ ledger' = [ledger EXCEPT !.journal = @ + 1]
    /\ queue' = IF Len(queue) < QueueCap
                  THEN Append(queue, Line(Bus, ledger.journal + 1, s)) ELSE queue
    /\ UNCHANGED <<file, saved, account, pc, control, cursor, offset, events, batcher, push,
                   backend>>

\* drain_journal: one envelope per round, thrown away while paused
DrainJournal ==
    /\ pc = "seal" /\ events = <<>>
    /\ pc' = "check"
    /\ queue' = IF queue = <<>> THEN queue ELSE Tail(queue)
    /\ IF queue # <<>> /\ ~paused /\ Decide(Head(queue).scope) /\ auth = "session"
         THEN /\ pending' = [pending EXCEPT !.lines = Append(@, Head(queue))]
              /\ first' = TRUE
         ELSE UNCHANGED <<pending, first>>
    /\ UNCHANGED <<file, saved, account, control, cursor, offset, events, held, push, backend,
                   ledger>>

-----------------------------------------------------------------------------
(* run: one round polls, drains, perhaps flushes *)

\* tail_chain: the lines beyond the offset that parse
Unread(c) == {Rec(c, n) : n \in {n \in offset[c] + 1 .. Len(file[c]) : file[c][n] # "bad"}}

\* the lines of a chain together and in the order of the file
ChainByChain(s) ==
    \A i, j \in DOMAIN s :
        i < j /\ s[i].src = s[j].src =>
            s[i].n < s[j].n /\ \A k \in i .. j : s[k].src = s[i].src

\* SealSource::poll; the chains come in any order
Poll ==
    /\ pc = "poll" /\ ~cancel
    /\ pc' = "seal"
    /\ IF paused THEN UNCHANGED <<events, offset>>
       ELSE /\ \E s \in SetToSeqs(UNION {Unread(c) : c \in Chains}) :
                  ChainByChain(s) /\ events' = s
            /\ offset' = [c \in Chains |-> Len(file[c])]
    /\ UNCHANGED <<file, saved, account, control, cursor, queue, batcher, push, backend, ledger>>

HasPending == pending # Empty \/ held # <<>>

\* should_flush: at the latest when the interval since first_event has passed
MustFlush == held # <<>> \/ Len(pending.lines) >= MaxEvents
MayFlush == MustFlush \/ first

\* Batcher::take
TakeBatch ==
    IF held # <<>>
      THEN batch' = Head(held) /\ held' = Tail(held) /\ UNCHANGED <<pending, first>>
      ELSE batch' = pending /\ pending' = Empty /\ first' = FALSE /\ UNCHANGED held

\* mutant: a batch that is not full is not flushed
MutFlush ==
    /\ pc = "check" /\ MustFlush
    /\ pc' = "push" /\ TakeBatch /\ attempt' = 0 /\ keyed' = FALSE
    /\ UNCHANGED <<file, saved, account, control, cursor, source, backend, ledger>>

Flush ==
    /\ pc = "check" /\ MayFlush
    /\ pc' = "push" /\ TakeBatch /\ attempt' = 0 /\ keyed' = FALSE
    /\ UNCHANGED <<file, saved, account, control, cursor, source, backend, ledger>>

NoFlush ==
    /\ pc = "check" /\ ~MustFlush
    /\ pc' = "poll"
    /\ UNCHANGED <<file, saved, account, control, cursor, source, batcher, push, backend, ledger>>

\* the loop ends: one last batch, whose outcome nobody looks at
LastFlush ==
    /\ pc = "poll" /\ cancel
    /\ IF HasPending THEN pc' = "last" /\ TakeBatch
                     ELSE pc' = "done" /\ UNCHANGED <<batcher, batch>>
    /\ attempt' = 0 /\ keyed' = FALSE
    /\ UNCHANGED <<file, saved, account, control, cursor, source, backend, ledger>>

-----------------------------------------------------------------------------
(* HttpClient::push_batch and what flush_batch makes of its outcome *)

Pushing == pc \in {"push", "last"}
Asks == Pushing /\ batch.lines # <<>> /\ auth # "none"

\* the backend takes the lines under the key of this push
Taken(lines) == IF keyed THEN backend ELSE backend \o lines

Advanced == [c \in Chains |-> IF batch.adv[c] > 0 THEN batch.adv[c] ELSE cursor[c]]

\* Accepted and Dropped: the cursor advances over the batch and is saved
Settle(h) ==
    /\ batch' = Empty /\ attempt' = 0 /\ keyed' = FALSE
    /\ IF pc = "last"
         THEN pc' = "done" /\ ledger' = h /\ UNCHANGED <<cursor, saved>>
         ELSE /\ pc' = "poll" /\ cursor' = Advanced
              /\ \/ saved' = Advanced /\ ledger' = h
                 \/ h.faults < MaxFaults /\ saved' = saved /\ ledger' = Faulted(h)
    /\ UNCHANGED <<file, account, control, source, batcher>>

\* mutant: the batch that failed is forgotten
MutRequeued == held

\* Batcher::requeue: to the head; at the cap the oldest is dropped
Requeued == <<batch>> \o (IF Len(held) >= HeldCap THEN Tail(held) ELSE held)

\* AuthExpired and Err: the batch goes back, to be sent under a new key
PutBack(pausing, h) ==
    /\ batch' = Empty /\ attempt' = 0 /\ keyed' = FALSE
    /\ ledger' = [h EXCEPT !.again = @ \/ keyed]
    /\ IF pc = "last" THEN pc' = "done" /\ UNCHANGED <<held, paused>>
       ELSE /\ pc' = "poll" /\ held' = Requeued
            /\ paused' = (paused \/ pausing)
    /\ UNCHANGED <<file, saved, account, cancel, flag, cursor, source, pending, first>>

\* nothing to send: every line was turned away by the gate
PushNothing ==
    /\ Pushing /\ batch.lines = <<>>
    /\ Settle(ledger) /\ UNCHANGED backend

PushAccepted ==
    /\ Asks
    /\ backend' = Taken(batch.lines)
    /\ Settle(ledger)

\* a 200 with errors for some lines, or a 400 or 403 for all
PushRefused(bad) ==
    /\ Asks /\ ledger.faults < MaxFaults
    /\ backend' = Taken(Keep(batch.lines, Range(batch.lines) \ bad))
    /\ Settle(Faulted([ledger EXCEPT !.refused = @ \union bad]))

\* 5xx, no connection, or (lost) an answer that never arrives
PushRetries(lost) ==
    LET h == IF lost THEN [Faulted(ledger) EXCEPT !.again = @ \/ attempt + 1 >= Retries]
                     ELSE ledger IN
    /\ Asks
    /\ lost => ledger.faults < MaxFaults
    /\ backend' = IF lost THEN Taken(batch.lines) ELSE backend
    /\ IF attempt + 1 >= Retries THEN PutBack(FALSE, h)
       ELSE /\ attempt' = attempt + 1
            /\ keyed' = (keyed \/ lost)
            /\ ledger' = h
            /\ UNCHANGED <<file, saved, account, pc, control, cursor, source, batcher, batch>>

\* 401 with a bearer at hand: the bearer is tried again
PushUnauthorised ==
    /\ Asks
    /\ IF attempt + 1 >= Retries THEN PutBack(TRUE, ledger)
       ELSE /\ attempt' = attempt + 1
            /\ UNCHANGED <<file, saved, account, pc, control, cursor, source, batcher, batch,
                           keyed, ledger>>
    /\ UNCHANGED backend

\* no bearer
PushLoggedOut ==
    /\ Pushing /\ batch.lines # <<>> /\ auth = "none"
    /\ PutBack(TRUE, ledger) /\ UNCHANGED backend

TaskEnds ==
    /\ pc = "done"
    /\ Gone
    /\ ledger' = [ledger EXCEPT !.again = TRUE]
    /\ UNCHANGED <<file, saved, account, flag, backend>>

StreamNext ==
    \/ \E c \in Chains, s \in Classes : AppendRecord(c, s)
    \/ \E a \in {"none", "bearer", "session"}, t \in BOOLEAN : Relogin(a, t)
    \/ Pause \/ Resume \/ Start \/ Shutdown \/ ShutdownTimesOut \/ Crash
    \/ \E s \in {"public", "private"} : PumpJournal(s)
    \/ Poll \/ ProcessSeal \/ DrainJournal \/ Flush \/ NoFlush \/ LastFlush
    \/ PushNothing \/ PushAccepted \/ PushUnauthorised \/ PushLoggedOut \/ TaskEnds
    \/ \E bad \in SUBSET Range(batch.lines) \ {{}} : PushRefused(bad)
    \/ \E lost \in BOOLEAN : PushRetries(lost)

\* The task runs on, the interval passes, and a backend that is asked again and
\* again takes the batch.
StreamFairness ==
    /\ WF_stream_vars(Poll) /\ WF_stream_vars(ProcessSeal)
    /\ WF_stream_vars(DrainJournal) /\ WF_stream_vars(NoFlush)
    /\ SF_stream_vars(Flush) /\ WF_stream_vars(PushNothing) /\ SF_stream_vars(PushAccepted)

StreamSpec == StreamInit /\ [][StreamNext]_stream_vars
StreamFairSpec == StreamSpec /\ StreamFairness

-----------------------------------------------------------------------------
(* Properties *)

Lines == {Line(c, n, s) : c \in Chains \union {Bus}, n \in 1 .. MaxRecords + MaxJournal,
                          s \in {"public", "team", "private", "bad"}}
Marks == [Chains -> 0 .. MaxRecords]
IsBatch(b) == b.lines \in Seq(Lines) /\ b.adv \in Marks

\* Types; a flush takes the held batch first, so there is never more than one.
StreamTypeOK ==
    /\ file \in [Chains -> Seq(Classes)] /\ saved \in Marks /\ cursor \in Marks
    /\ offset \in Marks /\ auth \in {"none", "bearer", "session"}
    /\ {flag, team, cancel, paused, first, keyed} \subseteq BOOLEAN
    /\ pc \in {"off", "poll", "seal", "check", "push", "last", "done"}
    /\ events \in Seq(Lines) /\ queue \in Seq(Lines) /\ Len(queue) <= QueueCap
    /\ IsBatch(pending) /\ IsBatch(batch) /\ Len(held) <= 1 /\ \A b \in Range(held) : IsBatch(b)
    /\ attempt \in 0 .. Retries - 1 /\ backend \in Seq(Lines)
    /\ ledger \in [withheld : SUBSET Lines, unnamed : SUBSET Lines, refused : SUBSET Lines,
                    again : BOOLEAN, journal : 0 .. MaxJournal,
                    changes : 0 .. MaxChanges, faults : 0 .. MaxFaults]

\* a record that needs no more attention: the backend took it or refused it, the gate
\* turned it away, or no workspace was known to publish it under
Settled(l) ==
    l \in Range(backend) \union ledger.refused \union ledger.withheld \union ledger.unnamed

\* The saved cursor passes only over records that are settled: whatever is retried, put
\* back or cut off by a crash, a restart reads every other record again.
NothingSkipped ==
    \A c \in Chains : \A n \in 1 .. saved[c] : file[c][n] = "bad" \/ Settled(Rec(c, n))

\* What is still in memory is beyond the saved cursor, so that losing the process loses
\* no record.
MemoryIsSpare ==
    \A l \in UNION {Range(b.lines) : b \in Range(held) \union {pending, batch}} :
        l.src \in Chains => l.n > saved[l.src]

\* The backend sees the records of a chain in the order of the chain, apart from
\* records that were sent or turned away before.
InOrder ==
    \A i, j \in DOMAIN backend :
        i < j /\ backend[i].src \in Chains /\ backend[i].src = backend[j].src
              /\ backend[j].n < backend[i].n
            => \/ \E k \in 1 .. i : backend[k] = backend[j]
               \/ backend[j] \in ledger.refused \union ledger.withheld \union ledger.unnamed

\* While the process lives and no push was given up after the backend had taken it, no
\* line reaches the backend twice, lost answers included.
SentOnce ==
    ~ledger.again => \A i, j \in DOMAIN backend : backend[i] = backend[j] => i = j

\* What is not declared public or team never leaves the machine, from either source, and
\* what the gate turned away leaves only if a later process reads it again.
FailClosed ==
    \A l \in Range(backend) :
        /\ l.scope \in {"public", "team"}
        /\ l \in ledger.withheld => ledger.again

\* If from some time on the task runs, is not paused and has a session, every public
\* record is settled.
PublicSettled ==
    <>[](pc # "off" /\ ~cancel /\ ~paused /\ auth = "session") =>
        \A c \in Chains, n \in 1 .. MaxRecords :
            (n <= Len(file[c]) /\ file[c][n] = "public") ~> Settled(Line(c, n, "public"))

\* The saved cursor passes over settled records and nothing that is in memory.
CursorSound == StreamTypeOK /\ NothingSkipped /\ MemoryIsSpare

\* The backend gets the records of a chain in order and once.
DeliveredInOrder == InOrder /\ SentOnce

=============================================================================
