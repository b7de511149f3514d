--------------------------- MODULE JournalReplay ---------------------------
(***************************************************************************)
(* How journal envelopes get from the daemon's hub to the one subscribed   *)
(* REPL: the hub's fanout task stamps them, the disk tee persists them,    *)
(* the forwarder feeds the installed sink, a writer thread per subscriber  *)
(* writes the socket, and an attach replays from disk what the previous    *)
(* subscriber missed.                                                      *)
(* Source: bins/orkia/src/pty_daemon/journal_host.rs; fanout and tee in    *)
(* crates/orkia-journal-hub/src/{listener,hub}.rs.                         *)
(*                                                                         *)
(* A session is one subscriber.  Each Subscribe request runs on a thread   *)
(* of its own and attach_subscriber holds no lock over its steps, so two   *)
(* attaches may overlap in any order.  `id` is an envelope's identity; the *)
(* code only has its hub_seq.                                              *)
(***************************************************************************)
EXTENDS Naturals, Sequences, FiniteSets, FiniteSetsExt, Functions, Filter

CONSTANTS
    BusCap,         \* capacity of the broadcast bus
    MaxEnvelopes,   \* bound: envelopes over a behaviour
    MaxSessions,    \* bound: subscribers over a behaviour
    MaxRestarts     \* bound: daemon crashes

ASSUME ReplayConstants ==
    BusCap \in Nat \ {0} /\ MaxEnvelopes \in Nat /\ MaxSessions \in Nat /\ MaxRestarts \in Nat

VARIABLES
    ids,            \* envelopes emitted so far
    next_seq,       \* the fanout task's counter
    bus,            \* stamped, not yet received by the disk tee
    lines,          \* the channel from the tee to the writer thread
    disk,           \* journal.jsonl
    drain,          \* drain_rx
    hand,           \* the forwarder's envelope past the replay_high check
    streamed_through,
    replay_high,
    generation,     \* attaches that reached the swap
    sink,           \* the session whose channel is installed, 0 for None
    session,        \* session[s], see NoSession
    restarts

hub  == <<ids, next_seq, bus, lines, disk>>
vars == <<ids, next_seq, bus, lines, disk, drain, hand, streamed_through, replay_high,
          generation, sink, session, restarts>>

Sessions == 1 .. MaxSessions

\* phase: none, loaded (cursor read), read (backlog read), armed (replay_high
\* stored), bumped (generation taken), on (sink installed, writer thread runs),
\* clearing (writer left its loop and found the generation its own), done, cut
\* (the daemon died).  since, high and gen are the attach's since, backlog_high
\* and my_gen; lapped, a history flag: another attach was between reading the
\* journal and arming replay_high when this one armed it.  got is what was
\* written to its socket.
NoSession == [phase |-> "none", alive |-> FALSE, since |-> 0, high |-> 0, gen |-> 0,
              lapped |-> FALSE, chan |-> <<>>, got |-> <<>>]

\* where a fanout task seeded with `seed` starts counting
FirstSeq(seed) == seed + 1

Init ==
    /\ ids = 0
    /\ next_seq = FirstSeq(0)
    /\ bus = <<>> /\ lines = <<>> /\ disk = <<>> /\ drain = <<>> /\ hand = <<>>
    /\ streamed_through = 0
    /\ replay_high = 0
    /\ generation = 0
    /\ sink = 0
    /\ session = [s \in Sessions |-> NoSession]
    /\ restarts = 0

-----------------------------------------------------------------------------
(* The hub *)

\* broadcast::send: a receiver that lags behind the capacity loses the oldest
Sent(env) == Append(IF Len(bus) < BusCap THEN bus ELSE Tail(bus), env)

\* fanout: stamp, send to the bus (the tee listens), send to the drain
Ingest ==
    /\ ids < MaxEnvelopes
    /\ ids' = ids + 1
    /\ next_seq' = next_seq + 1
    /\ LET env == [id |-> ids + 1, seq |-> next_seq]
       IN  bus' = Sent(env) /\ drain' = Append(drain, env)
    /\ UNCHANGED <<lines, disk, hand, streamed_through, replay_high, generation, sink,
                   session, restarts>>

\* spawn_disk_tee: one envelope from the bus to the writer thread
Tee ==
    /\ bus # <<>>
    /\ bus' = Tail(bus)
    /\ lines' = Append(lines, Head(bus))
    /\ UNCHANGED <<ids, next_seq, disk, drain, hand, streamed_through, replay_high,
                   generation, sink, session, restarts>>

\* the writer thread: one line reaches the file
Persist ==
    /\ lines # <<>>
    /\ lines' = Tail(lines)
    /\ disk' = Append(disk, Head(lines))
    /\ UNCHANGED <<ids, next_seq, bus, drain, hand, streamed_through, replay_high,
                   generation, sink, session, restarts>>

-----------------------------------------------------------------------------
(* The forwarder task *)

\* Mutant: the backlog range is not skipped.
CoveredNever(env) == FALSE

\* the dedup gate; a stamped seq is never 0
Covered(env) == env.seq <= replay_high

\* receive one envelope and test it against replay_high
ForwardCheck ==
    /\ drain # <<>>
    /\ hand = <<>>
    /\ drain' = Tail(drain)
    /\ hand' = IF Covered(Head(drain)) THEN <<>> ELSE <<Head(drain)>>
    /\ UNCHANGED <<hub, streamed_through, replay_high, generation, sink, session,
                   restarts>>

Frame(env, from) == [id |-> env.id, seq |-> env.seq, from |-> from]

\* lock the subscriber and send; no sink, or one whose receiver is gone, drops
ForwardSend ==
    /\ hand # <<>>
    /\ hand' = <<>>
    /\ session' =
          IF sink # 0 /\ session[sink].phase = "on"
          THEN [session EXCEPT ![sink].chan = Append(@, Frame(hand[1], "live"))]
          ELSE session
    /\ UNCHANGED <<hub, drain, streamed_through, replay_high, generation, sink,
                   restarts>>

-----------------------------------------------------------------------------
(* attach_subscriber *)

SeqsOf(envs) == {envs[i].seq : i \in DOMAIN envs}

MaxOr(S, default) == IF S = {} THEN default ELSE Max(S)

\* what the journal has beyond the cursor
Backlog(since) == Keep(disk, {env \in Range(disk) : env.seq > since})

\* a Subscribe request: read the cursor; sessions are numbered as they come
AttachLoad(s) ==
    /\ session[s].phase = "none"
    /\ \A r \in Sessions : r < s => session[r].phase # "none"
    /\ session' = [session EXCEPT ![s].phase = "loaded", ![s].alive = TRUE,
                                  ![s].since = streamed_through]
    /\ UNCHANGED <<hub, drain, hand, streamed_through, replay_high, generation, sink,
                   restarts>>

\* load_entries and backlog_high
AttachRead(s) ==
    LET backlog == Backlog(session[s].since)
    IN  /\ session[s].phase = "loaded"
        /\ session' = [session EXCEPT ![s].phase = "read",
               ![s].high = MaxOr(SeqsOf(backlog), session[s].since),
               ![s].chan = [i \in DOMAIN backlog |-> Frame(backlog[i], "backlog")]]
        /\ UNCHANGED <<hub, drain, hand, streamed_through, replay_high, generation, sink,
                       restarts>>

\* store replay_high and queue the backlog into the channel nobody else has yet
AttachArm(s) ==
    /\ session[s].phase = "read"
    /\ replay_high' = session[s].high
    /\ session' = [session EXCEPT ![s].phase = "armed", ![s].since = 0, ![s].high = 0,
           ![s].lapped = \E r \in Sessions \ {s} : session[r].phase = "read"]
    /\ UNCHANGED <<hub, drain, hand, streamed_through, generation, sink, restarts>>

\* fetch_add on the generation
AttachBump(s) ==
    /\ session[s].phase = "armed"
    /\ generation' = generation + 1
    /\ session' = [session EXCEPT ![s].phase = "bumped", ![s].gen = generation + 1]
    /\ UNCHANGED <<hub, drain, hand, streamed_through, replay_high, sink, restarts>>

\* replace the sink, dropping the previous one, and start the writer thread
AttachInstall(s) ==
    /\ session[s].phase = "bumped"
    /\ session' = [session EXCEPT ![s].phase = "on"]
    /\ sink' = s
    /\ UNCHANGED <<hub, drain, hand, streamed_through, replay_high, generation, restarts>>

\* what the attaching thread does once it has the cursor
AttachSteps(s) == AttachRead(s) \/ AttachArm(s) \/ AttachBump(s) \/ AttachInstall(s)

-----------------------------------------------------------------------------
(* stream_writer and the tail of its thread *)

\* write one frame and flush, then advance the cursor (fetch_max)
WriterWrites(s) ==
    LET frame == Head(session[s].chan)
    IN  /\ session[s].phase = "on"
        /\ session[s].chan # <<>>
        /\ session[s].alive
        /\ session' = [session EXCEPT ![s].chan = Tail(@), ![s].got = Append(@, frame)]
        /\ streamed_through' = Max({streamed_through, frame.seq})
        /\ UNCHANGED <<hub, drain, hand, replay_high, generation, sink, restarts>>

\* Mutant: the writer stops as soon as it is replaced.
ExitsWhenReplaced(s) == sink # s \/ ~session[s].alive

\* the loop ends: the sender was dropped and the channel is empty, or a write
\* to a REPL that is gone failed
LoopEnds(s) == IF session[s].chan = <<>> THEN sink # s ELSE ~session[s].alive

\* leave the loop (dropping the receiver) and compare the generation
WriterExits(s) ==
    /\ session[s].phase = "on"
    /\ LoopEnds(s)
    /\ session' = [session EXCEPT
           ![s].phase = IF generation = session[s].gen THEN "clearing" ELSE "done",
           ![s].chan  = <<>>]
    /\ UNCHANGED <<hub, drain, hand, streamed_through, replay_high, generation,
                   sink, restarts>>

\* ... and only then lock the subscriber and clear it
WriterClears(s) ==
    /\ session[s].phase = "clearing"
    /\ session' = [session EXCEPT ![s].phase = "done"]
    /\ sink' = 0
    /\ UNCHANGED <<hub, drain, hand, streamed_through, replay_high, generation,
                   restarts>>

-----------------------------------------------------------------------------
(* The REPL, and crashes *)

\* the next write to its socket fails; once its session is over it is no matter
ReplDies(s) ==
    /\ session[s].alive
    /\ session[s].phase \notin {"done", "cut"}
    /\ session' = [session EXCEPT ![s].alive = FALSE]
    /\ UNCHANGED <<hub, drain, hand, streamed_through, replay_high, generation,
                   sink, restarts>>

\* Mutant: the sequence starts over with every daemon.
DiskMaxIgnored == 0

\* max_hub_seq_on_disk
DiskMax == MaxOr(SeqsOf(disk), 0)

\* a fresh daemon takes what is persisted as consumed
SeedCursor == DiskMax

\* the daemon dies and start() runs again: only the file is left
DaemonRestarts ==
    /\ restarts < MaxRestarts
    /\ restarts' = restarts + 1
    /\ next_seq' = FirstSeq(DiskMax)
    /\ streamed_through' = SeedCursor
    /\ replay_high' = SeedCursor
    /\ bus' = <<>> /\ lines' = <<>> /\ drain' = <<>> /\ hand' = <<>>
    /\ generation' = 0
    /\ sink' = 0
    /\ session' = [s \in Sessions |->
          IF session[s].phase \in {"none", "done"} THEN session[s]
          ELSE [session[s] EXCEPT !.phase = "cut", !.chan = <<>>]]
    /\ UNCHANGED <<ids, disk>>

Next ==
    \/ Ingest
    \/ Tee
    \/ Persist
    \/ ForwardCheck
    \/ ForwardSend
    \/ \E s \in Sessions :
          \/ AttachLoad(s)
          \/ AttachSteps(s)
          \/ WriterWrites(s)
          \/ WriterExits(s)
          \/ WriterClears(s)
          \/ ReplDies(s)
    \/ DaemonRestarts

\* The daemon's threads are scheduled and a live REPL takes what is written to it;
\* nothing obliges envelopes, attaches or deaths to happen.
Fairness ==
    /\ WF_vars(Tee) /\ WF_vars(Persist) /\ WF_vars(ForwardCheck) /\ WF_vars(ForwardSend)
    /\ \A s \in Sessions :
          /\ WF_vars(AttachSteps(s))
          /\ WF_vars(WriterWrites(s))
          /\ WF_vars(WriterExits(s))
          /\ WF_vars(WriterClears(s))

Spec == Init /\ [][Next]_vars /\ Fairness

-----------------------------------------------------------------------------
(* Properties *)

Envelope == [id : 1 .. MaxEnvelopes, seq : Nat \ {0}]
Frames   == [id : 1 .. MaxEnvelopes, seq : Nat \ {0}, from : {"backlog", "live"}]

\* Every variable has its type.
TypeOK ==
    /\ ids \in 0 .. MaxEnvelopes
    /\ next_seq \in Nat \ {0}
    /\ bus \in Seq(Envelope) /\ Len(bus) <= BusCap
    /\ lines \in Seq(Envelope) /\ disk \in Seq(Envelope)
    /\ drain \in Seq(Envelope) /\ hand \in Seq(Envelope) /\ Len(hand) <= 1
    /\ streamed_through \in Nat /\ replay_high \in Nat
    /\ generation \in Nat
    /\ sink \in 0 .. MaxSessions
    /\ session \in [Sessions ->
          [phase : {"none", "loaded", "read", "armed", "bumped", "on", "clearing", "done",
                    "cut"},
           alive : BOOLEAN, since : Nat, high : Nat, gen : Nat, lapped : BOOLEAN,
           chan : Seq(Frames), got : Seq(Frames)]]
    /\ restarts \in 0 .. MaxRestarts

\* All a subscriber was ever given, in order.
Stream(s) == session[s].got \o session[s].chan

IdsOf(frames) == {frames[i].id : i \in DOMAIN frames}

Increasing(envs) ==
    \A i, j \in DOMAIN envs : i < j => envs[i].seq < envs[j].seq

\* hub_seq orders the journal file strictly, across daemon crashes that lose
\* numbers already handed out and a tee that lags behind the bus.
JournalOrdered == Increasing(disk \o lines \o bus)

\* A daemon never takes as streamed, or as covered by a replay, a number it has
\* yet to hand out: the envelope that gets it would be skipped.
CursorBehindStamp == streamed_through < next_seq /\ replay_high < next_seq

\* Every subscriber sees its whole backlog, in order, before any live frame,
\* and the live frames in order.
BacklogFirst ==
    \A s \in Sessions : \A i, j \in DOMAIN Stream(s) : i < j =>
        LET f == Stream(s)[i]
            g == Stream(s)[j]
        IN  /\ f.from = "live" => g.from = "live"
            /\ f.from = g.from => f.seq < g.seq

\* The backlog/live join repeats at most one envelope, the one the forwarder
\* held when the attach armed replay_high, unless another attach had read the
\* journal before and arms its own, lower replay_high after.
JoinRepeatsAtMostOne ==
    \A s \in Sessions :
        ~session[s].lapped => Len(Stream(s)) <= Cardinality(IdsOf(Stream(s))) + 1

\* A subscriber that stays gets its backlog to the last frame, even when it is
\* replaced meanwhile by attaches that overlap its own; only its own death or
\* that of the daemon it is attached to cuts it short.
BacklogDelivered ==
    \A s \in Sessions, n \in 1 .. MaxEnvelopes :
        (session[s].phase = "armed" /\ n \in IdsOf(session[s].chan))
            ~> \/ n \in IdsOf(session[s].got)
               \/ ~session[s].alive
               \/ session[s].phase = "cut"

\* Numbers and cursors fit the file through crashes and a lagging tee.
NumberingSound == TypeOK /\ JournalOrdered /\ CursorBehindStamp

\* What a subscriber gets is its backlog, then live frames, with one repeat at most
\* where no other attach lapped its own.
JoinSound == BacklogFirst /\ JoinRepeatsAtMostOne

=============================================================================
