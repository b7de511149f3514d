----------------------------- MODULE SealChain -----------------------------
(***************************************************************************)
(* One scoped SEAL chain: the NDJSON file that is the durable record, and  *)
(* the in-memory mirror each process that opened it works from.            *)
(* Source: crates/orkia-shell/src/seal/chain.rs.                           *)
(*                                                                         *)
(* The file is a sequence of lines, a line a sequence of the pieces that   *)
(* were written to it.  `writeln!` on an unbuffered file is two writes,    *)
(* the line and then the newline, so an append is two steps here; a line   *)
(* parses iff it is exactly one record written in full.  SHA-256 is the    *)
(* injective function `oracle`: digest h was computed over oracle[h].      *)
(***************************************************************************)
EXTENDS Naturals, Sequences, FiniteSets

CONSTANTS
    Procs,          \* processes that open the chain (shell, daemon, ...)
    Events,         \* event types
    Terminal,       \* agent.complete, agent.failed
    Faults,         \* which environment faults may happen, see FaultKinds
    MaxRecords,     \* bound: digests computed over a behaviour
    MaxFaults       \* bound: faults over a behaviour

\* split:      process dies, or the disk fails, between line and newline
\* torn:       a strict prefix of the line reaches the disk
\* bytes:      the same, cut inside a UTF-8 sequence
\* unreadable: the file cannot be read when a process loads it
FaultKinds == {"split", "torn", "bytes", "unreadable"}

ASSUME ChainConstants ==
    /\ Terminal \subseteq Events
    /\ Faults \subseteq FaultKinds
    /\ MaxRecords \in Nat
    /\ MaxFaults \in Nat

VARIABLES
    file,       \* the lines on disk, oldest first
    eol,        \* TRUE iff the file is empty or ends with a newline
    chain,      \* chain[p]: SealChain of process p
    oracle,     \* oracle[h]: what digest h was computed over
    acked,      \* digests of the records whose append returned Ok
    faults      \* how many faults have happened

vars == <<file, eol, chain, oracle, acked, faults>>

ZERO_HASH == 0

Record  == [seq : Nat, ev : Events, hash : Nat \ {0}, prev : Nat]
Piece   == [rec : Record, part : {"full", "torn", "bytes"}]
Content == [prev : Nat, ev : Events]

(***************************************************************************)
(* Reading and verifying.                                                  *)
(***************************************************************************)

\* serde_json::from_str::<SealRecord>(line) succeeds
Parses(line) == Len(line) = 1 /\ line[1].part = "full"

\* A blank line cannot arise except by concurrent appends, and is skipped
\* like a malformed one.  The first case only spares the filter.
ParsedFile ==
    IF \A i \in DOMAIN file : Parses(file[i])
    THEN [i \in DOMAIN file |-> file[i][1].rec]
    ELSE LET kept[n \in 0 .. Len(file)] ==
                 IF n = 0 THEN <<>>
                 ELSE IF Parses(file[n]) THEN Append(kept[n - 1], file[n][1].rec)
                 ELSE kept[n - 1]
         IN  kept[Len(file)]

\* std::fs::read_to_string rejects a file that is not UTF-8
Undecodable == \E i \in DOMAIN file : \E j \in DOMAIN file[i] :
                   file[i][j].part = "bytes"

\* Mutant: the tip is read from the wrong end of the mirror.
TipHashOfGenesis(records) ==
    IF records = <<>> THEN ZERO_HASH ELSE records[1].hash

TipHash(records) ==
    IF records = <<>> THEN ZERO_HASH ELSE records[Len(records)].hash

IsTerminal(e) == e \in Terminal

EndsTerminal(records) ==
    records # <<>> /\ IsTerminal(records[Len(records)].ev)

\* Mutants: the increment is lost, or goes the wrong way, on load.
NextSeqRestarts(records) == 0
NextSeq(records) ==
    IF records = <<>> THEN 0 ELSE records[Len(records)].seq + 1

\* Mutant: verify only follows prev_hash.
HashNotRecomputed(r, expectedPrev) == TRUE

\* compute_hash agrees with the stored digest
HashMatches(r, expectedPrev) ==
    oracle[r.hash] = [prev |-> expectedPrev, ev |-> r.ev]

Verify(records) ==
    \A i \in DOMAIN records :
        LET expectedPrev == IF i = 1 THEN ZERO_HASH ELSE records[i - 1].hash
        IN  /\ records[i].prev = expectedPrev
            /\ HashMatches(records[i], expectedPrev)

(***************************************************************************)
(* State of a process.                                                     *)
(***************************************************************************)

\* state: unloaded, or open / closed (SealChain.closed); pending holds the
\* record whose line is written and whose newline is not.
Unloaded == [state |-> "unloaded", records |-> <<>>, next_seq |-> 0,
             pending |-> <<>>]

Quarantined == [state |-> "closed", records |-> <<>>, next_seq |-> 0,
                pending |-> <<>>]

Idle(p) == chain[p].pending = <<>>

Init ==
    /\ file = <<>>
    /\ eol = TRUE
    /\ chain = [p \in Procs |-> Unloaded]
    /\ oracle = <<>>
    /\ acked = {}
    /\ faults = 0

Fault(kind) == kind \in Faults /\ faults < MaxFaults /\ faults' = faults + 1

\* load: parse the file, derive next_seq and closed from the last record
Load(p) ==
    /\ chain[p].state = "unloaded"
    /\ ~Undecodable
    /\ LET records == ParsedFile
       IN  chain' = [chain EXCEPT ![p] =
               [state    |-> IF EndsTerminal(records) THEN "closed" ELSE "open",
                records  |-> records,
                next_seq |-> NextSeq(records),
                pending  |-> <<>>]]
    /\ UNCHANGED <<file, eol, oracle, acked, faults>>

\* load_or_quarantine when load fails: an empty chain that is closed
LoadQuarantines(p) ==
    /\ chain[p].state = "unloaded"
    /\ \/ Undecodable /\ faults' = faults
       \/ Fault("unreadable")
    /\ chain' = [chain EXCEPT ![p] = Quarantined]
    /\ UNCHANGED <<file, eol, oracle, acked>>

\* Mutant: every record is written as if it were the genesis.
NewRecordUnlinked(p, e) ==
    [seq  |-> chain[p].next_seq,
     ev   |-> e,
     hash |-> Len(oracle) + 1,
     prev |-> ZERO_HASH]

\* the record append_with_rfc builds for event e
NewRecord(p, e) ==
    [seq  |-> chain[p].next_seq,
     ev   |-> e,
     hash |-> Len(oracle) + 1,
     prev |-> TipHash(chain[p].records)]

\* Mutant: the file is opened for writing instead of appending.
WritePieceTruncates(piece) == file' = <<<<piece>>>>

\* bytes go to the end of the file, continuing an unterminated line
WritePiece(piece) ==
    file' = IF eol THEN Append(file, <<piece>>)
                   ELSE [file EXCEPT ![Len(file)] = Append(@, piece)]

StartAppend(p, e, part) ==
    /\ chain[p].state = "open"
    /\ Idle(p)
    /\ Len(oracle) < MaxRecords
    /\ oracle' = Append(oracle, [prev |-> TipHash(chain[p].records), ev |-> e])
    /\ WritePiece([rec |-> NewRecord(p, e), part |-> part])
    /\ eol' = FALSE

\* append_with_rfc, first write: the line
AppendLine(p, e) ==
    /\ StartAppend(p, e, "full")
    /\ chain' = [chain EXCEPT ![p] = [@ EXCEPT !.pending = <<NewRecord(p, e)>>]]
    /\ UNCHANGED <<acked, faults>>

\* the chain once its pending record is durable
Mirrored(c) ==
    LET r == c.pending[1]
    IN  [state    |-> IF IsTerminal(r.ev) THEN "closed" ELSE "open",
         records  |-> Append(c.records, r),
         next_seq |-> c.next_seq + 1,
         pending  |-> <<>>]

\* append_with_rfc, second write: the newline; then the mirror catches up
AppendNewline(p) ==
    /\ ~Idle(p)
    /\ eol' = TRUE
    /\ chain' = [chain EXCEPT ![p] = Mirrored(@)]
    /\ acked' = acked \union {chain[p].pending[1].hash}
    /\ UNCHANGED <<file, oracle, faults>>

\* the chain after the write returned Err, or after the process died
AfterFailure(c, dies) == IF dies THEN Unloaded ELSE [c EXCEPT !.pending = <<>>]

\* Mutant: the mirror is updated before the write is known to have succeeded.
AppendTornMirrored(p, e, part, dies) ==
    /\ Fault(part)
    /\ StartAppend(p, e, part)
    /\ chain' = [chain EXCEPT ![p] =
          IF dies THEN Unloaded
          ELSE [@ EXCEPT !.records = Append(@, NewRecord(p, e))]]
    /\ UNCHANGED acked

\* the line's write falls short: Err(Io) to the caller, or the process dies
AppendTorn(p, e, part, dies) ==
    /\ Fault(part)
    /\ StartAppend(p, e, part)
    /\ chain' = [chain EXCEPT ![p] = AfterFailure(@, dies)]
    /\ UNCHANGED acked

\* the newline's write fails, or the process dies before it
AppendUnterminated(p, dies) ==
    /\ ~Idle(p)
    /\ Fault("split")
    /\ chain' = [chain EXCEPT ![p] = AfterFailure(@, dies)]
    /\ UNCHANGED <<file, eol, oracle, acked>>

\* close(): in memory only
Close(p) ==
    /\ chain[p].state = "open"
    /\ Idle(p)
    /\ chain' = [chain EXCEPT ![p] = [@ EXCEPT !.state = "closed"]]
    /\ UNCHANGED <<file, eol, oracle, acked, faults>>

\* the process ends, or drops its SealChain, between two appends
Exit(p) ==
    /\ chain[p].state # "unloaded"
    /\ Idle(p)
    /\ chain' = [chain EXCEPT ![p] = Unloaded]
    /\ UNCHANGED <<file, eol, oracle, acked, faults>>

Next ==
    \E p \in Procs :
       \/ Load(p)
       \/ LoadQuarantines(p)
       \/ \E e \in Events : AppendLine(p, e)
       \/ AppendNewline(p)
       \/ \E e \in Events, part \in {"torn", "bytes"}, dies \in BOOLEAN :
             AppendTorn(p, e, part, dies)
       \/ \E dies \in BOOLEAN : AppendUnterminated(p, dies)
       \/ Close(p)
       \/ Exit(p)

Spec == Init /\ [][Next]_vars

(***************************************************************************)
(* Properties.                                                             *)
(***************************************************************************)

ChainType == [state    : {"unloaded", "open", "closed"},
              records  : Seq(Record),
              next_seq : Nat,
              pending  : Seq(Record)]

\* Every variable has its type; a pending record is at most one.
TypeOK ==
    /\ file \in Seq(Seq(Piece))
    /\ eol \in BOOLEAN
    /\ oracle \in Seq(Content)
    /\ acked \subseteq 1 .. Len(oracle)
    /\ faults \in Nat
    /\ chain \in [Procs -> ChainType]
    /\ \A p \in Procs : Len(chain[p].pending) <= 1

HashesOf(records) == {records[i].hash : i \in DOMAIN records}

\* What a reader of the file sees is one unbroken hash chain from genesis
\* (SealChain::verify answers (true, None) after a load).
ChainVerifies == Verify(ParsedFile)

\* append's contract: once it returned Ok, every later load finds the record.
AckedDurable == acked \subseteq HashesOf(ParsedFile)

\* A terminal event is the last record of its chain, across reloads too.
NothingAfterTerminal ==
    \A i \in 1 .. (Len(ParsedFile) - 1) : ~IsTerminal(ParsedFile[i].ev)

\* Memory is updated after the disk: a failed append can leave bytes behind,
\* but never a record in the mirror that was not written out in full.
MirrorOnlyWritten ==
    \A p \in Procs : \A i \in DOMAIN chain[p].records :
        \E l \in DOMAIN file : \E j \in DOMAIN file[l] :
            file[l][j] = [rec |-> chain[p].records[i], part |-> "full"]

\* The mirror's side of the contract under sharing and faults.
MirrorSound == TypeOK /\ MirrorOnlyWritten

\* Whatever another process or the disk does, a mirror that verified keeps
\* verifying until its process reloads it.
MirrorKeepsVerifying ==
    [][\A p \in Procs :
          (/\ chain[p].state # "unloaded"
           /\ chain'[p].state # "unloaded"
           /\ Verify(chain[p].records)) => Verify(chain[p].records)']_vars

\* Tampering with the file shows: records dropped, repeated or put in another
\* order verify only as a prefix of what was written, and no record verifies
\* with another event in it.
TamperEvident ==
    LET records == ParsedFile
    IN  /\ \A n \in DOMAIN records : \A pick \in [1 .. n -> DOMAIN records] :
              Verify([i \in 1 .. n |-> records[pick[i]]])
                  => \A i \in 1 .. n : pick[i] = i
        /\ \A i \in DOMAIN records : \A e \in Events \ {records[i].ev} :
              ~Verify([records EXCEPT ![i].ev = e])

\* The log a reader of the file sees.
Log == INSTANCE SealLog WITH log <- ParsedFile, Hashes <- 1 .. MaxRecords

\* A chain with one writer and a disk that completes its writes behaves, at
\* every step and across restarts, like the abstract append-only log.
ImplementsSealLog == Log!Spec
=============================================================================
