--------------------------- MODULE SealChainProof ---------------------------
(***************************************************************************)
(* Theorems about SealChain, for every set of events and every bound.      *)
(* First with one writer on a disk that completes its writes: loads may    *)
(* fail and quarantine the chain, the process may end and reload at any    *)
(* time.  Then, what is left of that with any number of processes and any  *)
(* faults: what the mirrors promise.                                       *)
(***************************************************************************)
EXTENDS SealChain, WellFoundedInduction, TLAPS

SoleWriter(w) == Procs = {w} /\ Faults \subseteq {"unreadable"}

(***************************************************************************)
(* The inductive invariant.  With one writer nothing is ever skipped, so   *)
(* the file is determined by the digests computed so far: record i has     *)
(* digest i and sits on line i.                                            *)
(***************************************************************************)
Entry(i) == [seq |-> i - 1, ev |-> oracle[i].ev, hash |-> i, prev |-> i - 1]

Written(n) == [i \in 1 .. n |-> Entry(i)]

Digests ==
    /\ oracle \in Seq(Content)
    /\ \A i \in 1 .. Len(oracle) : oracle[i].prev = i - 1
    /\ \A i \in 1 .. (Len(oracle) - 1) : oracle[i].ev \notin Terminal

Lines == file = [i \in 1 .. Len(oracle) |-> <<[rec |-> Entry(i), part |-> "full"]>>]

\* No mirror: not loaded, or quarantined.
Inert(c) == c = Unloaded \/ c = Quarantined

\* Between two appends the mirror is the file.
Settled(c) ==
    /\ c.state \in {"open", "closed"}
    /\ c.records = Written(Len(oracle))
    /\ c.next_seq = Len(oracle)
    /\ c.pending = <<>>
    /\ c.state = "open" => ~EndsTerminal(Written(Len(oracle)))

\* Inside an append the file is one record ahead.
Ahead(c) ==
    /\ Len(oracle) > 0
    /\ c.state = "open"
    /\ c.records = Written(Len(oracle) - 1)
    /\ c.next_seq = Len(oracle) - 1
    /\ c.pending = <<Entry(Len(oracle))>>

Mirror(w) ==
    /\ DOMAIN chain = {w}
    /\ \/ eol /\ Inert(chain[w])
       \/ eol /\ Settled(chain[w])
       \/ ~eol /\ Ahead(chain[w])
    /\ eol \in BOOLEAN
    /\ chain[w] = [state    |-> chain[w].state,
                   records  |-> chain[w].records,
                   next_seq |-> chain[w].next_seq,
                   pending  |-> chain[w].pending]
    /\ chain = [p \in {w} |-> chain[w]]

SoleInv(w) ==
    /\ Digests
    /\ Lines
    /\ Mirror(w)
    /\ acked \subseteq 1 .. Len(oracle)
    /\ faults \in Nat

-----------------------------------------------------------------------------
(* What the invariant says of the file and of verify *)

\* Two sequences of the same length with the same elements are equal.
LEMMA SameSeq ==
    ASSUME NEW S, NEW s \in Seq(S), NEW t \in Seq(S), Len(s) = Len(t),
           \A i \in 1 .. Len(s) : s[i] = t[i]
    PROVE  s = t
  OBVIOUS

\* A load of the file yields exactly the records written so far.
LEMMA ParsedWritten ==
    ASSUME Digests, Lines
    PROVE  /\ ParsedFile = Written(Len(oracle))
           /\ ~Undecodable
<1>1. Len(oracle) \in Nat
  BY DEF Digests
<1>2. DOMAIN file = 1 .. Len(oracle)
  BY DEF Lines
<1>3. \A i \in DOMAIN file : file[i] = <<[rec |-> Entry(i), part |-> "full"]>>
  BY DEF Lines
<1>4. \A i \in DOMAIN file : Parses(file[i])
  BY <1>3 DEF Parses
<1>5. \A i \in DOMAIN file : file[i][1].rec = Entry(i)
  BY <1>3
<1>6. ParsedFile = [i \in DOMAIN file |-> file[i][1].rec]
  BY <1>4 DEF ParsedFile
<1>7. ParsedFile = Written(Len(oracle))
  BY <1>2, <1>5, <1>6 DEF Written
<1>8. \A i \in DOMAIN file : \A j \in DOMAIN file[i] : file[i][j].part = "full"
  <2> SUFFICES ASSUME NEW i \in DOMAIN file, NEW j \in DOMAIN file[i]
               PROVE  file[i][j].part = "full"
    OBVIOUS
  <2>1. file[i] = <<[rec |-> Entry(i), part |-> "full"]>>
    BY <1>3
  <2>2. j = 1
    BY <2>1
  <2> QED
    BY <2>1, <2>2
<1>9. ~Undecodable
  <2> SUFFICES ASSUME NEW i \in DOMAIN file, NEW j \in DOMAIN file[i],
                      file[i][j].part = "bytes"
               PROVE  FALSE
    BY DEF Undecodable
  <2> QED
    BY <1>8
<1> QED
  BY <1>7, <1>9

\* The records written so far are a sequence of records with those fields.
LEMMA WrittenFacts ==
    ASSUME Digests, NEW n \in 0 .. Len(oracle)
    PROVE  /\ Written(n) \in Seq(Record)
           /\ Len(Written(n)) = n
           /\ \A i \in 1 .. n : Written(n)[i] = Entry(i)
           /\ TipHash(Written(n)) = n
           /\ NextSeq(Written(n)) = n
           /\ EndsTerminal(Written(n)) <=> n > 0 /\ oracle[n].ev \in Terminal
<1>1. n \in Nat /\ Len(oracle) \in Nat
  BY DEF Digests
<1>2. \A i \in 1 .. n : Entry(i) \in Record
  <2> SUFFICES ASSUME NEW i \in 1 .. n
               PROVE  Entry(i) \in Record
    OBVIOUS
  <2>1. i \in 1 .. Len(oracle) /\ i \in Nat \ {0} /\ i - 1 \in Nat
    BY <1>1
  <2>2. oracle[i] \in Content
    BY <2>1 DEF Digests
  <2>3. oracle[i].ev \in Events
    BY <2>2 DEF Content
  <2> QED
    BY <2>1, <2>3 DEF Entry, Record
<1>3. Written(n) \in Seq(Record) /\ Len(Written(n)) = n
  BY <1>1, <1>2 DEF Written
<1>4. \A i \in 1 .. n : Written(n)[i] = Entry(i)
  BY DEF Written
<1>5. Written(n) = <<>> <=> n = 0
  BY <1>3, <1>1
<1>6. n > 0 => Written(n)[n] = Entry(n)
  BY <1>1, <1>4
<1>7. TipHash(Written(n)) = n
  BY <1>1, <1>3, <1>5, <1>6 DEF TipHash, ZERO_HASH, Entry
<1>8. NextSeq(Written(n)) = n
  BY <1>1, <1>3, <1>5, <1>6 DEF NextSeq, Entry
<1>9. EndsTerminal(Written(n)) <=> n > 0 /\ oracle[n].ev \in Terminal
  BY <1>1, <1>3, <1>5, <1>6 DEF EndsTerminal, IsTerminal, Entry
<1> QED
  BY <1>3, <1>4, <1>7, <1>8, <1>9

-----------------------------------------------------------------------------
(* The invariant is inductive: one lemma per action that changes it *)

\* Nothing is written and nothing is loaded.
LEMMA Initially ==
    ASSUME NEW w, SoleWriter(w), Init
    PROVE  SoleInv(w)
<1>1. Len(oracle) = 0 /\ oracle \in Seq(Content)
  BY DEF Init
<1>2. Digests
  BY <1>1 DEF Digests
<1>3. Lines
  BY <1>1 DEF Lines, Init
<1>4. Mirror(w)
  BY DEF Init, Mirror, Inert, SoleWriter, Unloaded
<1> QED
  BY <1>2, <1>3, <1>4 DEF SoleInv, Init

\* A step that touches neither the file nor the digests keeps the invariant
\* if it keeps the mirror settled or inert.
LEMMA MirrorStep ==
    ASSUME NEW w, SoleInv(w), NEW c,
           UNCHANGED <<file, oracle, eol>>, eol,
           chain' = [chain EXCEPT ![w] = c],
           Inert(c) \/ Settled(c),
           c = [state |-> c.state, records |-> c.records,
                next_seq |-> c.next_seq, pending |-> c.pending],
           acked' = acked, faults' \in Nat
    PROVE  SoleInv(w)'
<1>1. Digests' /\ Lines'
  BY DEF SoleInv, Digests, Lines, Entry
<1>2. chain'[w] = c /\ DOMAIN chain' = {w} /\ chain' = [p \in {w} |-> chain'[w]]
  BY DEF SoleInv, Mirror
<1>3. Settled(c) => Settled(c)'
  BY DEF Settled, Written, Entry, EndsTerminal, IsTerminal
<1>4. Inert(chain'[w]) \/ Settled(chain[w])'
  BY <1>2, <1>3 DEF Inert, Settled
<1>5. Mirror(w)'
  BY <1>2, <1>4 DEF SoleInv, Mirror, Inert
<1> QED
  BY <1>1, <1>5 DEF SoleInv

\* load: what is parsed back is what was written, so the new mirror settles.
LEMMA LoadStep ==
    ASSUME NEW w, SoleWriter(w), SoleInv(w), Load(w)
    PROVE  SoleInv(w)'
<1> DEFINE n == Len(oracle)
           c == [state    |-> IF EndsTerminal(ParsedFile) THEN "closed" ELSE "open",
                 records  |-> ParsedFile,
                 next_seq |-> NextSeq(ParsedFile),
                 pending  |-> <<>>]
<1>1. n \in 0 .. Len(oracle)
  BY DEF SoleInv, Digests
<1>2. ParsedFile = Written(n) /\ NextSeq(Written(n)) = n
  BY <1>1, ParsedWritten, WrittenFacts DEF SoleInv
<1>3. Settled(c)
  BY <1>2 DEF Settled
<1>4. chain' = [chain EXCEPT ![w] = c] /\ UNCHANGED <<file, oracle, eol, acked, faults>>
  BY DEF Load
<1>5. eol
  BY DEF Load, SoleInv, Mirror, Ahead
<1> HIDE DEF c
<1>6. c = [state |-> c.state, records |-> c.records,
           next_seq |-> c.next_seq, pending |-> c.pending]
  BY DEF c
<1> QED
  BY <1>3, <1>4, <1>5, <1>6, MirrorStep DEF SoleInv

\* load_or_quarantine on an unreadable file leaves an inert mirror.
LEMMA LoadQuarantinesStep ==
    ASSUME NEW w, SoleWriter(w), SoleInv(w), LoadQuarantines(w)
    PROVE  SoleInv(w)'
<1>1. eol
  BY DEF LoadQuarantines, SoleInv, Mirror, Ahead
<1>2. faults' \in Nat
  BY DEF LoadQuarantines, SoleInv, Fault
<1>3. Inert(Quarantined)
  BY DEF Inert
<1>4. Quarantined = [state |-> Quarantined.state, records |-> Quarantined.records,
                     next_seq |-> Quarantined.next_seq,
                     pending |-> Quarantined.pending]
  BY DEF Quarantined
<1> QED
  BY <1>1, <1>2, <1>3, <1>4, MirrorStep DEF LoadQuarantines

\* The process ends, or drops the chain, between two appends.
LEMMA ExitStep ==
    ASSUME NEW w, SoleWriter(w), SoleInv(w), Exit(w)
    PROVE  SoleInv(w)'
<1>1. eol
  BY DEF Exit, SoleInv, Mirror, Ahead, Idle
<1>2. Inert(Unloaded)
  BY DEF Inert
<1>3. Unloaded = [state |-> Unloaded.state, records |-> Unloaded.records,
                  next_seq |-> Unloaded.next_seq, pending |-> Unloaded.pending]
  BY DEF Unloaded
<1> QED
  BY <1>1, <1>2, <1>3, MirrorStep DEF Exit, SoleInv

\* A chain that is open and between two appends mirrors the file.
LEMMA OpenIdle ==
    ASSUME NEW w, SoleInv(w), chain[w].state = "open", chain[w].pending = <<>>
    PROVE  eol /\ Settled(chain[w])
<1>1. ~Inert(chain[w])
  BY DEF Inert, Unloaded, Quarantined
<1>2. ~Ahead(chain[w])
  BY DEF Ahead
<1> QED
  BY <1>1, <1>2 DEF SoleInv, Mirror

\* close() only changes the state of the mirror.
LEMMA CloseStep ==
    ASSUME NEW w, SoleWriter(w), SoleInv(w), Close(w)
    PROVE  SoleInv(w)'
<1> DEFINE c == [chain[w] EXCEPT !.state = "closed"]
<1>1. eol /\ Settled(chain[w])
  BY OpenIdle DEF Close, Idle
<1>2. c = [state    |-> "closed",
           records  |-> chain[w].records,
           next_seq |-> chain[w].next_seq,
           pending  |-> chain[w].pending]
  BY DEF SoleInv, Mirror
<1>3. chain' = [chain EXCEPT ![w] = c] /\ UNCHANGED <<file, oracle, eol, acked, faults>>
  BY DEF Close
<1> HIDE DEF c
<1>4. Settled(c)
  BY <1>1, <1>2 DEF Settled
<1> QED
  BY <1>1, <1>2, <1>3, <1>4, MirrorStep DEF SoleInv

\* The first write of an append: the file and the digests gain one entry,
\* the mirror waits.
LEMMA AppendLineStep ==
    ASSUME NEW w, SoleWriter(w), SoleInv(w), NEW e \in Events, AppendLine(w, e)
    PROVE  SoleInv(w)'
<1>0. PICK n \in Nat : n = Len(oracle)
  BY DEF SoleInv, Digests
<1> DEFINE new == [seq |-> n, ev |-> e, hash |-> n + 1, prev |-> n]
<1>1. n = Len(oracle) /\ n \in 0 .. Len(oracle) /\ oracle \in Seq(Content)
  BY <1>0 DEF SoleInv, Digests
<1>2. chain[w].state = "open" /\ chain[w].pending = <<>>
  BY DEF AppendLine, StartAppend, Idle
<1>3. eol /\ Settled(chain[w])
  BY <1>2, OpenIdle
<1>4. chain[w].records = Written(n) /\ chain[w].next_seq = n
  BY <1>1, <1>3 DEF Settled
<1>5. TipHash(chain[w].records) = n /\ ~EndsTerminal(Written(n))
  BY <1>1, <1>2, <1>3, <1>4, WrittenFacts DEF SoleInv, Settled
<1>6. NewRecord(w, e) = new
  BY <1>1, <1>4, <1>5 DEF NewRecord
<1>7. oracle' = Append(oracle, [prev |-> n, ev |-> e])
  BY <1>5 DEF AppendLine, StartAppend
<1>8. [prev |-> n, ev |-> e] \in Content
  BY <1>1 DEF Content
<1>9. /\ oracle' \in Seq(Content) /\ Len(oracle') = n + 1
      /\ \A i \in 1 .. n : oracle'[i] = oracle[i]
      /\ oracle'[n + 1] = [prev |-> n, ev |-> e]
  BY <1>1, <1>7, <1>8
<1>10. \A i \in 1 .. n : Entry(i)' = Entry(i)
  BY <1>9 DEF Entry
<1>11. Entry(n + 1)' = new
  BY <1>1, <1>9 DEF Entry
<1>12. Digests'
  <2>1. n > 0 => oracle[n].ev \notin Terminal
    BY <1>1, <1>5, WrittenFacts DEF SoleInv
  <2>2. \A i \in 1 .. Len(oracle') : oracle'[i].prev = i - 1
    BY <1>1, <1>9 DEF SoleInv, Digests
  <2>3. \A i \in 1 .. (Len(oracle') - 1) : oracle'[i].ev \notin Terminal
    BY <1>1, <1>9, <2>1 DEF SoleInv, Digests
  <2> QED
    BY <1>9, <2>2, <2>3 DEF Digests
<1>13. Lines'
  <2>1. file' = Append(file, <<[rec |-> new, part |-> "full"]>>)
    BY <1>3, <1>6 DEF AppendLine, StartAppend, WritePiece
  <2>2. file = [i \in 1 .. n |-> <<[rec |-> Entry(i), part |-> "full"]>>]
    BY <1>1 DEF SoleInv, Lines
  <2> DEFINE line(i) == <<[rec |-> Entry(i), part |-> "full"]>>
  <2>3. file = [i \in 1 .. n |-> line(i)]
    BY <2>2
  <2> HIDE DEF line
  <2>4. /\ file' = [i \in 1 .. (n + 1) |->
                       IF i = n + 1 THEN <<[rec |-> new, part |-> "full"]>> ELSE line(i)]
    BY <1>1, <2>1, <2>3
  <2> DEFINE line2(i) == <<[rec |-> Entry(i)', part |-> "full"]>>
  <2>5. \A i \in 1 .. n : line(i) = line2(i)
    BY <1>10 DEF line
  <2>6. line2(n + 1) = <<[rec |-> new, part |-> "full"]>>
    BY <1>11
  <2> HIDE DEF line2
  <2>7. file' = [i \in 1 .. (n + 1) |-> line2(i)]
    BY <1>1, <2>4, <2>5, <2>6
  <2> QED
    BY <1>9, <2>7 DEF Lines, line2
<1>14. Written(n)' = Written(n)
  BY <1>10 DEF Written
<1>15. Mirror(w)'
  <2>1. chain' = [chain EXCEPT ![w] = [@ EXCEPT !.pending = <<new>>]] /\ ~eol'
    BY <1>6 DEF AppendLine, StartAppend
  <2>2. /\ chain'[w] = [chain[w] EXCEPT !.pending = <<new>>]
        /\ DOMAIN chain' = {w}
        /\ chain' = [p \in {w} |-> chain'[w]]
    BY <2>1 DEF SoleInv, Mirror
  <2>3. chain'[w] = [state    |-> "open",
                     records  |-> Written(n),
                     next_seq |-> n,
                     pending  |-> <<new>>]
    BY <2>2, <1>2, <1>4 DEF SoleInv, Mirror
  <2>4. Ahead(chain[w])'
    BY <2>3, <1>1, <1>9, <1>11, <1>14 DEF Ahead
  <2>5. eol' \in BOOLEAN
    BY DEF AppendLine, StartAppend
  <2> QED
    BY <2>1, <2>2, <2>3, <2>4, <2>5 DEF Mirror
<1>16. acked' \subseteq 1 .. Len(oracle') /\ faults' \in Nat
  BY <1>1, <1>9 DEF AppendLine, SoleInv
<1> QED
  BY <1>12, <1>13, <1>15, <1>16 DEF SoleInv

\* The second write of an append: the mirror catches up and the caller is
\* told the record is durable.
LEMMA AppendNewlineStep ==
    ASSUME NEW w, SoleWriter(w), SoleInv(w), AppendNewline(w)
    PROVE  SoleInv(w)'
<1>0. PICK n \in Nat : n = Len(oracle)
  BY DEF SoleInv, Digests
<1>r. PICK r : r = Entry(n)
  OBVIOUS
<1>1. chain[w].pending # <<>>
  BY DEF AppendNewline, Idle
<1>2. Ahead(chain[w])
  BY <1>1 DEF SoleInv, Mirror, Inert, Settled, Unloaded, Quarantined
<1>3. n = Len(oracle) /\ n > 0 /\ n \in 0 .. Len(oracle) /\ n - 1 \in 0 .. Len(oracle)
  BY <1>0, <1>2 DEF Ahead, SoleInv, Digests
<1>4. chain[w].pending[1] = r /\ r.ev = oracle[n].ev /\ r.hash = n
  BY <1>0, <1>2, <1>r DEF Ahead, Entry
<1>5. Append(Written(n - 1), r) = Written(n)
  <2>1. /\ Written(n - 1) \in Seq(Record) /\ Len(Written(n - 1)) = n - 1
        /\ Written(n) \in Seq(Record) /\ Len(Written(n)) = n
        /\ \A i \in 1 .. (n - 1) : Written(n - 1)[i] = Entry(i)
        /\ \A i \in 1 .. n : Written(n)[i] = Entry(i)
    BY <1>3, WrittenFacts DEF SoleInv
  <2>2. r \in Record
    BY <1>3, <1>r, <2>1
  <2>3. /\ Append(Written(n - 1), r) \in Seq(Record)
        /\ Len(Append(Written(n - 1), r)) = n
        /\ \A i \in 1 .. (n - 1) : Append(Written(n - 1), r)[i] = Written(n - 1)[i]
        /\ Append(Written(n - 1), r)[n] = r
    BY <1>3, <2>1, <2>2
  <2>4. \A i \in 1 .. n : Append(Written(n - 1), r)[i] = Written(n)[i]
    BY <1>3, <1>r, <2>1, <2>3
  <2> QED
    BY <1>3, <2>1, <2>3, <2>4, SameSeq
<1>6. EndsTerminal(Written(n)) <=> IsTerminal(r.ev)
  BY <1>3, <1>4, WrittenFacts DEF SoleInv, IsTerminal
<1>c. PICK c : c = Mirrored(chain[w])
  OBVIOUS
<1>6a. /\ chain[w].records = Written(n - 1)
       /\ chain[w].next_seq + 1 = n
  BY <1>2, <1>3 DEF Ahead
<1>7. c = [state    |-> IF IsTerminal(r.ev) THEN "closed" ELSE "open",
           records  |-> Written(n),
           next_seq |-> n,
           pending  |-> <<>>]
  BY <1>4, <1>5, <1>6a, <1>c DEF Mirrored
<1>8. /\ chain' = [chain EXCEPT ![w] = c] /\ eol'
      /\ UNCHANGED <<file, oracle, faults>>
      /\ acked' = acked \union {n}
  BY <1>4, <1>c DEF AppendNewline
<1>9. Settled(c)'
  BY <1>3, <1>6, <1>7, <1>8 DEF Settled, Written, Entry, EndsTerminal, IsTerminal
<1>10. Digests' /\ Lines'
  BY <1>8 DEF SoleInv, Digests, Lines, Entry
<1>11. chain'[w] = c /\ DOMAIN chain' = {w} /\ chain' = [p \in {w} |-> chain'[w]]
  BY <1>8 DEF SoleInv, Mirror
<1>12. Mirror(w)'
  <2>1. Settled(chain[w])'
    BY <1>9, <1>11 DEF Settled
  <2>2. eol' \in BOOLEAN
    BY DEF AppendNewline
  <2>3. chain'[w] = [state    |-> chain'[w].state,
                     records  |-> chain'[w].records,
                     next_seq |-> chain'[w].next_seq,
                     pending  |-> chain'[w].pending]
    BY <1>7, <1>11
  <2> QED
    BY <1>8, <1>11, <2>1, <2>2, <2>3 DEF Mirror
<1>13. acked' \subseteq 1 .. Len(oracle') /\ faults' \in Nat
  <2>1. n \in 1 .. n /\ acked \subseteq 1 .. n /\ Len(oracle') = n
    BY <1>0, <1>3, <1>8 DEF SoleInv
  <2> QED
    BY <1>8, <2>1 DEF SoleInv
<1> QED
  BY <1>10, <1>12, <1>13 DEF SoleInv

\* One step per action; the environment's faults other than "unreadable" do not occur.
LEMMA Inductive ==
    ASSUME NEW w, SoleWriter(w), SoleInv(w), [Next]_vars
    PROVE  SoleInv(w)'
<1>1. CASE UNCHANGED vars
  BY <1>1 DEF vars, SoleInv, Digests, Lines, Mirror, Inert, Settled, Ahead,
              Written, Entry, EndsTerminal, IsTerminal
<1>2. ~Fault("split") /\ ~Fault("torn") /\ ~Fault("bytes")
  BY DEF SoleWriter, Fault
<1>3. CASE Next
  <2>1. \/ Load(w) \/ LoadQuarantines(w) \/ AppendNewline(w)
        \/ Close(w) \/ Exit(w)
        \/ \E e \in Events : AppendLine(w, e)
    BY <1>2, <1>3 DEF Next, SoleWriter, AppendTorn, AppendUnterminated
  <2> QED
    BY <2>1, LoadStep, LoadQuarantinesStep, AppendLineStep, AppendNewlineStep,
       CloseStep, ExitStep
<1> QED
  BY <1>1, <1>3

\* The invariant holds throughout.
LEMMA SoleInvariant ==
    ASSUME NEW CONSTANT w, SoleWriter(w)
    PROVE  Spec => []SoleInv(w)
<1>1. Init => SoleInv(w)
  BY Initially
<1>2. SoleInv(w) /\ [Next]_vars => SoleInv(w)'
  BY Inductive
<1> QED
  BY <1>1, <1>2, PTL DEF Spec

-----------------------------------------------------------------------------
(* The theorems *)

\* SealChain::verify accepts the file at every moment, for any history of
\* loads, appends, closes, quarantines and restarts of the one writer.
THEOREM SoleChainVerifies ==
    ASSUME NEW CONSTANT w, SoleWriter(w)
    PROVE  Spec => []ChainVerifies
<1>1. SoleInv(w) => ChainVerifies
  <2> SUFFICES ASSUME SoleInv(w) PROVE ChainVerifies
    OBVIOUS
  <2> DEFINE n == Len(oracle)
  <2>1. n \in Nat /\ n \in 0 .. Len(oracle) /\ Digests
    BY DEF SoleInv, Digests
  <2>2. ParsedFile = Written(n)
    BY ParsedWritten DEF SoleInv
  <2>3. DOMAIN Written(n) = 1 .. n
    BY DEF Written
  <2>4. ASSUME NEW i \in 1 .. n
        PROVE  LET p == IF i = 1 THEN ZERO_HASH ELSE Written(n)[i - 1].hash
               IN  /\ Written(n)[i].prev = p
                   /\ HashMatches(Written(n)[i], p)
    <3>1. i # 1 => Written(n)[i - 1] = Entry(i - 1)
      BY <2>1, WrittenFacts
    <3>2. Written(n)[i] = Entry(i)
      BY <2>1, WrittenFacts
    <3>3. (IF i = 1 THEN ZERO_HASH ELSE Written(n)[i - 1].hash) = i - 1
      BY <2>1, <3>1 DEF ZERO_HASH, Entry
    <3>4. oracle[i] \in Content /\ oracle[i].prev = i - 1
      BY <2>1 DEF Digests
    <3>5. oracle[i] = [prev |-> i - 1, ev |-> oracle[i].ev]
      BY <3>4 DEF Content
    <3>6. HashMatches(Entry(i), i - 1) /\ Entry(i).prev = i - 1
      BY <3>5 DEF HashMatches, Entry
    <3> QED
      BY <3>2, <3>3, <3>6
  <2> QED
    BY <2>2, <2>3, <2>4 DEF ChainVerifies, Verify
<1> QED
  BY <1>1, SoleInvariant, PTL

\* Every record whose append returned Ok is found by every later load.
THEOREM SoleAckedDurable ==
    ASSUME NEW CONSTANT w, SoleWriter(w)
    PROVE  Spec => []AckedDurable
<1>1. SoleInv(w) => AckedDurable
  <2> SUFFICES ASSUME SoleInv(w), NEW h \in acked
               PROVE  h \in HashesOf(ParsedFile)
    BY DEF AckedDurable
  <2>1. h \in 1 .. Len(oracle) /\ Len(oracle) \in 0 .. Len(oracle) /\ Digests
    BY DEF SoleInv, Digests
  <2>2. ParsedFile = Written(Len(oracle)) /\ DOMAIN ParsedFile = 1 .. Len(oracle)
    BY ParsedWritten DEF SoleInv, Written
  <2>3. ParsedFile[h] = Entry(h)
    BY <2>1, <2>2, WrittenFacts
  <2>4. ParsedFile[h].hash = h
    BY <2>3 DEF Entry
  <2> QED
    BY <2>1, <2>2, <2>4 DEF HashesOf
<1> QED
  BY <1>1, SoleInvariant, PTL

\* agent.complete and agent.failed end their chain for good: a reload
\* re-derives `closed`, so nothing is ever appended after one.
THEOREM SoleNothingAfterTerminal ==
    ASSUME NEW CONSTANT w, SoleWriter(w)
    PROVE  Spec => []NothingAfterTerminal
<1>1. SoleInv(w) => NothingAfterTerminal
  <2> SUFFICES ASSUME SoleInv(w), NEW i \in 1 .. (Len(ParsedFile) - 1)
               PROVE  ~IsTerminal(ParsedFile[i].ev)
    BY DEF NothingAfterTerminal
  <2>1. Len(oracle) \in Nat /\ Len(oracle) \in 0 .. Len(oracle) /\ Digests
    BY DEF SoleInv, Digests
  <2>2. ParsedFile = Written(Len(oracle)) /\ Len(ParsedFile) = Len(oracle)
    BY <2>1, ParsedWritten, WrittenFacts DEF SoleInv
  <2>3. i \in 1 .. Len(oracle) /\ i \in 1 .. (Len(oracle) - 1)
    BY <2>1, <2>2
  <2>4. ParsedFile[i] = Entry(i)
    BY <2>1, <2>2, <2>3, WrittenFacts
  <2>5. ParsedFile[i].ev = oracle[i].ev
    BY <2>4 DEF Entry
  <2> QED
    BY <2>1, <2>3, <2>5 DEF Digests, IsTerminal
<1> QED
  BY <1>1, SoleInvariant, PTL

-----------------------------------------------------------------------------
(* Tampering *)

\* A non-empty set of naturals has a least element.
LEMMA LeastNatural ==
    ASSUME NEW T \in SUBSET Nat, T # {}
    PROVE  \E x \in T : \A y \in T : x <= y
<1> DEFINE R == OpToRel(<, Nat)
<1>1. \A x, y \in Nat : y < x => <<y, x>> \in R
  BY DEF OpToRel
<1>2. \E x \in T : \A y \in T : ~(<<y, x>> \in R)
  <2>1. IsWellFoundedOn(R, Nat)
    BY NatLessThanWellFounded
  <2> HIDE DEF R
  <2> QED
    BY <2>1, WFMin
<1> HIDE DEF R
<1>3. PICK x \in T : \A y \in T : ~(<<y, x>> \in R)
  BY <1>2
<1>4. \A y \in T : ~(y < x)
  BY <1>1, <1>3
<1> QED
  BY <1>4

\* A verifying selection of written records is a prefix of them: its first
\* record has no predecessor, and each digest has one successor.
LEMMA SelectionIsPrefix ==
    ASSUME Digests, NEW n \in 1 .. Len(oracle),
           NEW pick \in [1 .. n -> 1 .. Len(oracle)],
           Verify([i \in 1 .. n |-> Entry(pick[i])])
    PROVE  \A i \in 1 .. n : pick[i] = i
<1> DEFINE odd == {i \in 1 .. n : pick[i] # i}
<1>1. Len(oracle) \in Nat /\ n \in Nat
  BY DEF Digests
<1> SUFFICES ASSUME odd # {} PROVE FALSE
  OBVIOUS
<1>2. PICK i \in odd : \A j \in odd : i <= j
  <2>1. odd \in SUBSET Nat
    BY <1>1
  <2> HIDE DEF odd
  <2> QED
    BY <2>1, LeastNatural
<1>3. i \in 1 .. n /\ pick[i] # i /\ pick[i] \in 1 .. Len(oracle)
  OBVIOUS
<1>4. \A k \in 1 .. n : Entry(pick[k]).prev = pick[k] - 1 /\ Entry(pick[k]).hash = pick[k]
  BY DEF Entry
<1>5. \A k \in 1 .. n :
         Entry(pick[k]).prev = IF k = 1 THEN 0 ELSE Entry(pick[k - 1]).hash
  <2> DEFINE chosen == [k \in 1 .. n |-> Entry(pick[k])]
  <2>1. DOMAIN chosen = 1 .. n /\ \A k \in 1 .. n : chosen[k] = Entry(pick[k])
    OBVIOUS
  <2>2. Verify(chosen)
    OBVIOUS
  <2> HIDE DEF chosen
  <2>3. \A k \in 1 .. n : chosen[k].prev = IF k = 1 THEN 0 ELSE chosen[k - 1].hash
    BY <2>1, <2>2 DEF Verify, ZERO_HASH
  <2>4. \A k \in 1 .. n : k # 1 => k - 1 \in 1 .. n
    BY <1>1
  <2> QED
    BY <2>1, <2>3, <2>4
<1>6. CASE i = 1
  BY <1>1, <1>3, <1>4, <1>5, <1>6
<1>7. CASE i # 1
  <2>1. i - 1 \in 1 .. n /\ i - 1 \notin odd
    BY <1>1, <1>2, <1>3, <1>7
  <2>2. pick[i - 1] = i - 1
    BY <2>1
  <2>3. pick[i] - 1 = i - 1
    BY <1>3, <1>4, <1>5, <1>7, <2>1, <2>2
  <2> QED
    BY <1>1, <1>3, <2>3
<1> QED
  BY <1>6, <1>7

\* With one writer, what verify accepts of the written records is a prefix of
\* them and never a record with another event: SealChain::verify detects every
\* reordering, repetition, removal and edit short of cutting off the tail.
THEOREM SoleTamperEvident ==
    ASSUME NEW CONSTANT w, SoleWriter(w)
    PROVE  Spec => []TamperEvident
<1>1. SoleInv(w) => TamperEvident
  <2> SUFFICES ASSUME SoleInv(w) PROVE TamperEvident
    OBVIOUS
  <2>1. PICK m \in Nat : m = Len(oracle)
    BY DEF SoleInv, Digests
  <2>2. Digests /\ ParsedFile = Written(m)
    BY <2>1, ParsedWritten DEF SoleInv
  <2>3. ASSUME NEW n \in DOMAIN Written(m),
               NEW pick \in [1 .. n -> DOMAIN Written(m)],
               Verify([i \in 1 .. n |-> Written(m)[pick[i]]])
        PROVE  \A i \in 1 .. n : pick[i] = i
    <3>1. DOMAIN Written(m) = 1 .. m
      BY DEF Written
    <3>2. [i \in 1 .. n |-> Written(m)[pick[i]]] = [i \in 1 .. n |-> Entry(pick[i])]
      BY <3>1 DEF Written
    <3> QED
      BY <2>1, <2>2, <2>3, <3>1, <3>2, SelectionIsPrefix
  <2>4. ASSUME NEW i \in DOMAIN Written(m), NEW e \in Events \ {Written(m)[i].ev}
        PROVE  ~Verify([Written(m) EXCEPT ![i].ev = e])
    <3>1. i \in 1 .. m /\ Written(m)[i] = Entry(i)
      BY DEF Written
    <3> DEFINE forged == [Written(m) EXCEPT ![i].ev = e]
    <3>2. i \in DOMAIN forged /\ forged[i].hash = i /\ forged[i].ev = e
      BY <3>1 DEF Written, Entry
    <3>3. e # oracle[i].ev
      BY <3>1 DEF Entry
    <3> HIDE DEF forged
    <3>4. \A p : ~HashMatches(forged[i], p)
      BY <3>2, <3>3 DEF HashMatches
    <3>5. ~Verify(forged)
      BY <3>2, <3>4 DEF Verify
    <3> QED
      BY <3>5 DEF forged
  <2> QED
    BY <2>2, <2>3, <2>4 DEF TamperEvident
<1> QED
  BY <1>1, SoleInvariant, PTL

-----------------------------------------------------------------------------
(* Refinement *)

\* The chain implements the abstract append-only log: the first write of an
\* append is the abstract Extend, everything else a stuttering step.
THEOREM SoleImplementsSealLog ==
    ASSUME NEW CONSTANT w, SoleWriter(w)
    PROVE  Spec => ImplementsSealLog
<1>1. Init => Log!Init
  <2> SUFFICES ASSUME Init PROVE ParsedFile = <<>>
    BY DEF Log!Init
  <2>1. SoleInv(w) /\ Len(oracle) = 0
    BY Initially DEF Init
  <2>2. ParsedFile = Written(0)
    BY <2>1, ParsedWritten DEF SoleInv
  <2> QED
    BY <2>2 DEF Written
<1>2. SoleInv(w) => ParsedFile = Written(Len(oracle))
  BY ParsedWritten DEF SoleInv
<1>3. (SoleInv(w) => ParsedFile = Written(Len(oracle)))'
  BY <1>2, PTL
<1>4. SoleInv(w) /\ SoleInv(w)' /\ [Next]_vars => [Log!Next]_ParsedFile
  <2> SUFFICES ASSUME SoleInv(w), SoleInv(w)', [Next]_vars
               PROVE  Log!Next \/ ParsedFile' = ParsedFile
    OBVIOUS
  <2>1. ParsedFile = Written(Len(oracle)) /\ ParsedFile' = Written(Len(oracle))'
    BY <1>2, <1>3
  <2>2. CASE oracle' = oracle
    BY <2>1, <2>2 DEF Written, Entry
  <2>3. ASSUME NEW e \in Events, AppendLine(w, e)
        PROVE  Log!Next
    <3>1. PICK n \in Nat : n = Len(oracle)
      BY DEF SoleInv, Digests
    <3>2. n \in 0 .. Len(oracle) /\ Digests /\ oracle \in Seq(Content)
      BY <3>1 DEF SoleInv, Digests
    <3>3. Settled(chain[w]) /\ chain[w].state = "open"
      BY <2>3, OpenIdle DEF AppendLine, StartAppend, Idle
    <3>4. ParsedFile = Written(n) /\ ~EndsTerminal(ParsedFile)
          /\ chain[w].records = ParsedFile
      BY <2>1, <3>1, <3>3 DEF Settled
    <3>5. TipHash(ParsedFile) = n /\ Len(ParsedFile) = n
          /\ ParsedFile \in Seq(Record)
          /\ \A i \in 1 .. n : ParsedFile[i] = Entry(i)
      BY <3>2, <3>4, WrittenFacts
    <3>6. n + 1 \in 1 .. MaxRecords
      BY <2>3, <3>1, ChainConstants DEF AppendLine, StartAppend
    <3>7. oracle' = Append(oracle, [prev |-> n, ev |-> e])
      BY <2>3, <3>4, <3>5 DEF AppendLine, StartAppend
    <3>8. [prev |-> n, ev |-> e] \in Content
      BY DEF Content
    <3>9. /\ Len(oracle') = n + 1
          /\ \A i \in 1 .. n : oracle'[i] = oracle[i]
          /\ oracle'[n + 1].ev = e
      BY <3>1, <3>2, <3>7, <3>8
    <3> DEFINE new == [seq |-> n, ev |-> e, hash |-> n + 1, prev |-> n]
    <3>10. \A i \in 1 .. n : Entry(i)' = Entry(i)
      BY <3>9 DEF Entry
    <3>11. Entry(n + 1)' = new
      BY <3>9 DEF Entry
    <3>12. ParsedFile' = [i \in 1 .. (n + 1) |-> Entry(i)']
      BY <2>1, <3>9 DEF Written
    <3>13. ParsedFile = [i \in 1 .. n |-> Entry(i)]
      BY <3>4 DEF Written
    <3>14. ParsedFile' = Append(ParsedFile, new)
      <4>1. \A i \in 1 .. (n + 1) :
               Entry(i)' = IF i = n + 1 THEN new ELSE Entry(i)
        BY <3>10, <3>11
      <4> HIDE DEF new
      <4>2. Append(ParsedFile, new) =
               [i \in 1 .. (n + 1) |-> IF i = n + 1 THEN new ELSE Entry(i)]
        BY <3>13
      <4> QED
        BY <3>12, <4>1, <4>2
    <3>15. \A i \in DOMAIN ParsedFile : ParsedFile[i].hash # n + 1
      <4>1. \A i \in 1 .. n : Entry(i).hash # n + 1
        BY DEF Entry
      <4> QED
        BY <3>5, <4>1
    <3>16. Log!Extend(e, n + 1)
      BY <3>4, <3>5, <3>14, <3>15
         DEF Log!Extend, Log!Sealed, Log!TipOf, EndsTerminal, IsTerminal,
             TipHash, ZERO_HASH, Log!ZERO_HASH
    <3> QED
      BY <3>6, <3>16 DEF Log!Next
  <2>4. oracle' = oracle \/ \E e \in Events : AppendLine(w, e)
    <3>1. ~Fault("torn") /\ ~Fault("bytes")
      BY DEF SoleWriter, Fault
    <3> QED
      BY <3>1 DEF Next, vars, SoleWriter, Load, LoadQuarantines, AppendNewline,
         AppendTorn, AppendUnterminated, Close, Exit
  <2> QED
    BY <2>2, <2>3, <2>4
<1> QED
  BY <1>1, <1>4, SoleInvariant, PTL DEF Spec, ImplementsSealLog, Log!Spec

-----------------------------------------------------------------------------
(* Any number of processes and any faults *)

\* f[n] is what a load keeps of the first n lines.
Keeps(f, m) ==
    f = [n \in 0 .. m |-> IF n = 0 THEN <<>>
                          ELSE IF Parses(file[n]) THEN Append(f[n - 1], file[n][1].rec)
                          ELSE f[n - 1]]

\* The recursion defines a function: the least length for which it did not would be one
\* more than a length for which it does.
LEMMA KeepsExists ==
    ASSUME file \in Seq(Seq(Piece))
    PROVE  \A m \in 0 .. Len(file) : \E f : Keeps(f, m)
<1> DEFINE odd == {m \in 0 .. Len(file) : ~ \E f : Keeps(f, m)}
<1> SUFFICES ASSUME odd # {} PROVE FALSE
  OBVIOUS
<1>1. PICK m \in odd : \A k \in odd : m <= k
  <2>1. odd \in SUBSET Nat
    OBVIOUS
  <2> HIDE DEF odd
  <2> QED BY <2>1, LeastNatural
<1>2. m # 0
  <2>1. Keeps([n \in 0 .. 0 |-> <<>>], 0)
    BY DEF Keeps
  <2> QED BY <2>1
<1>3. m - 1 \in 0 .. Len(file) /\ m - 1 \notin odd /\ m \in Nat
  <2>1. m \in 0 .. Len(file) /\ Len(file) \in Nat
    OBVIOUS
  <2> HIDE DEF odd
  <2> QED BY <1>1, <1>2, <2>1
<1>4. PICK f : Keeps(f, m - 1)
  BY <1>3
<1> DEFINE last == IF Parses(file[m]) THEN Append(f[m - 1], file[m][1].rec) ELSE f[m - 1]
           g == [n \in 0 .. m |-> IF n = m THEN last ELSE f[n]]
           e(n) == IF n = 0 THEN <<>>
                          ELSE IF Parses(file[n]) THEN Append(f[n - 1], file[n][1].rec)
                          ELSE f[n - 1]
           d(n) == IF n = 0 THEN <<>>
                          ELSE IF Parses(file[n]) THEN Append(g[n - 1], file[n][1].rec)
                          ELSE g[n - 1]
<1>5. \A n \in 0 .. (m - 1) : f[n] = e(n)
  BY <1>4 DEF Keeps
<1>6. \A n \in 0 .. (m - 1) : g[n] = f[n]
  BY <1>3
<1>7. last = d(m)
  BY <1>2, <1>3, <1>6
<1>8. \A n \in 0 .. (m - 1) : n # 0 => n - 1 \in 0 .. (m - 1)
  BY <1>3
<1>9. \A n \in 0 .. m : g[n] = d(n)
  <2> SUFFICES ASSUME NEW n \in 0 .. m PROVE g[n] = d(n)
    OBVIOUS
  <2>1. CASE n = m
    BY <2>1, <1>7
  <2>2. CASE n # m
    <3>1. n \in 0 .. (m - 1)
      BY <2>2, <1>3
    <3>2. g[n] = e(n)
      BY <3>1, <1>5, <1>6
    <3>3. n # 0 => g[n - 1] = f[n - 1]
      BY <3>1, <1>6, <1>8
    <3> HIDE DEF g
    <3> QED BY <3>2, <3>3
  <2> QED BY <2>1, <2>2
<1>10. DOMAIN g = 0 .. m /\ g = [n \in 0 .. m |-> g[n]]
  OBVIOUS
<1>11. g = [n \in 0 .. m |-> d(n)]
  <2> HIDE DEF g, d
  <2> QED BY <1>9, <1>10
<1>12. Keeps(g, m)
  <2> HIDE DEF g
  <2> QED BY <1>11 DEF Keeps
<1> QED BY <1>1, <1>12

\* The function ParsedFile is defined with.
Kept == CHOOSE f : Keeps(f, Len(file))

\* A line that parses is one record.
LEMMA ParsesRecord ==
    ASSUME NEW line \in Seq(Piece), Parses(line)
    PROVE  line[1] \in Piece /\ line[1].rec \in Record /\ 1 \in DOMAIN line
           /\ line[1] = [rec |-> line[1].rec, part |-> "full"]
<1>1. line[1] \in Piece /\ 1 \in DOMAIN line /\ line[1].part = "full"
  <2>1. Len(line) = 1 /\ line[1].part = "full"
    BY DEF Parses
  <2>2. line \in [1 .. Len(line) -> Piece]
    OBVIOUS
  <2>3. 1 \in 1 .. Len(line)
    BY <2>1
  <2> QED BY <2>1, <2>2, <2>3
<1> QED BY <1>1 DEF Piece

\* What a load finds was written, each record as a line of its own.
LEMMA ParsedRecords ==
    ASSUME file \in Seq(Seq(Piece))
    PROVE  /\ ParsedFile \in Seq(Record)
           /\ \A i \in DOMAIN ParsedFile : \E l \in DOMAIN file :
                  Parses(file[l]) /\ file[l][1].rec = ParsedFile[i]
<1>0. /\ Len(file) \in Nat /\ DOMAIN file = 1 .. Len(file)
      /\ \A l \in 1 .. Len(file) : file[l] \in Seq(Piece)
  OBVIOUS
<1>1. CASE \A i \in DOMAIN file : Parses(file[i])
  <2>1. ParsedFile = [i \in 1 .. Len(file) |-> file[i][1].rec]
    BY <1>0, <1>1 DEF ParsedFile
  <2>2. \A i \in 1 .. Len(file) : file[i][1].rec \in Record
    BY <1>0, <1>1, ParsesRecord
  <2>3. ParsedFile \in Seq(Record) /\ DOMAIN ParsedFile = 1 .. Len(file)
    BY <1>0, <2>1, <2>2
  <2> QED BY <1>0, <1>1, <2>1, <2>3
<1>2. CASE ~(\A i \in DOMAIN file : Parses(file[i]))
  <2>1. PICK f : Keeps(f, Len(file)) /\ ParsedFile = f[Len(file)]
    <3>1. \E f : Keeps(f, Len(file))
      BY <1>0, KeepsExists
    <3>2. Keeps(Kept, Len(file))
      BY <3>1 DEF Kept
    <3>3. ParsedFile = Kept[Len(file)]
      BY <1>2 DEF ParsedFile, Kept, Keeps
    <3> QED BY <3>2, <3>3
  <2> DEFINE Good(n) == /\ f[n] \in Seq(Record)
                        /\ \A i \in DOMAIN f[n] : \E l \in DOMAIN file :
                              Parses(file[l]) /\ file[l][1].rec = f[n][i]
             odd == {n \in 0 .. Len(file) : ~Good(n)}
  <2> SUFFICES ASSUME odd # {} PROVE FALSE
    BY <1>0, <2>1
  <2>2. PICK n \in odd : \A k \in odd : n <= k
    <3>1. odd \in SUBSET Nat
      BY <1>0
    <3> HIDE DEF odd
    <3> QED BY <3>1, LeastNatural
  <2>3. n \in 0 .. Len(file) /\ ~Good(n)
    OBVIOUS
  <2>4. f[0] = <<>>
    BY <1>0, <2>1 DEF Keeps
  <2>5. n # 0
    <3>1. f[0] \in Seq(Record) /\ DOMAIN f[0] = {}
      BY <2>4
    <3>2. Good(0)
      BY <3>1
    <3> HIDE DEF Good
    <3> QED BY <2>3, <3>2
  <2>6. n \in 1 .. Len(file) /\ n - 1 \in 0 .. Len(file) /\ n - 1 \notin odd
    <3> HIDE DEF odd
    <3> QED BY <1>0, <2>2, <2>3, <2>5
  <2>7. Good(n - 1)
    BY <2>6
  <2>8. f[n] = IF Parses(file[n]) THEN Append(f[n - 1], file[n][1].rec) ELSE f[n - 1]
    <3>1. n # 0 /\ n \in 0 .. Len(file)
      BY <2>3, <2>5
    <3>2. \A k \in 0 .. Len(file) :
             f[k] = IF k = 0 THEN <<>>
                    ELSE IF Parses(file[k]) THEN Append(f[k - 1], file[k][1].rec)
                    ELSE f[k - 1]
      BY <2>1 DEF Keeps
    <3> HIDE DEF Good, odd
    <3> QED BY <3>1, <3>2
  <2>9. CASE Parses(file[n])
    <3>1. file[n][1].rec \in Record
      BY <1>0, <2>6, <2>9, ParsesRecord
    <3> DEFINE s == f[n - 1]
               r == file[n][1].rec
    <3>2. f[n] = Append(s, r) /\ s \in Seq(Record) /\ r \in Record
      BY <2>7, <2>8, <2>9, <3>1
    <3> HIDE DEF s, r
    <3>3. f[n] \in Seq(Record)
          /\ \A i \in DOMAIN f[n] : f[n][i] = r \/ (i \in DOMAIN s /\ f[n][i] = s[i])
      BY <3>2
    <3>4. Good(n)
      BY <1>0, <2>6, <2>7, <2>9, <3>3 DEF s, r
    <3> QED BY <2>3, <3>4
  <2>10. CASE ~Parses(file[n])
    BY <2>3, <2>7, <2>8, <2>10
  <2> QED BY <2>9, <2>10
<1> QED BY <1>1, <1>2

-----------------------------------------------------------------------------
(* The invariant for any processes and any faults *)

\* r is somewhere in a file of these lines, whole.
InFile(lines, r) ==
    \E l \in DOMAIN lines : \E j \in DOMAIN lines[l] :
        lines[l][j] = [rec |-> r, part |-> "full"]

\* The digests in the file were computed, and an unfinished line is a line.
DigestsComputed ==
    /\ ~eol => file # <<>>
    /\ \A l \in DOMAIN file : \A j \in DOMAIN file[l] :
          file[l][j].rec.hash \in 1 .. Len(oracle)

\* The record of an append that is under way is in the file, extends the mirror and
\* carries the digest that was computed for it.
PendingExtends ==
    \A p \in Procs : chain[p].pending # <<>> =>
        LET r == chain[p].pending[1] IN
        /\ InFile(file, r)
        /\ r.prev = TipHash(chain[p].records)
        /\ HashMatches(r, r.prev)

MirrorInv == TypeOK /\ DigestsComputed /\ PendingExtends /\ MirrorOnlyWritten

\* The records of a mirror and of a pending append have digests that were computed.
LEMMA InFileComputed ==
    ASSUME MirrorInv, NEW r, InFile(file, r)
    PROVE  r.hash \in 1 .. Len(oracle)
  BY DEF MirrorInv, DigestsComputed, InFile

\* A write leaves what the file holds where it is.
LEMMA WriteKeeps ==
    ASSUME MirrorInv, NEW piece \in Piece, WritePiece(piece)
    PROVE  /\ file' \in Seq(Seq(Piece)) /\ file' # <<>>
           /\ \A l \in DOMAIN file : \A j \in DOMAIN file[l] :
                 /\ l \in DOMAIN file' /\ j \in DOMAIN file'[l]
                 /\ file'[l][j] = file[l][j]
           /\ \A l \in DOMAIN file' : \A j \in DOMAIN file'[l] :
                 \/ file'[l][j] = piece
                 \/ l \in DOMAIN file /\ j \in DOMAIN file[l] /\ file'[l][j] = file[l][j]
           /\ \E l \in DOMAIN file' : \E j \in DOMAIN file'[l] : file'[l][j] = piece
<1>0. /\ file \in Seq(Seq(Piece)) /\ (~eol => file # <<>>)
      /\ Len(file) \in Nat /\ DOMAIN file = 1 .. Len(file)
      /\ \A l \in DOMAIN file : file[l] \in Seq(Piece) /\ Len(file[l]) \in Nat
  BY DEF MirrorInv, TypeOK, DigestsComputed
<1>1. CASE eol
  <2>1. file' = Append(file, <<piece>>) /\ <<piece>> \in Seq(Piece)
    BY <1>1 DEF WritePiece
  <2>2. /\ file' \in Seq(Seq(Piece)) /\ DOMAIN file' = 1 .. Len(file) + 1
        /\ \A l \in DOMAIN file : file'[l] = file[l]
        /\ file'[Len(file) + 1] = <<piece>>
    BY <1>0, <2>1
  <2>3. DOMAIN <<piece>> = {1} /\ <<piece>>[1] = piece
    OBVIOUS
  <2>4. file' # <<>> /\ Len(file) + 1 \in DOMAIN file'
    BY <1>0, <2>2
  <2>5. \A l \in DOMAIN file' : l \in DOMAIN file \/ l = Len(file) + 1
    BY <1>0, <2>2
  <2>6. \A l \in DOMAIN file : l \in DOMAIN file'
    BY <1>0, <2>2
  <2>7. \A l \in DOMAIN file' : \A j \in DOMAIN file'[l] :
           \/ file'[l][j] = piece
           \/ l \in DOMAIN file /\ j \in DOMAIN file[l] /\ file'[l][j] = file[l][j]
    BY <2>2, <2>3, <2>5
  <2> QED BY <2>2, <2>3, <2>4, <2>6, <2>7
<1>2. CASE ~eol
  <2> DEFINE n == Len(file)
             x == Append(file[n], piece)
  <2>1. n \in DOMAIN file /\ file[n] \in Seq(Piece) /\ Len(file[n]) \in Nat
    BY <1>0, <1>2
  <2>2. /\ x \in Seq(Piece) /\ DOMAIN x = 1 .. Len(file[n]) + 1
        /\ \A j \in DOMAIN file[n] : j \in DOMAIN x /\ x[j] = file[n][j]
        /\ x[Len(file[n]) + 1] = piece
        /\ \A j \in DOMAIN x : x[j] = piece \/ (j \in DOMAIN file[n] /\ x[j] = file[n][j])
    BY <2>1
  <2>3. file' = [file EXCEPT ![n] = x]
    BY <1>2 DEF WritePiece
  <2> HIDE DEF x
  <2>4. /\ file' \in Seq(Seq(Piece)) /\ DOMAIN file' = DOMAIN file
        /\ \A l \in DOMAIN file : file'[l] = IF l = n THEN x ELSE file[l]
    BY <1>0, <2>1, <2>2, <2>3
  <2>5. file' # <<>>
    BY <2>1, <2>4
  <2>6. \E l \in DOMAIN file' : \E j \in DOMAIN file'[l] : file'[l][j] = piece
    <3>1. Len(file[n]) + 1 \in DOMAIN x
      BY <2>1, <2>2
    <3> QED BY <2>1, <2>2, <2>4, <3>1
  <2> HIDE DEF n
  <2> QED BY <2>1, <2>2, <2>4, <2>5, <2>6
<1> QED BY <1>1, <1>2

\* A step that leaves the file and the digests alone and gives one process a chain
\* with a written mirror, and no pending record or the one it had.
LEMMA ChainStep ==
    ASSUME MirrorInv, NEW p \in Procs, NEW c \in ChainType, chain' = [chain EXCEPT ![p] = c],
           UNCHANGED <<file, oracle>>, eol' \in BOOLEAN, ~eol' => ~eol,
           c.pending = <<>>, \A i \in DOMAIN c.records : InFile(file, c.records[i]),
           acked' \subseteq 1 .. Len(oracle), faults' \in Nat
    PROVE  MirrorInv'
<1>1. \A q \in Procs : chain'[q] = IF q = p THEN c ELSE chain[q]
  BY DEF MirrorInv, TypeOK
<1>2. Len(c.pending) <= 1
  OBVIOUS
<1>3. TypeOK'
  <2>1. chain' \in [Procs -> ChainType]
    BY DEF MirrorInv, TypeOK
  <2>2. \A q \in Procs : Len(chain'[q].pending) <= 1
    BY <1>1, <1>2 DEF MirrorInv, TypeOK
  <2> QED BY <2>1, <2>2 DEF MirrorInv, TypeOK
<1>4. DigestsComputed'
  BY DEF MirrorInv, DigestsComputed
<1>5. PendingExtends'
  BY <1>1 DEF MirrorInv, PendingExtends, InFile, HashMatches
<1>6. MirrorOnlyWritten'
  BY <1>1 DEF MirrorInv, MirrorOnlyWritten, InFile
<1> QED BY <1>3, <1>4, <1>5, <1>6 DEF MirrorInv

\* The parts of a chain have their types.
LEMMA ChainParts ==
    ASSUME MirrorInv, NEW p \in Procs
    PROVE  /\ chain[p] \in ChainType /\ chain[p].records \in Seq(Record)
           /\ chain[p].next_seq \in Nat /\ chain[p].pending \in Seq(Record)
           /\ TipHash(chain[p].records) \in Nat
           /\ \A i \in DOMAIN chain[p].records : InFile(file, chain[p].records[i])
           /\ chain[p].pending # <<>> => chain[p].pending[1] \in Record
<1>1. chain[p] \in ChainType
  BY DEF MirrorInv, TypeOK
<1>2. chain[p].records \in Seq(Record) /\ chain[p].next_seq \in Nat
          /\ chain[p].pending \in Seq(Record)
  BY <1>1 DEF ChainType
<1> DEFINE s == chain[p].records
<1>3. s # <<>> => Len(s) \in 1 .. Len(s) /\ s[Len(s)] \in Record
  BY <1>2
<1>4. TipHash(s) \in Nat
  BY <1>3 DEF TipHash, ZERO_HASH, Record
<1>5. chain[p].pending # <<>> => chain[p].pending[1] \in Record
  BY <1>2
<1> QED BY <1>1, <1>2, <1>4, <1>5 DEF MirrorInv, MirrorOnlyWritten, InFile

\* The empty chains.
LEMMA EmptyChains ==
    /\ Unloaded \in ChainType /\ Quarantined \in ChainType
    /\ Unloaded.pending = <<>> /\ Quarantined.pending = <<>>
    /\ Unloaded.records = <<>> /\ Quarantined.records = <<>>
    /\ DOMAIN Unloaded.records = {} /\ DOMAIN Quarantined.records = {}
  BY DEF Unloaded, Quarantined, ChainType

\* The first write of an append, complete or not: the file gains the record's bytes and
\* the digests gain one, whatever chain is left in memory for the writer.
LEMMA StartStep ==
    ASSUME MirrorInv, NEW p \in Procs, NEW e \in Events, NEW part \in {"full", "torn", "bytes"},
           StartAppend(p, e, part), NEW c \in ChainType, chain' = [chain EXCEPT ![p] = c],
           c.records = chain[p].records \/ c.records = <<>>,
           \/ c.pending = <<>>
           \/ /\ part = "full" /\ c.records = chain[p].records
              /\ c.pending = <<NewRecord(p, e)>>,
           acked' = acked, faults' \in Nat
    PROVE  /\ MirrorInv'
           /\ \A h \in 1 .. Len(oracle) : oracle'[h] = oracle[h]
<1> DEFINE r == NewRecord(p, e)
           piece == [rec |-> r, part |-> part]
           content == [prev |-> TipHash(chain[p].records), ev |-> e]
           n == Len(oracle)
<1>0. oracle \in Seq(Content) /\ n \in Nat
  BY DEF MirrorInv, TypeOK
<1>1. r \in Record
  BY <1>0, ChainParts DEF NewRecord, Record
<1>2. piece \in Piece /\ content \in Content
  BY <1>1, ChainParts DEF Piece, Content
<1>3. r.hash = n + 1 /\ r.prev = TipHash(chain[p].records) /\ r.ev = e
  BY DEF NewRecord
<1>4. oracle' = Append(oracle, content) /\ WritePiece(piece) /\ eol' = FALSE
  BY DEF StartAppend
<1> HIDE DEF r, content
<1>5. /\ oracle' \in Seq(Content) /\ Len(oracle') = n + 1
      /\ oracle'[n + 1] = content
      /\ \A h \in 1 .. Len(oracle) : oracle'[h] = oracle[h]
  BY <1>0, <1>2, <1>4
<1>6. /\ file' \in Seq(Seq(Piece)) /\ file' # <<>>
      /\ \A l \in DOMAIN file : \A j \in DOMAIN file[l] :
            l \in DOMAIN file' /\ j \in DOMAIN file'[l] /\ file'[l][j] = file[l][j]
      /\ \A l \in DOMAIN file' : \A j \in DOMAIN file'[l] :
            \/ file'[l][j] = piece
            \/ l \in DOMAIN file /\ j \in DOMAIN file[l] /\ file'[l][j] = file[l][j]
      /\ \E l \in DOMAIN file' : \E j \in DOMAIN file'[l] : file'[l][j] = piece
  BY <1>2, <1>4, WriteKeeps
<1>7. \A q \in Procs : chain'[q] = IF q = p THEN c ELSE chain[q]
  BY DEF MirrorInv, TypeOK
<1>8. \A x : InFile(file, x) => InFile(file', x)
  <2> SUFFICES ASSUME NEW x, InFile(file, x) PROVE InFile(file', x)
    OBVIOUS
  <2>1. PICK l \in DOMAIN file : \E j \in DOMAIN file[l] : file[l][j] = [rec |-> x, part |-> "full"]
    BY DEF InFile
  <2>2. PICK j \in DOMAIN file[l] : file[l][j] = [rec |-> x, part |-> "full"]
    BY <2>1
  <2>3. l \in DOMAIN file' /\ j \in DOMAIN file'[l] /\ file'[l][j] = file[l][j]
    BY <1>6
  <2> QED BY <2>2, <2>3 DEF InFile
<1>9. TypeOK'
  <2>1. chain' \in [Procs -> ChainType]
    BY DEF MirrorInv, TypeOK
  <2>2. Len(<<>>) <= 1 /\ Len(<<r>>) <= 1
    OBVIOUS
  <2>2a. Len(c.pending) <= 1
    BY <2>2 DEF r
  <2>3. \A q \in Procs : Len(chain'[q].pending) <= 1
    BY <1>7, <2>2a DEF MirrorInv, TypeOK
  <2>4. acked' \subseteq 1 .. Len(oracle')
    BY <1>0, <1>5 DEF MirrorInv, TypeOK
  <2> QED BY <1>4, <1>5, <1>6, <2>1, <2>3, <2>4 DEF TypeOK
<1>10. DigestsComputed'
  <2>1. piece.rec.hash \in 1 .. Len(oracle')
    BY <1>0, <1>3, <1>5
  <2>2. \A l \in DOMAIN file : \A j \in DOMAIN file[l] : file[l][j].rec.hash \in 1 .. Len(oracle')
    BY <1>0, <1>5 DEF MirrorInv, DigestsComputed
  <2> HIDE DEF piece
  <2> QED BY <1>4, <1>6, <2>1, <2>2 DEF DigestsComputed
<1>11. PendingExtends'
  <2> SUFFICES ASSUME NEW q \in Procs, chain'[q].pending # <<>>
               PROVE  LET x == chain'[q].pending[1] IN
                      /\ InFile(file', x)
                      /\ x.prev = TipHash(chain'[q].records)
                      /\ oracle'[x.hash] = [prev |-> x.prev, ev |-> x.ev]
    BY DEF PendingExtends, HashMatches, TipHash
  <2>1. CASE q = p
    <3>1. c.pending = <<r>> /\ part = "full" /\ c.records = chain[p].records /\ chain'[q] = c
      BY <1>7, <2>1 DEF r
    <3>2. InFile(file', r)
      BY <1>6, <3>1 DEF InFile
    <3> QED BY <1>3, <1>5, <3>1, <3>2 DEF content
  <2>2. CASE q # p
    <3> DEFINE x == chain[q].pending[1]
    <3>1. /\ chain'[q] = chain[q] /\ InFile(file, x) /\ x.prev = TipHash(chain[q].records)
          /\ oracle[x.hash] = [prev |-> x.prev, ev |-> x.ev]
      BY <1>7, <2>2 DEF MirrorInv, PendingExtends, HashMatches
    <3>2. oracle'[x.hash] = oracle[x.hash]
      BY <1>5, <3>1, InFileComputed
    <3> QED BY <1>8, <3>1, <3>2
  <2> QED BY <2>1, <2>2
<1>12. MirrorOnlyWritten'
  <2>1. \A q \in Procs : \A i \in DOMAIN chain'[q].records :
           i \in DOMAIN chain[q].records /\ chain'[q].records[i] = chain[q].records[i]
    BY <1>7
  <2>2. \A q \in Procs : \A i \in DOMAIN chain'[q].records : InFile(file', chain'[q].records[i])
    BY <1>8, <2>1, ChainParts
  <2> QED BY <2>2 DEF MirrorOnlyWritten, InFile
<1> QED BY <1>5, <1>9, <1>10, <1>11, <1>12 DEF MirrorInv

\* The invariant holds at the start.
LEMMA MirrorInit == Init => MirrorInv
<1> SUFFICES ASSUME Init PROVE MirrorInv
  OBVIOUS
<1>1. \A p \in Procs : chain[p] = Unloaded
  BY DEF Init
<1>2. TypeOK
  <2>1. chain \in [Procs -> ChainType]
    BY EmptyChains DEF Init
  <2>2. \A p \in Procs : Len(chain[p].pending) <= 1
    BY <1>1, EmptyChains
  <2> QED BY <2>1, <2>2 DEF Init, TypeOK
<1>3. DigestsComputed
  BY DEF Init, DigestsComputed
<1> QED
  BY <1>1, <1>2, <1>3, EmptyChains DEF MirrorInv, PendingExtends, MirrorOnlyWritten

\* Every step of every process, fault or not, keeps the invariant; the digests only grow.
LEMMA MirrorKept ==
    ASSUME MirrorInv, [Next]_vars
    PROVE  MirrorInv' /\ \A h \in 1 .. Len(oracle) : oracle'[h] = oracle[h]
<1> DEFINE Goal == MirrorInv' /\ \A h \in 1 .. Len(oracle) : oracle'[h] = oracle[h]
<1>0. file \in Seq(Seq(Piece)) /\ eol \in BOOLEAN /\ faults \in Nat
          /\ acked \subseteq 1 .. Len(oracle)
  BY DEF MirrorInv, TypeOK
<1>1. ASSUME NEW p \in Procs, Load(p) PROVE Goal
  <2> DEFINE s == ParsedFile
             c == [state    |-> IF EndsTerminal(s) THEN "closed" ELSE "open",
                   records  |-> s, next_seq |-> NextSeq(s), pending  |-> <<>>]
  <2>1. s \in Seq(Record)
    BY <1>0, ParsedRecords
  <2>2. \A i \in DOMAIN s : InFile(file, s[i])
    <3> SUFFICES ASSUME NEW i \in DOMAIN s PROVE InFile(file, s[i])
      OBVIOUS
    <3>1. PICK l \in DOMAIN file : Parses(file[l]) /\ file[l][1].rec = s[i]
      BY <1>0, ParsedRecords
    <3>2. file[l] \in Seq(Piece)
      BY <1>0
    <3> QED BY <3>1, <3>2, ParsesRecord DEF InFile
  <2>3. chain' = [chain EXCEPT ![p] = c] /\ UNCHANGED <<file, eol, oracle, acked, faults>>
    BY <1>1 DEF Load
  <2> HIDE DEF s
  <2>4. NextSeq(s) \in Nat
    <3>1. s # <<>> => Len(s) \in 1 .. Len(s) /\ s[Len(s)] \in Record
      BY <2>1
    <3> QED BY <3>1 DEF NextSeq, Record
  <2>5. c \in ChainType /\ c.pending = <<>> /\ c.records = s
    BY <2>1, <2>4 DEF ChainType
  <2> HIDE DEF c
  <2> QED BY <1>0, <2>2, <2>3, <2>5, ChainStep
<1>2. ASSUME NEW p \in Procs, LoadQuarantines(p) PROVE Goal
  <2>1. faults' \in Nat
    BY <1>0, <1>2 DEF LoadQuarantines, Fault
  <2> QED BY <1>0, <1>2, <2>1, EmptyChains, ChainStep DEF LoadQuarantines
<1>3. ASSUME NEW p \in Procs, NEW e \in Events, AppendLine(p, e) PROVE Goal
  <2> DEFINE c == [chain[p] EXCEPT !.pending = <<NewRecord(p, e)>>]
             r == NewRecord(p, e)
  <2>1. r \in Record
    BY ChainParts DEF NewRecord, Record, MirrorInv, TypeOK
  <2>2. <<r>> \in Seq(Record)
    BY <2>1
  <2>3. chain' = [chain EXCEPT ![p] = c] /\ StartAppend(p, e, "full") /\ acked' = acked
            /\ faults' = faults
    BY <1>3 DEF AppendLine
  <2> HIDE DEF r
  <2>4. c \in ChainType
    BY <2>2, ChainParts, Zenon DEF ChainType, r
  <2>5. c.records = chain[p].records /\ c.pending = <<r>>
    BY ChainParts DEF ChainType, r
  <2> HIDE DEF c
  <2> QED BY <1>0, <2>3, <2>4, <2>5, StartStep DEF r
<1>4. ASSUME NEW p \in Procs, AppendNewline(p) PROVE Goal
  <2> DEFINE r == chain[p].pending[1]
             c == [state |-> IF IsTerminal(r.ev) THEN "closed" ELSE "open",
                   records |-> Append(chain[p].records, r),
                   next_seq |-> chain[p].next_seq + 1, pending |-> <<>>]
  <2>1. r \in Record /\ InFile(file, r)
    BY <1>4, ChainParts DEF AppendNewline, Idle, MirrorInv, PendingExtends
  <2>2. /\ chain' = [chain EXCEPT ![p] = c] /\ eol' = TRUE /\ acked' = acked \union {r.hash}
        /\ UNCHANGED <<file, oracle, faults>>
    BY <1>4 DEF AppendNewline, Mirrored
  <2>3. r.hash \in 1 .. Len(oracle)
    BY <2>1, InFileComputed
  <2> HIDE DEF r
  <2>4. /\ Append(chain[p].records, r) \in Seq(Record)
        /\ \A i \in DOMAIN Append(chain[p].records, r) :
              InFile(file, Append(chain[p].records, r)[i])
    <3> DEFINE s == chain[p].records
    <3>1. s \in Seq(Record) /\ \A i \in DOMAIN s : InFile(file, s[i])
      BY ChainParts
    <3> HIDE DEF s
    <3>2. /\ Append(s, r) \in Seq(Record)
          /\ \A i \in DOMAIN Append(s, r) :
                Append(s, r)[i] = r \/ (i \in DOMAIN s /\ Append(s, r)[i] = s[i])
      BY <2>1, <3>1
    <3>3. \A i \in DOMAIN Append(s, r) : InFile(file, Append(s, r)[i])
      BY <2>1, <3>1, <3>2
    <3> QED BY <3>2, <3>3 DEF s
  <2>5. c \in ChainType /\ c.pending = <<>> /\ c.records = Append(chain[p].records, r)
    BY <2>4, ChainParts DEF ChainType
  <2> HIDE DEF c
  <2> QED BY <1>0, <2>2, <2>3, <2>4, <2>5, ChainStep
<1>5. ASSUME NEW p \in Procs, NEW dies \in BOOLEAN
      PROVE  /\ AfterFailure(chain[p], dies) \in ChainType
             /\ AfterFailure(chain[p], dies).pending = <<>>
             /\ \/ AfterFailure(chain[p], dies).records = <<>>
                \/ AfterFailure(chain[p], dies).records = chain[p].records
  <2>1. CASE dies
    BY <2>1, EmptyChains DEF AfterFailure
  <2>2. CASE ~dies
    <3>1. <<>> \in Seq(Record)
      OBVIOUS
    <3>2. [chain[p] EXCEPT !.pending = <<>>] \in ChainType
      BY <3>1, ChainParts, Zenon DEF ChainType
    <3>3. /\ [chain[p] EXCEPT !.pending = <<>>].pending = <<>>
          /\ [chain[p] EXCEPT !.pending = <<>>].records = chain[p].records
      BY ChainParts DEF ChainType
    <3> QED BY <2>2, <3>2, <3>3 DEF AfterFailure
  <2> QED BY <2>1, <2>2
<1>6. ASSUME NEW p \in Procs, NEW e \in Events, NEW part \in {"torn", "bytes"},
             NEW dies \in BOOLEAN, AppendTorn(p, e, part, dies)
      PROVE  Goal
  <2>1. PICK c : c = AfterFailure(chain[p], dies)
    OBVIOUS
  <2>2. chain' = [chain EXCEPT ![p] = c]
    BY <1>6, <2>1 DEF AppendTorn
  <2>3. faults' \in Nat /\ StartAppend(p, e, part) /\ acked' = acked
    BY <1>0, <1>6 DEF AppendTorn, Fault
  <2> QED BY <1>5, <2>1, <2>2, <2>3, StartStep
<1>7. ASSUME NEW p \in Procs, NEW dies \in BOOLEAN, AppendUnterminated(p, dies) PROVE Goal
  <2>1. PICK c : c = AfterFailure(chain[p], dies)
    OBVIOUS
  <2>2. chain' = [chain EXCEPT ![p] = c]
    BY <1>7, <2>1 DEF AppendUnterminated
  <2>3. faults' \in Nat /\ UNCHANGED <<file, eol, oracle, acked>>
    BY <1>0, <1>7 DEF AppendUnterminated, Fault
  <2>4. \A i \in DOMAIN c.records : InFile(file, c.records[i])
    BY <1>5, <2>1, ChainParts
  <2> QED BY <1>0, <1>5, <2>1, <2>2, <2>3, <2>4, ChainStep
<1>8. ASSUME NEW p \in Procs, Close(p) PROVE Goal
  <2> DEFINE c == [chain[p] EXCEPT !.state = "closed"]
  <2>1. c \in ChainType
    BY ChainParts, Zenon DEF ChainType
  <2>2. c.records = chain[p].records /\ c.pending = chain[p].pending
    BY ChainParts DEF ChainType
  <2>3. chain' = [chain EXCEPT ![p] = c] /\ UNCHANGED <<file, eol, oracle, acked, faults>>
        /\ chain[p].pending = <<>>
    BY <1>8 DEF Close, Idle
  <2> HIDE DEF c
  <2> QED BY <1>0, <2>1, <2>2, <2>3, ChainParts, ChainStep
<1>9. ASSUME NEW p \in Procs, Exit(p) PROVE Goal
  BY <1>0, <1>9, EmptyChains, ChainStep DEF Exit
<1>10. CASE UNCHANGED vars
  BY <1>10 DEF vars, MirrorInv, TypeOK, DigestsComputed, PendingExtends, MirrorOnlyWritten,
               InFile, HashMatches
<1> QED
  BY <1>1, <1>2, <1>3, <1>4, <1>6, <1>7, <1>8, <1>9, <1>10 DEF Next

LEMMA MirrorAlways == Spec => []MirrorInv
<1>1. MirrorInv /\ [Next]_vars => MirrorInv'
  BY MirrorKept
<1> QED BY <1>1, MirrorInit, PTL DEF Spec

\* Whatever the number of processes that share the chain, and whatever writes and reads
\* fail or are cut short, no process holds a record in memory that is not in the file in full:
\* append_with_rfc pushes to the mirror after the write has succeeded.
THEOREM MirrorAlwaysSound == Spec => []MirrorSound
<1>1. MirrorInv => MirrorSound
  BY DEF MirrorInv, MirrorSound
<1> QED BY <1>1, MirrorAlways, PTL

\* The mirror of a process is what it was, or has gained its pending record, unless
\* the process ended or loads it again.
LEMMA MirrorGrows ==
    ASSUME MirrorInv, [Next]_vars, NEW p \in Procs, chain[p].state # "unloaded",
           chain'[p].state # "unloaded"
    PROVE  \/ chain'[p].records = chain[p].records
           \/ /\ chain[p].pending # <<>>
              /\ chain'[p].records = Append(chain[p].records, chain[p].pending[1])
              /\ oracle' = oracle
<1> DEFINE Goal == \/ chain'[p].records = chain[p].records
                   \/ /\ chain[p].pending # <<>>
                      /\ chain'[p].records = Append(chain[p].records, chain[p].pending[1])
                      /\ oracle' = oracle
<1>0. DOMAIN chain = Procs /\ chain[p] \in ChainType
  BY DEF MirrorInv, TypeOK
<1>1. ASSUME NEW q \in Procs, NEW c, chain' = [chain EXCEPT ![q] = c],
             q # p \/ c.records = chain[p].records
      PROVE  Goal
  BY <1>0, <1>1
<1>2. ASSUME NEW q \in Procs, NEW x,
             chain' = [chain EXCEPT ![q] = [@ EXCEPT !.pending = x]]
      PROVE  Goal
  BY <1>0, <1>2 DEF ChainType
<1>3. ASSUME NEW q \in Procs, NEW dies, chain' = [chain EXCEPT ![q] = AfterFailure(@, dies)]
      PROVE  Goal
  BY <1>0, <1>1, <1>2, <1>3 DEF AfterFailure, Unloaded
<1>4. ASSUME NEW q \in Procs, AppendNewline(q) PROVE Goal
  <2>1. CASE q = p
    <3>1. chain'[p] = Mirrored(chain[p]) /\ chain[p].pending # <<>> /\ oracle' = oracle
      BY <1>0, <1>4, <2>1 DEF AppendNewline, Idle
    <3> QED BY <3>1 DEF Mirrored
  <2>2. CASE q # p
    BY <1>0, <1>4, <2>2 DEF AppendNewline
  <2> QED BY <2>1, <2>2
<1>5. ASSUME NEW q \in Procs, Load(q) \/ LoadQuarantines(q) PROVE Goal
  BY <1>0, <1>5 DEF Load, LoadQuarantines
<1>6. ASSUME NEW q \in Procs, Close(q) \/ Exit(q) PROVE Goal
  <2>1. CASE Close(q)
    BY <1>0, <2>1 DEF Close, ChainType
  <2>2. CASE Exit(q)
    BY <1>0, <2>2 DEF Exit, Unloaded
  <2> QED BY <1>6, <2>1, <2>2
<1>7. ASSUME NEW q \in Procs, NEW e \in Events, AppendLine(q, e) PROVE Goal
  BY <1>2, <1>7 DEF AppendLine
<1>8. ASSUME NEW q \in Procs, NEW e \in Events, NEW part \in {"torn", "bytes"},
             NEW dies \in BOOLEAN, AppendTorn(q, e, part, dies)
      PROVE  Goal
  BY <1>3, <1>8 DEF AppendTorn
<1>9. ASSUME NEW q \in Procs, NEW dies \in BOOLEAN, AppendUnterminated(q, dies) PROVE Goal
  BY <1>3, <1>9 DEF AppendUnterminated
<1>10. CASE UNCHANGED vars
  BY <1>10 DEF vars
<1> QED
  BY <1>4, <1>5, <1>6, <1>7, <1>8, <1>9, <1>10 DEF Next

\* A mirror that verifies goes on verifying, whatever other processes append and
\* whatever fails, until its process loads the chain again.
THEOREM MirrorsKeepVerifying == Spec => MirrorKeepsVerifying
<1> DEFINE Still(p) == (/\ chain[p].state # "unloaded"
                        /\ chain'[p].state # "unloaded"
                        /\ Verify(chain[p].records)) => Verify(chain[p].records)'
<1>1. ASSUME MirrorInv, [Next]_vars, NEW p \in Procs PROVE Still(p)
  <2> SUFFICES ASSUME chain[p].state # "unloaded", chain'[p].state # "unloaded",
                      Verify(chain[p].records)
               PROVE  Verify(chain[p].records)'
    OBVIOUS
  <2> DEFINE s == chain[p].records
             Chained(t, i, o) ==
                 LET prev == IF i = 1 THEN ZERO_HASH ELSE t[i - 1].hash
                 IN  t[i].prev = prev /\ o[t[i].hash] = [prev |-> prev, ev |-> t[i].ev]
  <2>1. s \in Seq(Record) /\ \A i \in DOMAIN s : s[i].hash \in 1 .. Len(oracle)
    BY <1>1, ChainParts, InFileComputed
  <2>2. \A i \in DOMAIN s : Chained(s, i, oracle)
    BY DEF Verify, HashMatches
  <2>3. \A h \in 1 .. Len(oracle) : oracle'[h] = oracle[h]
    BY <1>1, MirrorKept
  <2>4. \A i \in DOMAIN s : Chained(s, i, oracle')
    BY <2>1, <2>2, <2>3
  <2>5. CASE chain'[p].records = s
    BY <2>4, <2>5 DEF Verify, HashMatches
  <2>6. CASE chain[p].pending # <<>> /\ chain'[p].records = Append(s, chain[p].pending[1])
             /\ oracle' = oracle
    <3> DEFINE r == chain[p].pending[1]
               t == Append(s, r)
    <3>1. r \in Record /\ r.prev = TipHash(s)
          /\ oracle[r.hash] = [prev |-> r.prev, ev |-> r.ev]
      BY <1>1, <2>6, ChainParts DEF MirrorInv, PendingExtends, HashMatches
    <3> HIDE DEF s, r
    <3>2. /\ DOMAIN t = 1 .. Len(s) + 1 /\ t[Len(s) + 1] = r /\ Len(s) \in Nat
          /\ DOMAIN s = 1 .. Len(s) /\ \A i \in 1 .. Len(s) : t[i] = s[i]
      BY <2>1, <3>1
    <3>3. Chained(t, Len(s) + 1, oracle)
      <4>1. CASE Len(s) = 0
        <5>1. r.prev = ZERO_HASH
          BY <2>1, <3>1, <4>1 DEF TipHash
        <5> HIDE DEF t
        <5> QED BY <3>1, <3>2, <4>1, <5>1
      <4>2. CASE Len(s) # 0
        <5>1. r.prev = s[Len(s)].hash /\ Len(s) \in 1 .. Len(s)
          BY <2>1, <3>1, <3>2, <4>2 DEF TipHash
        <5> HIDE DEF t
        <5>2. t[Len(s) + 1 - 1] = s[Len(s)] /\ Len(s) + 1 # 1
          BY <3>2, <4>2, <5>1
        <5> QED BY <3>1, <3>2, <5>1, <5>2
      <4> QED BY <4>1, <4>2, <3>2
    <3>4. \A i \in 1 .. Len(s) : Chained(t, i, oracle)
      <4> HIDE DEF t
      <4>1. \A i \in 1 .. Len(s) : i # 1 => i - 1 \in 1 .. Len(s)
        BY <3>2
      <4> QED BY <2>2, <3>2, <4>1
    <3>5. \A i \in DOMAIN t : Chained(t, i, oracle)
      <4> HIDE DEF t, Chained
      <4>1. \A i \in DOMAIN t : i \in 1 .. Len(s) \/ i = Len(s) + 1
        BY <3>2
      <4> QED BY <3>3, <3>4, <4>1
    <3>6. chain'[p].records = t
      BY <2>6 DEF r
    <3> HIDE DEF t
    <3> QED BY <2>6, <3>5, <3>6 DEF Verify, HashMatches
  <2> QED BY <1>1, <2>5, <2>6, MirrorGrows DEF s
<1>2. MirrorInv /\ [Next]_vars => [\A p \in Procs : Still(p)]_vars
  BY <1>1
<1> QED BY <1>2, MirrorAlways, PTL DEF Spec, MirrorKeepsVerifying
=============================================================================
