------------------------------ MODULE RfcProof ------------------------------
(***************************************************************************)
(* EditsInOrder, LogWellFormed, NothingLost and PromotedReviewed for any   *)
(* number of processes, agents, calls, versions, failed writes and crashes.*)
(***************************************************************************)
EXTENDS Rfc, TLAPS, FiniteSetTheorems, WellFoundedInduction

-----------------------------------------------------------------------------
(* The invariant, in named parts. *)

\* A body of the file or of a call is one that was proposed.
BodiesKnown ==
    /\ rfc.body <= Len(edits)
    /\ \A t \in Threads : op[t].rec.body <= Len(edits)

\* the body x is older than a's edit or comes from another process
Older(x, a) == x = 0 \/ edits[x] # home[a] \/ x < op[a].rec.body

\* Of the bodies proposed in its process an edit in flight carries the newest: the
\* file and every other thread have older ones, and no second edit of the process
\* is in flight.
NewestInFlight ==
    \A a \in Agents : op[a].pc = "edit" =>
        /\ op[a].rec.body >= 1 /\ edits[op[a].rec.body] = home[a]
        /\ Older(rfc.body, a)
        /\ \A t \in Threads \ {a} :
              Older(op[t].rec.body, a) /\ (op[t].pc = "edit" => home[t] # home[a])

EditInv == BodiesKnown /\ NewestInFlight

Pcs ==
    {"idle", "append", "newline", "resolve", "resolved", "counts", "save", "reopen", "copy",
     "commit", "clear", "edit"}

CallType ==
    [pc : Pcs, rec : Rec, what : States \union Transitions \union {"none"},
     entry : Decision, existed : BOOLEAN]

HistoryType ==
    [written : SUBSET Decision, issuers : SUBSET Services, late : BOOLEAN, torn : BOOLEAN]

LockType == [by : Agents \union {None}, expired : BOOLEAN]

\* the calls that hold a version of the file
Holding == {"counts", "save", "reopen", "copy", "commit", "clear", "edit"}

Typed ==
    /\ TypeOK
    /\ op \in [Threads -> CallType]
    /\ history \in HistoryType
    /\ \A a \in Agents : /\ op[a].pc \in {"idle", "append", "newline", "edit"}
                          /\ op[a].entry.status # "resolved"
    /\ op[Human].pc # "edit"
    /\ op[Human].pc = "save" => op[Human].what \in States \ {"absent"}
    /\ op[Human].pc = "clear" => op[Human].existed

\* Until an edit is saved over another version, no edit holds a later version than
\* the file has, and the human an earlier one only when the reopen is committed.
VersionOrder ==
    /\ IF rfc.state = "absent" THEN rfc.version = 0 ELSE rfc.version >= 1
    /\ \A t \in Threads : op[t].pc # "idle" => rfc.version >= 1
    /\ \A t \in Threads : op[t].pc \in Holding => op[t].rec.version >= 1
    /\ op[Human].pc \in {"copy", "commit", "clear"} => op[Human].rec.version < MaxVersions
    /\ op[Human].pc = "reopen" => VersionsLeft
    /\ \A a \in Agents : op[a].pc = "edit" => op[a].rec.state = "draft-active"
    /\ ~history.torn /\ op[Human].pc \in {"counts", "save", "reopen", "copy", "commit"} =>
          rfc.version <= op[Human].rec.version
    /\ ~history.torn => \A a \in Agents : op[a].pc = "edit" =>
          op[a].rec.version <= rfc.version

\* A version a thread is about to write has its predecessors in the archive.
ArchivedBefore ==
    /\ VersionsArchived
    /\ \A t \in Threads : op[t].pc # "idle" => 1 .. op[t].rec.version - 1 \subseteq bodies
    /\ op[Human].pc \in {"copy", "commit"} => op[Human].rec.version \in bodies

OneIssuer == \A v, w \in history.issuers : v = w

\* Ids about to be written are those of a process that runs, and one process
\* tells them apart.
PendingFresh ==
    /\ history.issuers = {} => log = <<>> /\ op[Human].pc # "resolve"
    /\ \A t \in Threads : op[t].pc \in {"append", "resolve"} =>
          (op[t].pc = "resolve" <=> op[t].entry.status = "resolved")
    /\ \A t \in Threads : op[t].pc = "append" =>
          /\ home[t] \in history.issuers \intersect up
          /\ op[t].entry.id <= seq[home[t]]
    /\ OneIssuer => \A t, u \in Threads : t # u /\ op[t].pc = "append" /\ op[u].pc = "append" =>
          op[t].entry.id # op[u].entry.id

\* Every id was handed out.
IdsCounted ==
    /\ \A v \in Services : seq[v] <= asks
    /\ \A i \in DOMAIN log : log[i].id <= asks
    /\ \A t \in Threads : op[t].entry.id <= asks

\* With one numbering, an id about to be written is not in the log, and an answer
\* about to be written has its question there and no answer yet.
LogFresh ==
    OneNumbering =>
        /\ LogWellFormed
        /\ \A v \in history.issuers \intersect up : \A i \in DOMAIN log : log[i].id <= seq[v]
        /\ \A t \in Threads : op[t].pc = "append" =>
              \A i \in DOMAIN log : log[i].id # op[t].entry.id
        /\ op[Human].pc = "resolve" =>
              /\ \E i \in DOMAIN log : log[i].id = op[Human].entry.id
              /\ \A i \in DOMAIN log : log[i].id = op[Human].entry.id => log[i].status = "open"

\* No design decision is the latest record of its id.
AllReviewed ==
    \A i \in DOMAIN log : log[i].status = "proposed" =>
        \E j \in DOMAIN log : i < j /\ log[j].id = log[i].id

\* An active version, and one about to become active, has no design decision left.
Reviewed ==
    (rfc.state = "active" \/ (op[Human].pc = "save" /\ op[Human].what = "active"))
       /\ ~history.late => AllReviewed

Archived(d, version, archive) ==
    \E m \in Versions : /\ m < version /\ d.version <= m
                        /\ \E i \in DOMAIN archive[m] : archive[m][i] = d

\* A decision written is in the log or in the archive of a version that is over,
\* and in the archive as long as a reopen may remove the log.
WrittenKept ==
    ~history.torn =>
        /\ \A i \in DOMAIN log : log[i].version <= rfc.version
        /\ \A t \in Threads : op[t].pc \in {"append", "resolve"} =>
              op[t].entry.version <= rfc.version
        /\ \A d \in history.written :
              (\E i \in DOMAIN log : log[i] = d) \/ Archived(d, rfc.version, logs)
        /\ op[Human].pc = "commit" /\ op[Human].existed =>
              \A d \in history.written : Archived(d, op[Human].rec.version + 1, logs)
        /\ op[Human].pc = "clear" =>
              \A d \in history.written : Archived(d, rfc.version, logs)

RfcInv ==
    /\ Typed /\ EditInv /\ VersionOrder /\ ArchivedBefore
    /\ PendingFresh /\ IdsCounted /\ LogFresh /\ Reviewed /\ WrittenKept

-----------------------------------------------------------------------------
(* The operators of the log: the maximum of a bounded set, the latest record *)
(* of an id, and what the counts say.                                        *)

\* A bounded set of naturals has the maximum that Max chooses.
LEMMA MaxNat ==
    ASSUME NEW S \in SUBSET Nat, S # {}, NEW b \in Nat, \A x \in S : x <= b
    PROVE  Max(S) \in S /\ \A x \in S : x <= Max(S)
<1>. DEFINE U == {n \in Nat : \A x \in S : x <= n}
<1>1. U \in SUBSET Nat /\ U # {}
  OBVIOUS
<1>2. \E n \in U : \A y \in U : n <= y
  <2>. DEFINE R == OpToRel(<, Nat)
  <2>1. \A x, y \in Nat : y < x => <<y, x>> \in R
    BY DEF OpToRel
  <2>2. IsWellFoundedOn(R, Nat)
    BY NatLessThanWellFounded
  <2>. HIDE DEF R, U
  <2>3. \E x \in U : \A y \in U : ~(<<y, x>> \in R)
    BY <1>1, <2>2, WFMin
  <2>4. PICK x \in U : \A y \in U : ~(<<y, x>> \in R)
    BY <2>3
  <2>5. \A y \in U : ~(y < x)
    BY <1>1, <2>1, <2>4
  <2>. QED BY <1>1, <2>4, <2>5
<1>3. PICK n \in U : \A y \in U : n <= y
  BY <1>2
<1>4. n \in Nat /\ \A x \in S : x <= n
  OBVIOUS
<1>5. n \in S
  <2>1. SUFFICES ASSUME n \notin S PROVE FALSE
    OBVIOUS
  <2>2. PICK x \in S : TRUE
    OBVIOUS
  <2>3. \A y \in S : y < n
    BY <1>4, <2>1
  <2>4. n - 1 \in U
    BY <1>4, <2>2, <2>3
  <2>. QED BY <1>3, <1>4, <2>4
<1>6. \E x \in S : \A y \in S : x >= y
  BY <1>4, <1>5
<1>. HIDE DEF U
<1>7. Max(S) \in S /\ \A y \in S : Max(S) >= y
  BY <1>6, Zenon DEF Max
<1>. QED BY <1>7

\* An id of the log has a latest record, one that no other record of it follows.
LEMMA LatestIsLast ==
    ASSUME log \in Seq(Decision), NEW id \in Ids
    PROVE  \E i \in DOMAIN log : /\ Latest(id) = log[i] /\ log[i].id = id
                                 /\ \A j \in DOMAIN log : log[j].id = id => j <= i
<1>. DEFINE at == {i \in DOMAIN log : log[i].id = id}
<1>1. DOMAIN log = 1 .. Len(log) /\ Len(log) \in Nat
  OBVIOUS
<1>2. at # {} /\ at \in SUBSET Nat /\ \A x \in at : x <= Len(log)
  BY <1>1 DEF Ids
<1>3. Max(at) \in at /\ \A x \in at : x <= Max(at)
  <2>. HIDE DEF at
  <2>. QED BY <1>1, <1>2, MaxNat
<1>4. Latest(id) = log[Max(at)]
  BY <1>2, Zenon DEF Latest
<1>. QED BY <1>3, <1>4

\* In a well formed log only the latest record of an id is an answer.
LEMMA OnlyLatest ==
    ASSUME log \in Seq(Decision), OneNumbering, LogWellFormed, NEW i \in DOMAIN log,
           Latest(log[i].id).status = "open"
    PROVE  \A j \in DOMAIN log : log[j].id = log[i].id => log[j].status = "open"
<1>1. log[i].id \in Ids
  BY DEF Ids
<1>2. PICK k \in DOMAIN log : /\ Latest(log[i].id) = log[k] /\ log[k].id = log[i].id
                              /\ \A j \in DOMAIN log : log[j].id = log[i].id => j <= k
  BY <1>1, LatestIsLast
<1>3. \A j \in DOMAIN log : j \in Nat
  OBVIOUS
<1>4. \A j \in DOMAIN log : log[j].id = log[i].id /\ j # k =>
          log[j].status = "open" /\ log[k].status = "resolved"
  BY <1>2, <1>3 DEF LogWellFormed
<1>. QED BY <1>2, <1>4

\* A count of zero means that no design decision is the latest of its id.
LEMMA CountsZero ==
    ASSUME log \in Seq(Decision)
    PROVE  Counted("proposed") = 0 <=> AllReviewed
<1>. DEFINE S == {id \in Ids : Latest(id).status = "proposed"}
<1>1. IsFiniteSet(S)
  <2>1. DOMAIN log = 1 .. Len(log) /\ Len(log) \in Nat
    OBVIOUS
  <2>2. IsFiniteSet(DOMAIN log)
    BY <2>1, FS_Interval
  <2>3. IsFiniteSet(Ids)
    <3>. DEFINE f == [i \in DOMAIN log |-> log[i].id]
    <3>1. f \in Surjection(DOMAIN log, Ids)
      BY DEF Surjection, Ids
    <3>. QED BY <2>2, <3>1, FS_Surjection
  <2>. QED BY <2>3, FS_Subset
<1>2. Counted("proposed") = 0 <=> S = {}
  BY <1>1, FS_EmptySet DEF Counted
<1>3. \A i \in DOMAIN log : i \in Nat /\ log[i].id \in Ids
  BY DEF Ids
<1>4. ASSUME S = {}, NEW i \in DOMAIN log, log[i].status = "proposed"
      PROVE  \E j \in DOMAIN log : i < j /\ log[j].id = log[i].id
  <2>1. PICK k \in DOMAIN log : /\ Latest(log[i].id) = log[k] /\ log[k].id = log[i].id
                                /\ \A j \in DOMAIN log : log[j].id = log[i].id => j <= k
    BY <1>3, LatestIsLast
  <2>2. log[k].status # "proposed"
    BY <1>3, <1>4, <2>1
  <2>3. i <= k /\ i # k
    BY <1>4, <2>1, <2>2
  <2>. QED BY <1>3, <2>1, <2>3
<1>5. ASSUME AllReviewed, S # {} PROVE FALSE
  <2>1. PICK id \in Ids : Latest(id).status = "proposed"
    BY <1>5
  <2>2. PICK k \in DOMAIN log : /\ Latest(id) = log[k] /\ log[k].id = id
                                /\ \A j \in DOMAIN log : log[j].id = id => j <= k
    BY <2>1, LatestIsLast
  <2>3. PICK j \in DOMAIN log : k < j /\ log[j].id = log[k].id
    BY <1>5, <2>1, <2>2 DEF AllReviewed
  <2>4. j <= k /\ k < j
    BY <2>2, <2>3
  <2>. QED BY <1>3, <2>4
<1>. QED BY <1>2, <1>4, <1>5 DEF AllReviewed

-----------------------------------------------------------------------------
(* What a step that moves one thread to another call has to show, for each *)
(* part of the invariant.                                                  *)

\* Edits, in a step that starts none: the file and the thread get a body that one
\* of them had.
LEMMA EditMove ==
    ASSUME Typed, EditInv, NEW t \in Threads, NEW c, op' = [op EXCEPT ![t] = c],
           c.pc # "edit", c.rec.body \in {0, rfc.body, op[t].rec.body},
           rfc'.body \in {0, rfc.body, op[t].rec.body}, edits' = edits, home' = home
    PROVE  EditInv'
<1>1. \A u \in Threads : op'[u] = IF u = t THEN c ELSE op[u]
  BY DEF Typed
<1>2. Len(edits) \in Nat /\ Agents \subseteq Threads
  BY DEF Typed, TypeOK, Threads
<1>3. BodiesKnown'
  BY <1>1, <1>2 DEF EditInv, BodiesKnown
<1>4. ASSUME NEW a \in Agents, op'[a].pc = "edit"
      PROVE  /\ op'[a].rec.body >= 1 /\ edits'[op'[a].rec.body] = home'[a]
             /\ Older(rfc.body, a)'
             /\ \A u \in Threads \ {a} :
                   Older(op[u].rec.body, a)' /\ (op'[u].pc = "edit" => home'[u] # home'[a])
  <2>1. a # t /\ op'[a] = op[a] /\ op[a].pc = "edit"
    BY <1>1, <1>2, <1>4
  <2>2. /\ op[a].rec.body >= 1 /\ edits[op[a].rec.body] = home[a]
        /\ Older(rfc.body, a) /\ Older(op[t].rec.body, a) /\ Older(0, a)
        /\ \A u \in Threads \ {a} :
              Older(op[u].rec.body, a) /\ (op[u].pc = "edit" => home[u] # home[a])
    BY <2>1 DEF EditInv, NewestInFlight, Older
  <2>3. \A x : Older(x, a) => x = 0 \/ edits'[x] # home'[a] \/ x < op'[a].rec.body
    BY <2>1 DEF Older
  <2>4. Older(rfc.body, a)'
    BY <2>2, <2>3 DEF Older
  <2>5. ASSUME NEW u \in Threads \ {a}
        PROVE  Older(op[u].rec.body, a)' /\ (op'[u].pc = "edit" => home'[u] # home'[a])
    <3>1. Older(op'[u].rec.body, a)
      BY <1>1, <2>2
    <3>2. op'[u].pc = "edit" => home'[u] # home'[a]
      BY <1>1, <2>2
    <3>. QED BY <2>3, <3>1, <3>2 DEF Older
  <2>. QED BY <2>1, <2>2, <2>4, <2>5
<1>. QED BY <1>3, <1>4 DEF EditInv, NewestInFlight

\* Types.
LEMMA TypedMove ==
    ASSUME Typed, NEW t \in Threads, NEW c \in CallType, op' = [op EXCEPT ![t] = c],
           t \in Agents => /\ c.pc \in {"idle", "append", "newline", "edit"}
                           /\ c.entry.status # "resolved",
           t = Human => c.pc # "edit",
           t = Human /\ c.pc = "save" => c.what \in States \ {"absent"},
           t = Human /\ c.pc = "clear" => c.existed,
           rfc' \in Rec, log' \in Seq(Decision), loose' \in Threads \union {None},
           glued' \in BOOLEAN, bodies' \subseteq Versions,
           logs' \in [Versions -> Seq(Decision)],
           home' = home, up' = up, lock' \in [Services -> LockType],
           seq' \in [Services -> Nat], edits' \in Seq(Services), asks' \in 0 .. MaxAsks,
           faults' \in 0 .. MaxFaults, history' \in HistoryType
    PROVE  Typed'
<1>1. op' \in [Threads -> CallType]
  BY DEF Typed
<1>2. \A u \in Threads : op'[u] = IF u = t THEN c ELSE op[u]
  BY DEF Typed
<1>3. \A u \in Threads : op'[u].rec \in Rec /\ op'[u].entry \in Decision
  BY <1>1 DEF CallType
<1>4. TypeOK'
  BY <1>3 DEF Typed, TypeOK, LockType
<1>5. \A a \in Agents : /\ op'[a].pc \in {"idle", "append", "newline", "edit"}
                         /\ op'[a].entry.status # "resolved"
  BY <1>2 DEF Typed, Threads
<1>6. /\ op'[Human].pc # "edit"
      /\ op'[Human].pc = "save" => op'[Human].what \in States \ {"absent"}
      /\ op'[Human].pc = "clear" => op'[Human].existed
  BY <1>2 DEF Typed, Threads
<1>. QED BY <1>1, <1>4, <1>5, <1>6 DEF Typed

\* The file's version is natural, and so are those the threads remember.
LEMMA NaturalVersions ==
    ASSUME Typed
    PROVE  /\ rfc.version \in 0 .. MaxVersions /\ rfc.version \in Nat /\ rfc \in Rec
           /\ \A t \in Threads : op[t] \in CallType /\ op[t].rec \in Rec /\ op[t].pc \in Pcs
           /\ \A t \in Threads : op[t].rec.version \in 0 .. MaxVersions
           /\ \A t \in Threads : op[t].rec.version \in Nat
  BY RfcConstants DEF Typed, TypeOK, Rec, CallType

\* Versions, when the file's version does not fall unnoticed.
LEMMA VersionMove ==
    ASSUME Typed, Typed', VersionOrder, NEW t \in Threads, NEW c \in CallType,
           op' = [op EXCEPT ![t] = c],
           rfc' = rfc \/ (rfc'.state # "absent" /\ rfc'.version >= 1),
           c.pc # "idle" => rfc'.version >= 1,
           c.pc \in Holding => c.rec.version >= 1,
           c.pc \in {"copy", "commit", "clear"} => c.rec.version < MaxVersions,
           c.pc = "reopen" => VersionsLeft /\ rfc' = rfc /\ t = Human,
           c.pc = "edit" => c.rec.state = "draft-active",
           ~history'.torn => ~history.torn /\ rfc.version <= rfc'.version,
           ~history'.torn /\ c.pc \in {"counts", "save", "reopen", "copy", "commit"} =>
              rfc'.version <= c.rec.version,
           ~history'.torn /\ c.pc = "edit" => c.rec.version <= rfc'.version,
           t # Human => /\ ~history'.torn => rfc'.version = rfc.version
                        /\ rfc'.version \in {rfc.version, op[t].rec.version}
                        /\ c.rec.version \in {0, rfc.version, op[t].rec.version}
    PROVE  VersionOrder'
<1>1. \A u \in Threads : op'[u] = IF u = t THEN c ELSE op[u]
  BY DEF Typed
<1>2. Human \in Threads /\ Agents \subseteq Threads /\ Human \notin Agents
  BY RfcConstants DEF Threads
<1>3. /\ rfc.version \in Nat /\ rfc'.version \in Nat
      /\ \A u \in Threads : op[u].rec.version \in Nat /\ op'[u].rec.version \in Nat
  <2>1. rfc \in Rec /\ rfc' \in Rec
    BY DEF Typed, TypeOK
  <2>2. \A u \in Threads : op[u].rec \in Rec /\ op'[u].rec \in Rec
    BY DEF Typed, CallType
  <2>3. \A x \in Rec : x.version \in Nat
    BY DEF Rec
  <2> QED BY <2>1, <2>2, <2>3
<1>4. IF rfc'.state = "absent" THEN rfc'.version = 0 ELSE rfc'.version >= 1
  BY DEF VersionOrder
<1>5. \A u \in Threads : op'[u].pc # "idle" => rfc'.version >= 1
  BY <1>1, <1>3 DEF VersionOrder
<1>6. \A u \in Threads : op'[u].pc \in Holding => op'[u].rec.version >= 1
  BY <1>1 DEF VersionOrder
<1>7. op'[Human].pc \in {"copy", "commit", "clear"} => op'[Human].rec.version < MaxVersions
  BY <1>1, <1>2 DEF VersionOrder
<1>8. op'[Human].pc = "reopen" => VersionsLeft'
  <2>. SUFFICES ASSUME op'[Human].pc = "reopen" PROVE VersionsLeft'
    OBVIOUS
  <2>1. VersionsLeft
    BY <1>1, <1>2 DEF VersionOrder
  <2>2. rfc.version < MaxVersions /\ \A a \in Agents : op[a].rec.version < MaxVersions
    BY <2>1 DEF VersionsLeft
  <2>3. CASE t = Human
    BY <1>1, <1>2, <2>2, <2>3 DEF VersionsLeft
  <2>4. CASE t # Human
    <3>1. t \in Agents /\ op[t].rec.version < MaxVersions /\ 0 < MaxVersions
      BY <2>2, <2>4, RfcConstants DEF Threads
    <3>2. rfc'.version < MaxVersions /\ c.rec.version < MaxVersions
      BY <2>2, <2>4, <3>1
    <3>. QED BY <1>1, <1>2, <2>2, <3>2 DEF VersionsLeft
  <2>. QED BY <2>3, <2>4
<1>9. \A a \in Agents : op'[a].pc = "edit" => op'[a].rec.state = "draft-active"
  BY <1>1, <1>2 DEF VersionOrder
<1>10. ASSUME ~history'.torn,
              op'[Human].pc \in {"counts", "save", "reopen", "copy", "commit"}
       PROVE  rfc'.version <= op'[Human].rec.version
  <2>1. CASE t = Human
    BY <1>1, <1>2, <1>10, <2>1
  <2>2. CASE t # Human
    BY <1>1, <1>2, <1>3, <1>10, <2>2 DEF VersionOrder
  <2>. QED BY <2>1, <2>2
<1>11. ASSUME ~history'.torn, NEW a \in Agents, op'[a].pc = "edit"
       PROVE  op'[a].rec.version <= rfc'.version
  <2>1. CASE t = a
    BY <1>1, <1>2, <1>11, <2>1
  <2>2. CASE t # a
    BY <1>1, <1>2, <1>3, <1>11, <2>2 DEF VersionOrder
  <2>. QED BY <2>1, <2>2
<1>. QED BY <1>4, <1>5, <1>6, <1>7, <1>8, <1>9, <1>10, <1>11 DEF VersionOrder

\* The archive.
LEMMA ArchiveMove ==
    ASSUME Typed, ArchivedBefore, NEW t \in Threads, NEW c, op' = [op EXCEPT ![t] = c],
           bodies \subseteq bodies', 1 .. rfc'.version - 1 \subseteq bodies',
           c.pc # "idle" => 1 .. c.rec.version - 1 \subseteq bodies',
           c.pc \in {"copy", "commit"} => c.rec.version \in bodies'
    PROVE  ArchivedBefore'
<1>1. \A u \in Threads : op'[u] = IF u = t THEN c ELSE op[u]
  BY DEF Typed
<1>2. Human \in Threads
  BY DEF Threads
<1>3. \A u \in Threads : op'[u].pc # "idle" => 1 .. op'[u].rec.version - 1 \subseteq bodies'
  <2>. SUFFICES ASSUME NEW u \in Threads, op'[u].pc # "idle"
                PROVE  1 .. op'[u].rec.version - 1 \subseteq bodies'
    OBVIOUS
  <2>1. CASE u = t
    BY <1>1, <2>1
  <2>2. CASE u # t
    <3>1. op'[u] = op[u] /\ 1 .. op[u].rec.version - 1 \subseteq bodies
      BY <1>1, <2>2 DEF ArchivedBefore
    <3>. QED BY <3>1
  <2>. QED BY <2>1, <2>2
<1>4. op'[Human].pc \in {"copy", "commit"} => op'[Human].rec.version \in bodies'
  BY <1>1, <1>2 DEF ArchivedBefore
<1>. QED BY <1>3, <1>4 DEF ArchivedBefore, VersionsArchived

\* Ids that were handed out.
LEMMA CountedMove ==
    ASSUME Typed, Typed', IdsCounted, NEW t \in Threads, NEW c, op' = [op EXCEPT ![t] = c],
           asks <= asks', c.entry.id <= asks', \A v \in Services : seq'[v] <= asks',
           log' = log \/ log' = Append(log, op[t].entry) \/ log' = <<>>
    PROVE  IdsCounted'
<1>1. \A u \in Threads : op'[u] = IF u = t THEN c ELSE op[u]
  BY DEF Typed
<1>2. log \in Seq(Decision) /\ op[t].entry \in Decision /\ asks \in Nat /\ asks' \in Nat
  BY RfcConstants DEF Typed, TypeOK
<1>3. \A i \in DOMAIN log' : (i \in DOMAIN log /\ log'[i] = log[i]) \/ log'[i] = op[t].entry
  BY <1>2
<1>4. \A i \in DOMAIN log : log[i] \in Decision
  BY <1>2
<1>5. /\ \A i \in DOMAIN log : log[i].id \in Nat
      /\ \A u \in Threads : op[u].entry.id \in Nat
  BY <1>4 DEF Typed, TypeOK, Decision
<1>6. \A i \in DOMAIN log' : log'[i].id <= asks'
  BY <1>2, <1>3, <1>5 DEF IdsCounted
<1>7. \A u \in Threads : op'[u].entry.id <= asks'
  BY <1>1, <1>2, <1>5 DEF IdsCounted
<1>. QED BY <1>6, <1>7 DEF IdsCounted

\* initial_decision_seq is a number no smaller than any id it can read.
LEMMA SeqSeeded ==
    ASSUME Typed, IdsCounted
    PROVE  /\ InitialDecisionSeq \in Nat /\ InitialDecisionSeq <= asks
           /\ ~glued => \A i \in DOMAIN log : log[i].id <= InitialDecisionSeq
<1>1. log \in Seq(Decision) /\ asks \in Nat
  BY RfcConstants DEF Typed, TypeOK
<1>2. \A i \in DOMAIN log : log[i] \in Decision
  BY <1>1
<1>3. Ids \in SUBSET Nat /\ \A x \in Ids : x <= asks
  BY <1>2 DEF Ids, Decision, IdsCounted
<1>4. \A i \in DOMAIN log : log[i].id \in Ids
  BY DEF Ids
<1>5. CASE glued \/ Ids = {}
  BY <1>1, <1>4, <1>5 DEF InitialDecisionSeq
<1>6. CASE ~(glued \/ Ids = {})
  <2>1. Max(Ids) \in Ids /\ \A x \in Ids : x <= Max(Ids)
    BY <1>1, <1>3, <1>6, MaxNat
  <2>2. InitialDecisionSeq = Max(Ids)
    BY <1>6, Zenon DEF InitialDecisionSeq
  <2>. QED BY <1>3, <1>4, <2>1, <2>2
<1>. QED BY <1>5, <1>6

\* Ids stay fresh in a step that appends nothing and prepares no record.
LEMMA IdsQuiet ==
    ASSUME Typed, PendingFresh, LogFresh, NEW t \in Threads, NEW c, op' = [op EXCEPT ![t] = c],
           c.pc \notin {"append", "resolve"}, log' = log, glued' = glued, seq' = seq,
           up' = up, home' = home, history'.issuers = history.issuers
    PROVE  PendingFresh' /\ LogFresh'
<1>1. \A u \in Threads : op'[u] = IF u = t THEN c ELSE op[u]
  BY DEF Typed
<1>2. Human \in Threads
  BY DEF Threads
<1>3. OneNumbering' = OneNumbering /\ OneIssuer' = OneIssuer
  BY DEF OneNumbering, OneIssuer
<1>4. PendingFresh'
  BY <1>1, <1>2, <1>3 DEF PendingFresh
<1>5. OneNumbering => LogWellFormed'
  BY <1>3 DEF LogFresh, LogWellFormed
<1>6. LogFresh'
  BY <1>1, <1>2, <1>3, <1>5 DEF LogFresh
<1>. QED BY <1>4, <1>6

\* Ids stay fresh when the record of a call is appended.
LEMMA IdsAppend ==
    ASSUME Typed, PendingFresh, LogFresh, NEW t \in Threads, NEW c, op' = [op EXCEPT ![t] = c],
           op[t].pc \in {"append", "resolve"}, c.pc \notin {"append", "resolve"},
           op[t].pc = "resolve" => t = Human,
           log' = Append(log, op[t].entry), glued \in BOOLEAN, ~glued' => ~glued, seq' = seq,
           up' = up, home' = home, history'.issuers = history.issuers
    PROVE  PendingFresh' /\ LogFresh'
<1>. DEFINE e == op[t].entry
            n == Len(log) + 1
<1>1. \A u \in Threads : op'[u] = IF u = t THEN c ELSE op[u]
  BY DEF Typed
<1>2. log \in Seq(Decision) /\ e \in Decision /\ Human \in Threads
  BY DEF Typed, TypeOK, Threads
<1>3. /\ DOMAIN log = 1 .. Len(log) /\ DOMAIN log' = 1 .. n /\ n \in Nat /\ Len(log) \in Nat
      /\ \A i \in DOMAIN log : log'[i] = log[i]
      /\ log'[n] = e
  BY <1>2
<1>4. OneIssuer' = OneIssuer /\ (OneNumbering' => OneNumbering /\ OneIssuer)
  BY DEF OneNumbering, OneIssuer
<1>5. op[t].pc = "append" => home[t] \in history.issuers
  BY DEF PendingFresh
<1>6. history.issuers # {}
  BY <1>5 DEF PendingFresh
<1>7. PendingFresh'
  BY <1>1, <1>2, <1>4, <1>6 DEF PendingFresh
<1>. SUFFICES ASSUME OneNumbering' PROVE LogFresh'
  BY <1>7 DEF LogFresh
<1>8. OneNumbering /\ OneIssuer /\ LogFresh
  BY <1>4
<1>9. \A i \in DOMAIN log' : i \in DOMAIN log \/ i = n
  BY <1>3
<1>10. CASE op[t].pc = "append"
  <2>1. /\ e.status # "resolved"
        /\ \A i \in DOMAIN log : log[i].id # e.id
        /\ \A u \in Threads \ {t} : op[u].pc = "append" => op[u].entry.id # e.id
        /\ home[t] \in history.issuers /\ e.id <= seq[home[t]]
    BY <1>8, <1>10 DEF LogFresh, PendingFresh
  <2>2. op[Human].pc = "resolve" => op[Human].entry.id # e.id
    BY <1>8, <2>1 DEF LogFresh
  <2>3. \A v \in history.issuers : e.id <= seq[v]
    BY <1>8, <2>1 DEF OneIssuer
  <2>. HIDE DEF e, n
  <2>4. LogWellFormed'
    <3>1. \A i, j \in DOMAIN log' : i < j /\ log'[i].id = log'[j].id =>
             log'[i].status = "open" /\ log'[j].status = "resolved"
      BY <1>3, <1>8, <1>9, <2>1 DEF LogFresh, LogWellFormed
    <3>2. \A j \in DOMAIN log' : log'[j].status = "resolved" => j \in DOMAIN log
      BY <1>3, <1>9, <2>1
    <3>3. \A j \in DOMAIN log' : log'[j].status = "resolved" =>
             \E i \in 1 .. j - 1 : log'[i].id = log'[j].id
      BY <1>3, <1>8, <3>2 DEF LogFresh, LogWellFormed
    <3>. QED BY <3>1, <3>3 DEF LogWellFormed
  <2>5. \A v \in (history.issuers \intersect up)' : \A i \in DOMAIN log' : log'[i].id <= seq'[v]
    BY <1>3, <1>8, <1>9, <2>3 DEF LogFresh
  <2>6. \A u \in Threads : op'[u].pc = "append" =>
          \A i \in DOMAIN log' : log'[i].id # op'[u].entry.id
    BY <1>1, <1>3, <1>8, <1>9, <2>1 DEF LogFresh
  <2>7. op'[Human].pc = "resolve" =>
          /\ \E i \in DOMAIN log' : log'[i].id = op'[Human].entry.id
          /\ \A i \in DOMAIN log' : log'[i].id = op'[Human].entry.id => log'[i].status = "open"
    BY <1>1, <1>2, <1>3, <1>8, <1>9, <2>2 DEF LogFresh
  <2>. QED BY <2>4, <2>5, <2>6, <2>7 DEF LogFresh
<1>11. CASE op[t].pc = "resolve"
  <2>1. /\ t = Human /\ e.status = "resolved"
        /\ \E i \in DOMAIN log : log[i].id = e.id
        /\ \A i \in DOMAIN log : log[i].id = e.id => log[i].status = "open"
    BY <1>8, <1>11 DEF LogFresh, PendingFresh
  <2>2. op'[Human].pc # "resolve"
    BY <1>1, <2>1
  <2>. HIDE DEF e, n
  <2>3. LogWellFormed'
    <3>1. \A i, j \in DOMAIN log' : i < j /\ log'[i].id = log'[j].id =>
             log'[i].status = "open" /\ log'[j].status = "resolved"
      BY <1>3, <1>8, <1>9, <2>1 DEF LogFresh, LogWellFormed
    <3>2. \E i \in 1 .. n - 1 : log'[i].id = log'[n].id
      BY <1>3, <2>1
    <3>3. \A j \in DOMAIN log : log'[j].status = "resolved" =>
             \E i \in 1 .. j - 1 : log'[i].id = log'[j].id
      BY <1>3, <1>8 DEF LogFresh, LogWellFormed
    <3>. QED BY <1>9, <3>1, <3>2, <3>3 DEF LogWellFormed
  <2>4. \A v \in (history.issuers \intersect up)' : \A i \in DOMAIN log' : log'[i].id <= seq'[v]
    BY <1>3, <1>8, <1>9, <2>1 DEF LogFresh
  <2>5. \A u \in Threads : op'[u].pc = "append" =>
          \A i \in DOMAIN log' : log'[i].id # op'[u].entry.id
    BY <1>1, <1>3, <1>8, <1>9, <2>1 DEF LogFresh
  <2>. QED BY <2>2, <2>3, <2>4, <2>5 DEF LogFresh
<1>. QED BY <1>10, <1>11

\* Promotion stays reviewed in a step that appends nothing and promotes nothing.
LEMMA ReviewQuiet ==
    ASSUME Typed, Reviewed, NEW t \in Threads, NEW c, op' = [op EXCEPT ![t] = c],
           c.pc # "save" \/ t # Human, log' = log, history'.late = history.late,
           rfc'.state = rfc.state \/ rfc'.state # "active"
    PROVE  Reviewed'
<1>1. \A u \in Threads : op'[u] = IF u = t THEN c ELSE op[u]
  BY DEF Typed
<1>2. Human \in Threads
  BY DEF Threads
<1>3. AllReviewed' = AllReviewed
  BY DEF AllReviewed
<1>. QED BY <1>1, <1>2, <1>3 DEF Reviewed

\* Promotion stays reviewed when a record is appended: one that was not counted is
\* late.
LEMMA ReviewAppend ==
    ASSUME Typed, Reviewed, NEW t \in Threads, NEW c, op' = [op EXCEPT ![t] = c],
           c.pc # "save", log' = Append(log, op[t].entry), rfc' = rfc,
           op[t].pc \in {"append", "resolve"},
           history'.late = (history.late \/ Uncounted(op[t].entry))
    PROVE  Reviewed'
<1>1. \A u \in Threads : op'[u] = IF u = t THEN c ELSE op[u]
  BY DEF Typed
<1>2. Human \in Threads
  BY DEF Threads
<1>3. log \in Seq(Decision) /\ op[t].entry \in Decision
  BY DEF Typed, TypeOK
<1>4. /\ \A i \in DOMAIN log' : (i \in DOMAIN log /\ log'[i] = log[i]) \/ log'[i] = op[t].entry
      /\ \A i \in DOMAIN log : i \in DOMAIN log' /\ log'[i] = log[i]
  BY <1>3
<1>5. op'[Human].pc = "save" => op[Human].pc = "save" /\ op'[Human] = op[Human]
  BY <1>1, <1>2
<1>6. AllReviewed /\ op[t].entry.status # "proposed" => AllReviewed'
  BY <1>4 DEF AllReviewed
<1>7. CASE history'.late
  BY <1>7 DEF Reviewed
<1>8. CASE ~history'.late
  <2>1. ~history.late /\ ~Uncounted(op[t].entry)
    BY <1>8
  <2>2. rfc.state = "active" \/ op[Human].pc = "save" => op[t].entry.status # "proposed"
    BY <2>1 DEF Uncounted
  <2>. QED BY <1>5, <1>6, <2>1, <2>2 DEF Reviewed
<1>. QED BY <1>7, <1>8

\* What is archived before a version is archived before every later one.
LEMMA ArchivedMonotone ==
    ASSUME NEW d, NEW v \in Nat, NEW w \in Nat, v <= w, NEW archive, Archived(d, v, archive)
    PROVE  Archived(d, w, archive)
  BY DEF Archived, Versions

\* Decisions stay where they are in a step that writes neither log nor archive and
\* does not take the version back unnoticed.
LEMMA KeptQuiet ==
    ASSUME Typed, Typed', WrittenKept, NEW t \in Threads, NEW c, op' = [op EXCEPT ![t] = c],
           c.pc \notin {"append", "resolve"}, t = Human => c.pc \notin {"commit", "clear"},
           log' = log, logs' = logs, history'.written = history.written,
           ~history'.torn => ~history.torn /\ rfc.version <= rfc'.version
    PROVE  WrittenKept'
<1>. SUFFICES ASSUME ~history'.torn PROVE WrittenKept'
  BY DEF WrittenKept
<1>1. \A u \in Threads : op'[u] = IF u = t THEN c ELSE op[u]
  BY DEF Typed
<1>2. Human \in Threads
  BY DEF Threads
<1>3. rfc.version \in Nat /\ rfc'.version \in Nat /\ rfc.version <= rfc'.version
  BY DEF Typed, TypeOK, Rec
<1>4. \A u \in Threads : op[u].entry \in Decision /\ op[u].entry.version \in Nat
  BY DEF Typed, TypeOK, Decision
<1>5. \A i \in DOMAIN log : log[i] \in Decision /\ log[i].version \in Nat
  <2>1. \A i \in DOMAIN log : log[i] \in Decision
    BY DEF Typed, TypeOK
  <2>. QED BY <2>1 DEF Decision
<1>6. \A d : Archived(d, rfc.version, logs) => Archived(d, rfc'.version, logs')
  BY <1>3, ArchivedMonotone
<1>7. \A i \in DOMAIN log' : log'[i].version <= rfc'.version
  BY <1>3, <1>5 DEF WrittenKept
<1>8. \A u \in Threads : op'[u].pc \in {"append", "resolve"} =>
          op'[u].entry.version <= rfc'.version
  BY <1>1, <1>3, <1>4 DEF WrittenKept
<1>9. \A d \in history'.written :
          (\E i \in DOMAIN log' : log'[i] = d) \/ Archived(d, rfc'.version, logs')
  BY <1>6 DEF WrittenKept
<1>10. op'[Human].pc = "commit" /\ op'[Human].existed =>
          \A d \in history'.written : Archived(d, op'[Human].rec.version + 1, logs')
  BY <1>1, <1>2 DEF WrittenKept
<1>11. op'[Human].pc = "clear" =>
          \A d \in history'.written : Archived(d, rfc'.version, logs')
  BY <1>1, <1>2, <1>6 DEF WrittenKept
<1>. QED BY <1>7, <1>8, <1>9, <1>10, <1>11 DEF WrittenKept

\* Decisions are kept when a record is appended: one that is appended while a
\* reopen may remove it tears the log.
LEMMA KeptAppend ==
    ASSUME Typed, WrittenKept, NEW t \in Threads, NEW c, op' = [op EXCEPT ![t] = c],
           c.pc \notin {"append", "resolve", "commit", "clear"},
           op[t].pc \in {"append", "resolve"},
           log' = Append(log, op[t].entry), logs' = logs, rfc' = rfc,
           ~history'.torn => ~history.torn /\ ~Moving,
           history'.written = history.written \union {op[t].entry}
    PROVE  WrittenKept'
<1>. SUFFICES ASSUME ~history'.torn PROVE WrittenKept'
  BY DEF WrittenKept
<1>1. \A u \in Threads : op'[u] = IF u = t THEN c ELSE op[u]
  BY DEF Typed
<1>2. Human \in Threads
  BY DEF Threads
<1>3. log \in Seq(Decision) /\ op[t].entry \in Decision
  BY DEF Typed, TypeOK
<1>4. /\ \A i \in DOMAIN log' : (i \in DOMAIN log /\ log'[i] = log[i]) \/ log'[i] = op[t].entry
      /\ \A i \in DOMAIN log : i \in DOMAIN log' /\ log'[i] = log[i]
      /\ \E i \in DOMAIN log' : log'[i] = op[t].entry
  <2>1. Len(log) + 1 \in DOMAIN log' /\ log'[Len(log) + 1] = op[t].entry
    BY <1>3
  <2>. QED BY <1>3, <2>1
<1>5. \A i \in DOMAIN log' : log'[i].version <= rfc'.version
  BY <1>4 DEF WrittenKept
<1>6. \A u \in Threads : op'[u].pc \in {"append", "resolve"} =>
          op'[u].entry.version <= rfc'.version
  BY <1>1 DEF WrittenKept
<1>7. \A d \in history'.written :
          (\E i \in DOMAIN log' : log'[i] = d) \/ Archived(d, rfc'.version, logs')
  BY <1>4 DEF WrittenKept
<1>8. op'[Human].pc = "commit" /\ op'[Human].existed =>
          \A d \in history'.written : Archived(d, op'[Human].rec.version + 1, logs')
  BY <1>1, <1>2 DEF WrittenKept, Moving
<1>9. op'[Human].pc = "clear" =>
          \A d \in history'.written : Archived(d, rfc'.version, logs')
  BY <1>1, <1>2 DEF WrittenKept, Typed, Moving
<1>. QED BY <1>5, <1>6, <1>7, <1>8, <1>9 DEF WrittenKept

-----------------------------------------------------------------------------
(* The whole invariant. *)

\* In a step that writes neither the file nor the log and prepares no record.
LEMMA QuietMove ==
    ASSUME RfcInv, NEW t \in Threads, NEW c \in CallType, op' = [op EXCEPT ![t] = c],
           UNCHANGED <<rfc, log, glued, logs, home, up, lock, seq, edits, asks, history>>,
           loose' \in Threads \union {None},
           bodies \subseteq bodies', bodies' \subseteq Versions, faults' \in 0 .. MaxFaults,
           \/ c.pc = "idle" /\ c.rec.body = 0 /\ c.rec.version = 0
           \/ t = Human /\ c.rec \in {rfc, op[t].rec},
           t = Human => c.pc \notin {"append", "newline", "resolve", "save", "commit", "clear", "edit"},
           c.pc # "idle" => rfc.version >= 1,
           c.pc \in {"counts", "reopen", "copy"} => c.rec = rfc,
           c.pc \in {"reopen", "copy"} => VersionsLeft,
           c.pc = "copy" => c.rec.version \in bodies',
           c.pc # "idle" => 1 .. c.rec.version - 1 \subseteq bodies,
           c.entry = NoChange
    PROVE  RfcInv'
<1>0. /\ Typed /\ VersionOrder /\ EditInv /\ ArchivedBefore /\ PendingFresh /\ LogFresh
      /\ Reviewed /\ WrittenKept /\ IdsCounted
  BY DEF RfcInv
<1>h. Human \in Threads /\ Human \notin Agents /\ Agents \subseteq Threads
  BY RfcConstants DEF Threads
<1>i. t # Human => c.pc = "idle" /\ c.rec.version = 0
  OBVIOUS
<1>j. c.pc \notin {"append", "newline", "resolve", "save", "commit", "clear", "edit"}
  BY <1>i
<1>1. Typed'
  <2>1. /\ rfc' \in Rec /\ log' \in Seq(Decision) /\ glued' \in BOOLEAN
        /\ logs' \in [Versions -> Seq(Decision)] /\ lock' \in [Services -> LockType]
        /\ seq' \in [Services -> Nat] /\ edits' \in Seq(Services) /\ asks' \in 0 .. MaxAsks
        /\ history' \in HistoryType /\ home' = home /\ up' = up
    BY <1>0 DEF Typed, TypeOK, LockType
  <2>2. (t \in Agents => t # Human) /\ c.entry.status # "resolved"
    BY <1>h DEF NoChange
  <2>. QED BY <1>0, <1>i, <1>j, <2>1, <2>2, TypedMove
<1>2. rfc.version \in Nat
  BY <1>0, NaturalVersions
<1>3. VersionOrder'
  <2>1. /\ rfc' = rfc /\ rfc.version <= rfc'.version
        /\ c.pc # "idle" => rfc'.version >= 1
        /\ ~history'.torn => ~history.torn
        /\ c.pc \in {"counts", "reopen", "copy"} => rfc'.version <= c.rec.version
        /\ c.pc \in {"counts", "reopen", "copy"} => c.rec.version >= 1
        /\ t # Human => c.pc = "idle" /\ c.rec.version = 0
        /\ c.pc = "copy" => c.rec.version < MaxVersions
    BY <1>2, <1>i DEF VersionsLeft
  <2>2. c.pc \in Holding => c.pc \in {"counts", "reopen", "copy"}
    BY <1>j DEF Holding
  <2>3. c.pc \in {"counts", "save", "reopen", "copy", "commit"} => c.pc \in {"counts", "reopen", "copy"}
    BY <1>j
  <2>4. c.pc = "reopen" => VersionsLeft /\ rfc' = rfc /\ t = Human
    BY <2>1
  <2>. QED BY <1>0, <1>1, <1>j, <2>1, <2>2, <2>3, <2>4, VersionMove
<1>4. 1 .. rfc.version - 1 \subseteq bodies'
  BY <1>0 DEF ArchivedBefore, VersionsArchived
<1>5. ArchivedBefore'
  <2>1. c.pc # "idle" => 1 .. c.rec.version - 1 \subseteq bodies'
    OBVIOUS
  <2>2. 1 .. rfc'.version - 1 \subseteq bodies'
    BY <1>4
  <2>3. c.pc \in {"copy", "commit"} => c.rec.version \in bodies'
    BY <1>j
  <2>. QED BY <1>0, <2>1, <2>2, <2>3, ArchiveMove
<1>6. PendingFresh' /\ LogFresh'
  BY <1>0, <1>j, IdsQuiet
<1>7. Reviewed'
  BY <1>0, <1>j, ReviewQuiet
<1>8. WrittenKept'
  <2>1. ~history'.torn => ~history.torn /\ rfc.version <= rfc'.version
    BY <1>2
  <2>. QED BY <1>0, <1>1, <1>j, <2>1, KeptQuiet
<1>9. EditInv'
  <2>1. c.rec.body \in {0, rfc.body, op[t].rec.body}
    OBVIOUS
  <2>2. rfc'.body \in {0, rfc.body, op[t].rec.body}
    OBVIOUS
  <2>. QED BY <1>0, <1>j, <2>1, <2>2, EditMove
<1>10. IdsCounted'
  <2>1. asks \in Nat /\ NoChange.id = 0
    BY <1>0, RfcConstants DEF Typed, TypeOK, NoChange
  <2>2. asks <= asks' /\ c.entry.id <= asks' /\ \A v \in Services : seq'[v] <= asks'
    BY <1>0, <2>1 DEF IdsCounted
  <2>. QED BY <1>0, <1>1, <2>2, CountedMove
<1>. QED BY <1>1, <1>3, <1>5, <1>6, <1>7, <1>8, <1>9, <1>10 DEF RfcInv

\* The call of an idle thread.
LEMMA IdleCall ==
    /\ Idle \in CallType /\ Idle.pc = "idle" /\ NoChange \in Decision
    /\ Idle.rec.body = 0 /\ Idle.rec.version = 0 /\ NoRfc \in Rec /\ Idle.entry = NoChange
    /\ "none" \in States \union Transitions \union {"none"}
<1>1. NoRfc \in Rec /\ NoChange \in Decision
  BY RfcConstants DEF NoRfc, NoChange, Rec, Decision, States
<1>2. "idle" \in Pcs /\ "none" \in States \union Transitions \union {"none"}
  BY DEF Pcs
<1>3. Idle.rec.body = 0 /\ Idle.rec.version = 0 /\ Idle.entry = NoChange
  BY DEF Idle, Call, NoRfc
<1>. QED BY <1>1, <1>2, <1>3 DEF Idle, Call, CallType

\* The invariant holds before the RFC exists.
LEMMA RfcInvInit == Init => RfcInv
<1>. SUFFICES ASSUME Init PROVE RfcInv
  OBVIOUS
<1>2. /\ op = [t \in Threads |-> Idle] /\ log = <<>> /\ rfc = NoRfc
      /\ loose = None /\ glued = FALSE /\ home \in [Threads -> Services] /\ up = {}
      /\ history = [written |-> {}, issuers |-> {}, late |-> FALSE, torn |-> FALSE]
      /\ bodies = {} /\ seq = [v \in Services |-> 0] /\ edits = <<>> /\ asks = 0
      /\ faults = 0 /\ lock = [v \in Services |-> NoLock]
      /\ logs = [n \in Versions |-> <<>>]
  BY DEF Init
<1>3. \A t \in Threads : op[t] = Idle
  BY <1>2
<1>4. rfc \in Rec /\ rfc.state = "absent" /\ rfc.version = 0 /\ rfc.body = 0
  BY <1>2, RfcConstants DEF NoRfc, Rec, States
<1>5. Human \in Threads /\ Agents \subseteq Threads
  BY DEF Threads
<1>6. Typed
  <2>1. op \in [Threads -> CallType]
    BY <1>2, IdleCall
  <2>2. history \in HistoryType
    BY <1>2 DEF HistoryType
  <2>3. lock \in [Services -> LockType] /\ seq \in [Services -> Nat]
    BY <1>2 DEF NoLock, LockType
  <2>4. log \in Seq(Decision) /\ logs \in [Versions -> Seq(Decision)] /\ edits \in Seq(Services)
    BY <1>2
  <2>5. \A t \in Threads : op[t].rec \in Rec /\ op[t].entry \in Decision
    BY <2>1 DEF CallType
  <2>6. TypeOK
    <3>1. /\ loose \in Threads \union {None} /\ glued \in BOOLEAN /\ bodies \subseteq Versions
          /\ home \in [Threads -> Services] /\ up \subseteq Services
      BY <1>2
    <3>2. asks \in 0 .. MaxAsks /\ faults \in 0 .. MaxFaults
      BY <1>2, RfcConstants
    <3>. QED BY <1>4, <2>3, <2>4, <2>5, <3>1, <3>2 DEF TypeOK, LockType
  <2>7. Idle.entry.status # "resolved"
    BY IdleCall DEF NoChange
  <2>. QED BY <1>3, <1>5, <2>1, <2>2, <2>6, <2>7, IdleCall DEF Typed
<1>7. EditInv
  <2>1. Len(edits) = 0
    BY <1>2
  <2>. QED BY <1>3, <1>4, <1>5, <2>1, IdleCall DEF EditInv, BodiesKnown, NewestInFlight
<1>8. VersionOrder
  BY <1>3, <1>4, <1>5, IdleCall DEF VersionOrder, Holding
<1>9. ArchivedBefore
  BY <1>3, <1>4, <1>5, IdleCall DEF ArchivedBefore, VersionsArchived
<1>10. DOMAIN log = {}
  BY <1>2
<1>11. PendingFresh
  BY <1>2, <1>3, <1>5, IdleCall DEF PendingFresh
<1>12. LogFresh
  BY <1>2, <1>3, <1>5, <1>10, IdleCall DEF LogFresh, LogWellFormed
<1>13. Reviewed
  BY <1>10 DEF Reviewed, AllReviewed
<1>14. WrittenKept
  BY <1>2, <1>3, <1>5, <1>10, IdleCall DEF WrittenKept
<1>15. IdsCounted
  <2>1. NoChange.id = 0
    BY DEF NoChange
  <2>2. \A t \in Threads : op[t].entry.id <= asks
    BY <1>2, <1>3, <2>1, IdleCall
  <2>. QED BY <1>2, <1>10, <2>2 DEF IdsCounted
<1>. QED BY <1>6, <1>7, <1>8, <1>9, <1>11, <1>12, <1>13, <1>14, <1>15 DEF RfcInv

-----------------------------------------------------------------------------
(* The steps. *)

\* What the steps use of the invariant.
LEMMA InvFacts ==
    ASSUME RfcInv
    PROVE  /\ Typed /\ EditInv /\ VersionOrder /\ ArchivedBefore /\ PendingFresh /\ IdsCounted
           /\ LogFresh /\ Reviewed /\ WrittenKept
           /\ Human \in Threads /\ Human \notin Agents /\ Agents \subseteq Threads
           /\ DOMAIN op = Threads
           /\ rfc \in Rec /\ log \in Seq(Decision) /\ loose \in Threads \union {None}
           /\ glued \in BOOLEAN /\ bodies \subseteq Versions
           /\ logs \in [Versions -> Seq(Decision)]
           /\ home \in [Threads -> Services] /\ up \subseteq Services
           /\ lock \in [Services -> LockType] /\ seq \in [Services -> Nat]
           /\ edits \in Seq(Services) /\ asks \in 0 .. MaxAsks /\ faults \in 0 .. MaxFaults
           /\ history \in HistoryType /\ MaxFaults \in Nat /\ MaxVersions \in Nat
           /\ 1 .. rfc.version - 1 \subseteq bodies
<1>1. Typed /\ ArchivedBefore
  BY DEF RfcInv
<1>2. TypeOK /\ history \in HistoryType /\ DOMAIN op = Threads
  BY <1>1 DEF Typed
<1>3. Human \in Threads /\ Human \notin Agents /\ Agents \subseteq Threads
  BY RfcConstants DEF Threads
<1>4. 1 .. rfc.version - 1 \subseteq bodies
  BY <1>1 DEF ArchivedBefore, VersionsArchived
<1>. QED BY <1>2, <1>3, <1>4, RfcConstants DEF RfcInv, TypeOK, LockType

\* A service that starts takes up the numbering after the ids it can read.
LEMMA StartStep == ASSUME RfcInv, NEW v \in Services, Start(v) PROVE RfcInv'
<1>1. /\ v \notin up /\ up' = up \union {v} /\ seq' = [seq EXCEPT ![v] = InitialDecisionSeq]
      /\ UNCHANGED <<rfc, bodies, logs, log, loose, glued, home, lock, op, edits, asks, faults, history>>
  BY DEF Start, store, records
<1>2. InitialDecisionSeq \in Nat /\ InitialDecisionSeq <= asks
  BY InvFacts, SeqSeeded
<1>3. /\ seq' \in [Services -> Nat] /\ up' \subseteq Services
      /\ \A w \in Services : seq'[w] = IF w = v THEN InitialDecisionSeq ELSE seq[w]
  BY <1>1, <1>2, InvFacts
<1>4. Typed'
  BY <1>1, <1>3, InvFacts DEF Typed, TypeOK
<1>5. EditInv' /\ VersionOrder' /\ ArchivedBefore' /\ Reviewed' /\ WrittenKept'
  <2>1. EditInv'
    BY <1>1, InvFacts DEF EditInv, BodiesKnown, NewestInFlight, Older
  <2>2. VersionOrder'
    BY <1>1, InvFacts DEF VersionOrder, VersionsLeft
  <2>3. ArchivedBefore'
    BY <1>1, InvFacts DEF ArchivedBefore, VersionsArchived
  <2>4. Reviewed'
    BY <1>1, InvFacts DEF Reviewed, AllReviewed
  <2>5. WrittenKept'
    BY <1>1, InvFacts DEF WrittenKept, Archived
  <2>. QED BY <2>1, <2>2, <2>3, <2>4, <2>5
<1>6. IdsCounted'
  BY <1>1, <1>2, <1>3, InvFacts DEF IdsCounted
<1>7. OneIssuer' = OneIssuer /\ OneNumbering' = OneNumbering
  BY <1>1 DEF OneIssuer, OneNumbering
<1>8. \A t \in Threads : home[t] \in Services
  BY InvFacts
<1>9. PendingFresh'
  <2>1. \A t \in Threads : op'[t].pc = "append" =>
          /\ home'[t] \in (history.issuers \intersect up)'
          /\ op'[t].entry.id <= seq'[home'[t]]
    BY <1>1, <1>3, <1>8, InvFacts DEF PendingFresh
  <2>. QED BY <1>1, <1>7, <2>1, InvFacts DEF PendingFresh
<1>10. LogFresh'
  <2>. SUFFICES ASSUME OneNumbering PROVE LogFresh'
    BY <1>7 DEF LogFresh
  <2>1. LogWellFormed'
    BY <1>1, InvFacts DEF LogFresh, LogWellFormed, OneNumbering
  <2>2. \A i \in DOMAIN log : log[i].id <= InitialDecisionSeq
    BY InvFacts, SeqSeeded DEF OneNumbering
  <2>3. history.issuers \subseteq Services
    BY InvFacts DEF HistoryType
  <2>4. \A w \in (history.issuers \intersect up)' : \A i \in DOMAIN log' : log'[i].id <= seq'[w]
    BY <1>1, <1>3, <2>2, <2>3, InvFacts DEF LogFresh
  <2>. QED BY <1>1, <2>1, <2>4, InvFacts DEF LogFresh
<1>. QED BY <1>4, <1>5, <1>6, <1>9, <1>10 DEF RfcInv

\* The lock store is not part of what is remembered about files.
LEMMA LockStep ==
    ASSUME RfcInv, NEW v \in Services, NEW entry \in LockType, SetLock(v, entry)
    PROVE  RfcInv'
<1>1. /\ lock' = [lock EXCEPT ![v] = entry]
      /\ UNCHANGED <<rfc, bodies, logs, log, loose, glued, home, up, seq, op, edits, asks, faults, history>>
  BY DEF SetLock, store, records
<1>2. lock' \in [Services -> LockType]
  BY <1>1, InvFacts
<1>3. Typed'
  BY <1>1, <1>2, InvFacts DEF Typed, TypeOK, LockType
<1>4. EditInv' /\ VersionOrder' /\ ArchivedBefore'
  BY <1>1, InvFacts
     DEF EditInv, BodiesKnown, NewestInFlight, Older, VersionOrder, VersionsLeft, ArchivedBefore,
         VersionsArchived
<1>5. Reviewed' /\ WrittenKept'
  BY <1>1, InvFacts DEF Reviewed, AllReviewed, WrittenKept, Archived
<1>6. PendingFresh' /\ IdsCounted'
  BY <1>1, InvFacts DEF PendingFresh, IdsCounted, OneIssuer
<1>7. LogFresh'
  BY <1>1, InvFacts DEF LogFresh, LogWellFormed, OneNumbering
<1>. QED BY <1>3, <1>4, <1>5, <1>6, <1>7 DEF RfcInv

LEMMA CreateStep == ASSUME RfcInv, Create PROVE RfcInv'
<1>1. /\ op' = op /\ op[Human] = Idle /\ rfc.state = "absent"
      /\ rfc' = [state |-> "draft-empty", version |-> 1, body |-> 0]
      /\ UNCHANGED <<bodies, logs, log, loose, glued, home, up, lock, seq, edits, asks, faults, history>>
  BY DEF Create, Ready, records, service
<1>2. op' = [op EXCEPT ![Human] = Idle] /\ rfc.version = 0
  <2>1. op \in [Threads -> CallType]
    BY InvFacts DEF Typed
  <2>2. op' = [op EXCEPT ![Human] = Idle]
    BY <1>1, <2>1
  <2>. QED BY <1>1, <2>2, InvFacts DEF VersionOrder
<1>3. rfc' \in Rec /\ rfc'.state = "draft-empty" /\ rfc'.version = 1 /\ rfc'.body = 0
  BY <1>1, RfcConstants DEF Rec, States
<1>4. Typed'
  BY <1>1, <1>2, <1>3, InvFacts, IdleCall, TypedMove
<1>5. VersionOrder'
  <2>1. /\ rfc'.state # "absent" /\ rfc'.version >= 1 /\ rfc.version <= rfc'.version
        /\ Idle.pc \notin Holding /\ history' = history
    BY <1>1, <1>2, <1>3, IdleCall DEF Holding
  <2>. QED BY <1>2, <1>4, <2>1, InvFacts, IdleCall, VersionMove DEF Holding
<1>6. ArchivedBefore'
  <2>1. 1 .. rfc'.version - 1 \subseteq bodies'
    BY <1>3
  <2>. QED BY <1>1, <1>2, <2>1, InvFacts, IdleCall, ArchiveMove
<1>7. PendingFresh' /\ LogFresh'
  BY <1>1, <1>2, InvFacts, IdleCall, IdsQuiet
<1>8. Reviewed'
  BY <1>1, <1>2, <1>3, InvFacts, IdleCall, ReviewQuiet
<1>9. WrittenKept'
  <2>1. rfc.version <= rfc'.version
    BY <1>2, <1>3
  <2>. QED BY <1>1, <1>2, <1>4, <2>1, InvFacts, IdleCall, KeptQuiet
<1>10. EditInv'
  <2>1. Idle.rec.body = 0 /\ Idle.pc # "edit" /\ rfc'.body = 0
    BY <1>3, IdleCall
  <2>. QED BY <1>1, <1>2, <2>1, InvFacts, EditMove
<1>11. IdsCounted'
  BY <1>1, InvFacts DEF IdsCounted
<1>. QED BY <1>4, <1>5, <1>6, <1>7, <1>8, <1>9, <1>10, <1>11 DEF RfcInv

\* The process counts on: the id is new to the log and to every call, as long as
\* no other process hands out ids.
LEMMA AskLoadStep ==
    ASSUME RfcInv, NEW t \in Threads, NEW status \in {"open", "proposed"}, AskLoad(t, status)
    PROVE  RfcInv'
<1>. DEFINE v == home[t]
            e == [id |-> seq[v] + 1, version |-> rfc.version, status |-> status]
            c == Call("append", NoRfc, "none", e, FALSE)
<1>1. /\ op[t] = Idle /\ v \in up /\ rfc.state # "absent" /\ asks < MaxAsks /\ asks' = asks + 1
      /\ seq' = [seq EXCEPT ![v] = seq[v] + 1] /\ op' = [op EXCEPT ![t] = c]
      /\ history' = [history EXCEPT !.issuers = history.issuers \union {v}]
      /\ UNCHANGED <<rfc, bodies, logs, log, loose, glued, home, up, lock, edits, faults>>
  BY DEF AskLoad, Ready, Goto, ToolAllowed, Draft, store, records
<1>2. v \in Services /\ seq[v] \in Nat /\ asks \in Nat /\ asks' \in 0 .. MaxAsks /\ asks' \in Nat
  BY <1>1, InvFacts, RfcConstants
<1>3. /\ history' \in HistoryType /\ history'.issuers = history.issuers \union {v}
      /\ history'.written = history.written /\ history'.late = history.late
      /\ history'.torn = history.torn
  BY <1>1, <1>2, InvFacts DEF HistoryType
<1>4. /\ e \in Decision /\ e.id = seq[v] + 1 /\ e.version = rfc.version
      /\ e.status # "resolved"
  BY <1>2, InvFacts, NaturalVersions DEF Decision
<1>. HIDE DEF e
<1>5. "append" \in Pcs
  BY DEF Pcs
<1>6. /\ c \in CallType /\ c.pc = "append" /\ c.rec = NoRfc /\ c.entry = e
      /\ NoRfc.version = 0 /\ NoRfc.body = 0
  BY <1>4, <1>5, IdleCall DEF Call, CallType, NoRfc
<1>. HIDE DEF c
<1>7. \A u \in Threads : op'[u] = IF u = t THEN c ELSE op[u]
  BY <1>1, InvFacts
<1>8. /\ seq' \in [Services -> Nat]
      /\ \A w \in Services : seq'[w] = IF w = v THEN seq[v] + 1 ELSE seq[w]
  BY <1>1, <1>2, InvFacts
<1>. HIDE DEF v
<1>9. Typed'
  BY <1>1, <1>2, <1>3, <1>4, <1>6, <1>8, InvFacts, TypedMove
<1>10. rfc.version >= 1 /\ rfc.version \in Nat
  BY <1>1, InvFacts, NaturalVersions DEF VersionOrder
<1>11. VersionOrder'
  <2>1. /\ rfc' = rfc /\ rfc.version <= rfc'.version /\ rfc'.version >= 1
        /\ c.pc \notin Holding /\ c.rec.version = 0
    BY <1>1, <1>6, <1>10 DEF Holding
  <2>. QED BY <1>1, <1>3, <1>6, <1>9, <2>1, InvFacts, VersionMove DEF Holding
<1>12. ArchivedBefore'
  <2>1. 1 .. c.rec.version - 1 \subseteq bodies
    BY <1>6
  <2>. QED BY <1>1, <1>6, <2>1, InvFacts, ArchiveMove
<1>13. EditInv'
  BY <1>1, <1>6, InvFacts, EditMove
<1>14. Reviewed'
  BY <1>1, <1>3, <1>6, InvFacts, ReviewQuiet
<1>15. WrittenKept'
  BY <1>1, <1>3, <1>4, <1>6, <1>7, <1>10, InvFacts DEF WrittenKept
<1>16. IdsCounted'
  <2>1. /\ asks <= asks' /\ c.entry.id <= asks'
        /\ \A w \in Services : seq'[w] <= asks'
    BY <1>1, <1>2, <1>4, <1>6, <1>8, InvFacts DEF IdsCounted
  <2>. QED BY <1>1, <1>9, <2>1, InvFacts, CountedMove
<1>17. OneIssuer' => OneIssuer /\ history.issuers \subseteq {v}
  BY <1>3 DEF OneIssuer
<1>18. /\ \A i \in DOMAIN log : log[i].id \in Nat
       /\ \A u \in Threads : op[u].entry.id \in Nat /\ home[u] \in Services
  <2>1. \A i \in DOMAIN log : log[i] \in Decision
    BY InvFacts
  <2>. QED BY <2>1, InvFacts DEF Decision, Typed, TypeOK
<1>19. PendingFresh'
  <2>1. history'.issuers # {}
    BY <1>3
  <2>2. \A u \in Threads : op'[u].pc \in {"append", "resolve"} =>
          (op'[u].pc = "resolve" <=> op'[u].entry.status = "resolved")
    BY <1>4, <1>6, <1>7, InvFacts DEF PendingFresh
  <2>3. ASSUME NEW u \in Threads, op'[u].pc = "append"
        PROVE  /\ home'[u] \in (history.issuers \intersect up)'
               /\ op'[u].entry.id <= seq'[home'[u]]
    <3>1. CASE u = t
      BY <1>1, <1>2, <1>3, <1>4, <1>6, <1>7, <1>8, <3>1 DEF v
    <3>2. CASE u # t
      <4>1. /\ op[u].pc = "append" /\ op'[u] = op[u] /\ home'[u] = home[u]
            /\ home[u] \in history.issuers \intersect up /\ op[u].entry.id <= seq[home[u]]
        BY <1>1, <1>7, <2>3, <3>2, InvFacts DEF PendingFresh
      <4>2. seq[home[u]] \in Nat /\ seq[home[u]] <= seq'[home[u]]
        <5>1. home[u] \in Services
          BY <1>18
        <5>2. \A w \in Services : seq[w] \in Nat
          BY InvFacts
        <5>. QED BY <1>8, <5>1, <5>2
      <4>. QED BY <1>1, <1>3, <1>8, <1>18, <4>1, <4>2
    <3>. QED BY <3>1, <3>2
  <2>4. ASSUME OneIssuer', NEW u \in Threads, op[u].pc = "append", u # t
        PROVE  op[u].entry.id # e.id
    <3>1. home[u] = v /\ op[u].entry.id <= seq[v]
      BY <1>17, <2>4, InvFacts DEF PendingFresh
    <3>. QED BY <1>2, <1>4, <1>18, <3>1
  <2>5. OneIssuer' => \A u, w \in Threads :
          u # w /\ op'[u].pc = "append" /\ op'[w].pc = "append" =>
             op'[u].entry.id # op'[w].entry.id
    <3>. SUFFICES ASSUME OneIssuer', NEW u \in Threads, NEW w \in Threads, u # w,
                         op'[u].pc = "append", op'[w].pc = "append"
                  PROVE  op'[u].entry.id # op'[w].entry.id
      OBVIOUS
    <3>1. CASE u = t
      BY <1>6, <1>7, <2>4, <3>1
    <3>2. CASE w = t
      BY <1>6, <1>7, <2>4, <3>2
    <3>3. CASE u # t /\ w # t
      <4>1. OneIssuer /\ PendingFresh
        BY <1>17, InvFacts
      <4>. QED BY <1>7, <3>3, <4>1 DEF PendingFresh
    <3>. QED BY <3>1, <3>2, <3>3
  <2>. QED BY <2>1, <2>2, <2>3, <2>5 DEF PendingFresh
<1>20. LogFresh'
  <2>. SUFFICES ASSUME OneNumbering' PROVE LogFresh'
    BY DEF LogFresh
  <2>1. OneIssuer' /\ OneNumbering
    BY <1>1, <1>3 DEF OneNumbering, OneIssuer
  <2>2. history.issuers \subseteq {v}
    BY <1>17, <2>1
  <2>3. \A i \in DOMAIN log : log[i].id <= seq[v]
    <3>1. CASE history.issuers = {}
      BY <3>1, InvFacts DEF PendingFresh
    <3>2. CASE history.issuers # {}
      BY <1>1, <2>1, <2>2, <3>2, InvFacts DEF LogFresh
    <3>. QED BY <3>1, <3>2
  <2>4. \A i \in DOMAIN log : log[i].id # e.id /\ log[i].id <= seq'[v]
    BY <1>2, <1>4, <1>8, <1>18, <2>3
  <2>5. LogWellFormed'
    BY <1>1, <2>1, InvFacts DEF LogFresh, LogWellFormed
  <2>6. \A w \in (history.issuers \intersect up)' : w = v
    BY <1>3, <2>2
  <2>7. \A u \in Threads : op'[u].pc = "append" =>
          \A i \in DOMAIN log' : log'[i].id # op'[u].entry.id
    BY <1>1, <1>6, <1>7, <2>1, <2>4, InvFacts DEF LogFresh
  <2>8. op'[Human].pc = "resolve" => op'[Human] = op[Human]
    BY <1>6, <1>7, InvFacts
  <2>. QED BY <1>1, <2>1, <2>4, <2>5, <2>6, <2>7, <2>8, InvFacts DEF LogFresh
<1>. QED BY <1>9, <1>11, <1>12, <1>13, <1>14, <1>15, <1>16, <1>19, <1>20 DEF RfcInv

\* A line is written.
LEMMA AppendLineStep == ASSUME RfcInv, NEW t \in Threads, AppendLine(t) PROVE RfcInv'
<1>. DEFINE e == op[t].entry
            c == Call("newline", op[t].rec, "none", e, FALSE)
<1>1. /\ op[t].pc \in {"append", "resolve"} /\ log' = Append(log, e) /\ loose' = t
      /\ glued' = (glued \/ loose # None) /\ op' = [op EXCEPT ![t] = c]
      /\ UNCHANGED <<rfc, bodies, logs, home, up, lock, seq, edits, asks, faults>>
  BY DEF AppendLine, Goto, store, service
<1>2. /\ e \in Decision /\ op[t] \in CallType /\ op[t].rec \in Rec
      /\ op[t].pc = "resolve" => t = Human
  <2>1. op[t] \in CallType /\ op[t].rec \in Rec /\ e \in Decision
    BY InvFacts, NaturalVersions DEF Typed, TypeOK
  <2>2. op[t].pc = "resolve" => t \notin Agents
    BY InvFacts DEF Typed
  <2>. QED BY <2>1, <2>2 DEF Threads
<1>3. (Moving \/ loose # None) \in BOOLEAN /\ Uncounted(e) \in BOOLEAN
  BY InvFacts DEF Moving, Typed, CallType, Uncounted
<1>4. history' = [history EXCEPT !.written = history.written \union {e},
                                 !.late = history.late \/ Uncounted(e),
                                 !.torn = history.torn \/ Moving \/ loose # None]
  BY DEF AppendLine
<1>. HIDE DEF e
<1>5. /\ history' \in HistoryType /\ history'.issuers = history.issuers
      /\ history'.written = history.written \union {e}
      /\ history'.late = (history.late \/ Uncounted(e))
      /\ ~history'.torn => ~history.torn /\ ~Moving
  <2>1. history \in [written : SUBSET Decision, issuers : SUBSET Services,
                     late : BOOLEAN, torn : BOOLEAN]
    BY InvFacts DEF HistoryType
  <2>2. history.written \union {e} \in SUBSET Decision
    BY <1>2, <2>1
  <2>3. /\ (history.late \/ Uncounted(e)) \in BOOLEAN
        /\ (history.torn \/ Moving \/ loose # None) \in BOOLEAN
    BY <1>3, <2>1
  <2>. HIDE DEF Moving
  <2>. QED BY <1>4, <2>1, <2>2, <2>3 DEF HistoryType
<1>6. "newline" \in Pcs
  BY DEF Pcs
<1>7. c \in CallType /\ c.pc = "newline" /\ c.rec = op[t].rec /\ c.entry = e
  BY <1>2, <1>6, IdleCall DEF Call, CallType
<1>. HIDE DEF c
<1>8. log' \in Seq(Decision) /\ loose' \in Threads \union {None} /\ glued' \in BOOLEAN
  BY <1>1, <1>2, InvFacts
<1>9. Typed'
  <2>1. /\ t = Human => c.pc \notin {"edit", "save", "clear"}
        /\ t \in Agents => c.entry.status # "resolved"
    BY <1>7, InvFacts DEF Typed, e
  <2>. QED BY <1>1, <1>5, <1>7, <1>8, <2>1, InvFacts, TypedMove
<1>10. rfc.version >= 1 /\ rfc.version \in Nat
  BY <1>1, InvFacts, NaturalVersions DEF VersionOrder
<1>11. VersionOrder'
  <2>1. /\ rfc' = rfc /\ rfc.version <= rfc'.version /\ rfc'.version >= 1
        /\ c.pc \notin Holding /\ c.rec.version = op[t].rec.version
    BY <1>1, <1>7, <1>10 DEF Holding
  <2>. QED BY <1>1, <1>5, <1>7, <1>9, <2>1, InvFacts, VersionMove DEF Holding
<1>12. ArchivedBefore'
  <2>1. 1 .. op[t].rec.version - 1 \subseteq bodies
    BY <1>1, InvFacts DEF ArchivedBefore
  <2>. QED BY <1>1, <1>7, <2>1, InvFacts, ArchiveMove
<1>13. EditInv'
  BY <1>1, <1>7, InvFacts, EditMove
<1>14. PendingFresh' /\ LogFresh'
  <2>1. ~glued' => ~glued
    BY <1>1, InvFacts
  <2>2. log' = Append(log, op[t].entry)
    BY <1>1 DEF e
  <2>. QED BY <1>1, <1>2, <1>5, <1>7, <2>1, <2>2, InvFacts, IdsAppend
<1>15. Reviewed'
  <2>1. log' = Append(log, op[t].entry) /\ history'.late = (history.late \/ Uncounted(op[t].entry))
    BY <1>1, <1>5 DEF e
  <2>. QED BY <1>1, <1>7, <2>1, InvFacts, ReviewAppend
<1>16. WrittenKept'
  <2>1. log' = Append(log, op[t].entry) /\ history'.written = history.written \union {op[t].entry}
    BY <1>1, <1>5 DEF e
  <2>. QED BY <1>1, <1>5, <1>7, <2>1, InvFacts, KeptAppend
<1>17. IdsCounted'
  <2>1. asks \in Nat
    BY InvFacts, RfcConstants
  <2>2. asks <= asks' /\ c.entry.id <= asks' /\ \A v \in Services : seq'[v] <= asks'
    BY <1>1, <1>7, <2>1, InvFacts DEF IdsCounted, e
  <2>3. log' = Append(log, op[t].entry)
    BY <1>1 DEF e
  <2>. QED BY <1>1, <1>9, <2>2, <2>3, InvFacts, CountedMove
<1>. QED BY <1>9, <1>11, <1>12, <1>13, <1>14, <1>15, <1>16, <1>17 DEF RfcInv

\* Its newline follows.
LEMMA AppendNewlineStep == ASSUME RfcInv, NEW t \in Threads, AppendNewline(t) PROVE RfcInv'
<1>. DEFINE r == Call("resolved", op[t].rec, "none", NoChange, FALSE)
<1>1. /\ op[t].pc = "newline" /\ loose' = (IF loose = t THEN None ELSE loose)
      /\ \/ op' = [op EXCEPT ![t] = Idle]
         \/ op[t].entry.status = "resolved" /\ op' = [op EXCEPT ![t] = r]
      /\ UNCHANGED <<rfc, bodies, logs, log, glued, home, up, lock, seq, edits, asks, faults, history>>
  BY DEF AppendNewline, Goto, store, service
<1>2. loose' \in Threads \union {None}
  BY <1>1, InvFacts
<1>3. CASE op' = [op EXCEPT ![t] = Idle]
  BY <1>1, <1>2, <1>3, InvFacts, IdleCall, QuietMove
<1>4. CASE op[t].entry.status = "resolved" /\ op' = [op EXCEPT ![t] = r]
  <2>1. t = Human
    BY <1>1, <1>4, InvFacts DEF Typed, Threads
  <2>2. "resolved" \in Pcs /\ op[t].rec \in Rec
    BY InvFacts, NaturalVersions DEF Pcs
  <2>3. r \in CallType /\ r.pc = "resolved" /\ r.rec = op[t].rec /\ r.entry = NoChange
    BY <2>2, IdleCall DEF Call, CallType
  <2>. HIDE DEF r
  <2>4. rfc.version >= 1 /\ 1 .. op[t].rec.version - 1 \subseteq bodies
    BY <1>1, InvFacts DEF VersionOrder, ArchivedBefore
  <2>. QED BY <1>1, <1>2, <1>4, <2>1, <2>3, <2>4, InvFacts, QuietMove
<1>. QED BY <1>1, <1>3, <1>4

\* An answer is prepared: its question has none yet.
LEMMA ResolveLoadStep == ASSUME RfcInv, NEW id \in Ids, ResolveLoad(id) PROVE RfcInv'
<1>. DEFINE e == [id |-> id, version |-> rfc.version, status |-> "resolved"]
            c == Call("resolve", rfc, "none", e, FALSE)
<1>1. /\ op[Human] = Idle /\ rfc.state # "absent" /\ Resolvable(id)
      /\ op' = [op EXCEPT ![Human] = c]
      /\ UNCHANGED <<rfc, bodies, logs, log, loose, glued, home, up, lock, seq, edits, asks,
                     faults, history>>
  BY DEF ResolveLoad, Ready, Goto, store, records, service
<1>2. PICK i \in DOMAIN log : log[i].id = id
  BY DEF Ids
<1>3. log[i] \in Decision /\ id \in Nat /\ id <= asks
  <2>1. log[i] \in Decision
    BY InvFacts
  <2>. QED BY <1>2, <2>1, InvFacts DEF Decision, IdsCounted
<1>4. OneNumbering => \A j \in DOMAIN log : log[j].id = id => log[j].status = "open"
  BY <1>1, <1>2, OnlyLatest, InvFacts DEF Resolvable, LogFresh
<1>5. e \in Decision /\ e.id = id /\ e.version = rfc.version /\ e.status = "resolved"
  BY <1>3, InvFacts, NaturalVersions DEF Decision
<1>. HIDE DEF e
<1>6. "resolve" \in Pcs
  BY DEF Pcs
<1>7. c \in CallType /\ c.pc = "resolve" /\ c.rec = rfc /\ c.entry = e
  BY <1>5, <1>6, InvFacts, IdleCall DEF Call, CallType
<1>. HIDE DEF c
<1>8. \A u \in Threads : op'[u] = IF u = Human THEN c ELSE op[u]
  BY <1>1, InvFacts
<1>9. Typed'
  BY <1>1, <1>7, InvFacts, TypedMove
<1>10. rfc.version >= 1 /\ rfc.version \in Nat
  BY <1>1, InvFacts, NaturalVersions DEF VersionOrder
<1>11. VersionOrder'
  <2>1. /\ rfc' = rfc /\ rfc.version <= rfc'.version /\ rfc'.version >= 1 /\ c.pc \notin Holding
    BY <1>1, <1>7, <1>10 DEF Holding
  <2>. QED BY <1>1, <1>7, <1>9, <2>1, InvFacts, VersionMove DEF Holding
<1>12. ArchivedBefore'
  BY <1>1, <1>7, InvFacts, ArchiveMove
<1>13. EditInv'
  BY <1>1, <1>7, InvFacts, EditMove
<1>14. Reviewed'
  BY <1>1, <1>7, InvFacts, ReviewQuiet
<1>15. WrittenKept'
  BY <1>1, <1>5, <1>7, <1>8, <1>10, InvFacts DEF WrittenKept
<1>16. IdsCounted'
  <2>1. asks \in Nat
    BY InvFacts, RfcConstants
  <2>2. asks <= asks' /\ c.entry.id <= asks' /\ \A v \in Services : seq'[v] <= asks'
    BY <1>1, <1>3, <1>5, <1>7, <2>1, InvFacts DEF IdsCounted
  <2>. QED BY <1>1, <1>9, <2>2, InvFacts, CountedMove
<1>17. OneIssuer' = OneIssuer /\ OneNumbering' = OneNumbering
  BY <1>1 DEF OneIssuer, OneNumbering
<1>18. PendingFresh'
  <2>1. history.issuers # {}
    BY <1>2, InvFacts DEF PendingFresh
  <2>2. \A u \in Threads : op'[u].pc = "append" => op'[u] = op[u] /\ op[u].pc = "append"
    BY <1>7, <1>8
  <2>3. \A u \in Threads : op'[u].pc \in {"append", "resolve"} =>
          (op'[u].pc = "resolve" <=> op'[u].entry.status = "resolved")
    BY <1>5, <1>7, <1>8, InvFacts DEF PendingFresh
  <2>. QED BY <1>1, <1>17, <2>1, <2>2, <2>3, InvFacts DEF PendingFresh
<1>19. LogFresh'
  <2>. SUFFICES ASSUME OneNumbering PROVE LogFresh'
    BY <1>17 DEF LogFresh
  <2>1. LogWellFormed'
    BY <1>1, InvFacts DEF LogFresh, LogWellFormed
  <2>2. \A u \in Threads : op'[u].pc = "append" => op'[u] = op[u] /\ op[u].pc = "append"
    BY <1>7, <1>8
  <2>3. op'[Human].entry.id = id
    BY <1>5, <1>7, <1>8, InvFacts
  <2>. QED BY <1>1, <1>2, <1>4, <2>1, <2>2, <2>3, InvFacts DEF LogFresh
<1>. QED BY <1>9, <1>11, <1>12, <1>13, <1>14, <1>15, <1>16, <1>18, <1>19 DEF RfcInv

\* The steps of the human that only read.
LEMMA ReadingSteps ==
    ASSUME RfcInv,
           \/ ResolveCounts \/ ReopenValidate \/ ReopenArchive
           \/ \E t \in Transitions : TransitionLoad(t)
    PROVE  RfcInv'
<1>1. CASE ResolveCounts
  <2>. DEFINE c == Call("counts", rfc, "resolve", NoChange, FALSE)
  <2>1. /\ op[Human].pc = "resolved"
        /\ op' = [op EXCEPT ![Human] = Idle] \/ op' = [op EXCEPT ![Human] = c]
        /\ UNCHANGED <<rfc, bodies, logs, log, loose, glued, home, up, lock, seq, edits, asks,
                       faults, history>>
    BY <1>1 DEF ResolveCounts, Goto, store, records, service
  <2>2. "counts" \in Pcs /\ "resolve" \in Transitions
    BY DEF Pcs, Transitions
  <2>3. rfc.version >= 1
    BY <2>1, InvFacts DEF VersionOrder
  <2>4. c \in CallType /\ c.pc = "counts" /\ c.rec = rfc /\ c.entry = NoChange
    BY <2>2, InvFacts, IdleCall DEF Call, CallType
  <2>. HIDE DEF c
  <2>5. CASE op' = [op EXCEPT ![Human] = Idle]
    BY <2>1, <2>5, InvFacts, IdleCall, QuietMove
  <2>6. CASE op' = [op EXCEPT ![Human] = c]
    BY <2>1, <2>3, <2>4, <2>6, InvFacts, QuietMove
  <2>. QED BY <2>1, <2>5, <2>6
<1>2. CASE \E t \in Transitions : TransitionLoad(t)
  <2>1. PICK t \in Transitions : TransitionLoad(t)
    BY <1>2
  <2>. DEFINE c == Call("counts", rfc, t, NoChange, FALSE)
  <2>2. /\ rfc.state # "absent" /\ op' = [op EXCEPT ![Human] = c]
        /\ UNCHANGED <<rfc, bodies, logs, log, loose, glued, home, up, lock, seq, edits, asks,
                       faults, history>>
    BY <2>1 DEF TransitionLoad, Goto, store, records, service
  <2>3. "counts" \in Pcs
    BY DEF Pcs
  <2>4. rfc.version >= 1
    BY <2>2, InvFacts DEF VersionOrder
  <2>5. c \in CallType /\ c.pc = "counts" /\ c.rec = rfc /\ c.entry = NoChange
    BY <2>3, InvFacts, IdleCall DEF Call, CallType
  <2>. HIDE DEF c
  <2>. QED BY <2>2, <2>4, <2>5, InvFacts, QuietMove
<1>3. CASE ReopenValidate
  <2>. DEFINE c == Call("reopen", rfc, "none", NoChange, FALSE)
  <2>1. /\ rfc.state # "absent" /\ VersionsLeft /\ op' = [op EXCEPT ![Human] = c]
        /\ UNCHANGED <<rfc, bodies, logs, log, loose, glued, home, up, lock, seq, edits, asks,
                       faults, history>>
    BY <1>3 DEF ReopenValidate, Goto, store, records, service
  <2>2. "reopen" \in Pcs
    BY DEF Pcs
  <2>3. rfc.version >= 1
    BY <2>1, InvFacts DEF VersionOrder
  <2>4. c \in CallType /\ c.pc = "reopen" /\ c.rec = rfc /\ c.entry = NoChange
    BY <2>2, InvFacts, IdleCall DEF Call, CallType
  <2>. HIDE DEF c
  <2>. QED BY <2>1, <2>3, <2>4, InvFacts, QuietMove
<1>4. CASE ReopenArchive
  <2>. DEFINE c == Call("copy", rfc, "none", NoChange, FALSE)
  <2>1. /\ op[Human].pc = "reopen" /\ bodies' = bodies \union {rfc.version}
        /\ op' = [op EXCEPT ![Human] = c]
        /\ UNCHANGED <<rfc, logs, log, loose, glued, home, up, lock, seq, edits, asks, faults,
                       history>>
    BY <1>4 DEF ReopenArchive, Goto, records, service
  <2>2. "copy" \in Pcs
    BY DEF Pcs
  <2>3. rfc.version >= 1 /\ VersionsLeft
    BY <2>1, InvFacts DEF VersionOrder
  <2>4. rfc.version \in Versions
    BY <2>3, InvFacts, NaturalVersions DEF Versions
  <2>5. c \in CallType /\ c.pc = "copy" /\ c.rec = rfc /\ c.entry = NoChange
    BY <2>2, InvFacts, IdleCall DEF Call, CallType
  <2>. HIDE DEF c
  <2>6. bodies \subseteq bodies' /\ bodies' \subseteq Versions /\ c.rec.version \in bodies'
    BY <2>1, <2>4, <2>5, InvFacts
  <2>. QED BY <2>1, <2>3, <2>5, <2>6, InvFacts, QuietMove
<1>. QED BY <1>1, <1>2, <1>3, <1>4

\* A transition is validated against the counts: to active only with every design
\* decision reviewed.
LEMMA TransitionCountsStep == ASSUME RfcInv, TransitionCounts PROVE RfcInv'
<1>. DEFINE to == ValidateTransition(op[Human].rec.state, op[Human].what)
            c  == Call("save", op[Human].rec, to, NoChange, FALSE)
<1>1. /\ op[Human].pc = "counts"
      /\ op' = [op EXCEPT ![Human] = IF to = "absent" \/ glued THEN Idle ELSE c]
      /\ UNCHANGED <<rfc, bodies, logs, log, loose, glued, home, up, lock, seq, edits, asks,
                     faults, history>>
  BY DEF TransitionCounts, Goto, store, records, service
<1>2. CASE to = "absent" \/ glued
  <2>1. op' = [op EXCEPT ![Human] = Idle]
    BY <1>1, <1>2
  <2>. HIDE DEF to, c
  <2>. QED BY <1>1, <2>1, InvFacts, IdleCall, QuietMove
<1>3. CASE ~(to = "absent" \/ glued)
  <2>1. op' = [op EXCEPT ![Human] = c] /\ to # "absent"
    BY <1>1, <1>3
  <2>2. to \in States /\ (to = "active" => Counted("proposed") = 0)
    BY <1>3 DEF ValidateTransition, States
  <2>3. "save" \in Pcs
    BY DEF Pcs
  <2>. HIDE DEF to
  <2>4. /\ c \in CallType /\ c.pc = "save" /\ c.rec = op[Human].rec /\ c.what = to
        /\ c.entry = NoChange
    BY <2>2, <2>3, InvFacts, IdleCall, NaturalVersions DEF Call, CallType
  <2>. HIDE DEF c
  <2>5. Typed'
    <3>1. /\ c.what \in States \ {"absent"}
          /\ c.pc # "edit" /\ c.pc # "clear"
      BY <2>1, <2>2, <2>4
    <3>2. Typed /\ Human \in Threads /\ Human \notin Agents
      BY InvFacts
    <3>. QED BY <1>1, <2>1, <2>4, <3>1, <3>2, InvFacts, TypedMove
  <2>6. /\ rfc.version >= 1 /\ op[Human].rec.version >= 1 /\ rfc.version \in Nat
        /\ ~history.torn => rfc.version <= op[Human].rec.version
    BY <1>1, InvFacts, NaturalVersions DEF VersionOrder, Holding
  <2>7. VersionOrder'
    <3>1. /\ rfc' = rfc /\ history' = history /\ rfc.version <= rfc'.version
          /\ c.rec.version >= 1
          /\ ~history'.torn => rfc'.version <= c.rec.version
      BY <1>1, <2>4, <2>6
    <3>. QED BY <2>1, <2>4, <2>5, <2>6, <3>1, InvFacts, VersionMove
  <2>8. ArchivedBefore'
    <3>1. 1 .. op[Human].rec.version - 1 \subseteq bodies
      BY <1>1, InvFacts DEF ArchivedBefore
    <3>. QED BY <1>1, <2>1, <2>4, <3>1, InvFacts, ArchiveMove
  <2>9. PendingFresh' /\ LogFresh'
    BY <1>1, <2>1, <2>4, InvFacts, IdsQuiet
  <2>10. Reviewed'
    <3>1. op'[Human] = c
      BY <2>1, InvFacts
    <3>2. to = "active" => AllReviewed
      BY <2>2, InvFacts, CountsZero
    <3>3. AllReviewed' = AllReviewed
      BY <1>1 DEF AllReviewed
    <3>. QED BY <1>1, <2>4, <3>1, <3>2, <3>3, InvFacts DEF Reviewed
  <2>11. WrittenKept'
    <3>1. ~history'.torn => ~history.torn /\ rfc.version <= rfc'.version
      BY <1>1, <2>6
    <3>. QED BY <1>1, <2>1, <2>4, <2>5, <3>1, InvFacts, KeptQuiet
  <2>12. EditInv'
    BY <1>1, <2>1, <2>4, InvFacts, EditMove
  <2>13. IdsCounted'
    <3>1. asks \in Nat /\ NoChange.id = 0
      BY InvFacts, RfcConstants DEF NoChange
    <3>2. asks <= asks' /\ c.entry.id <= asks' /\ \A v \in Services : seq'[v] <= asks'
      BY <1>1, <2>4, <3>1, InvFacts DEF IdsCounted
    <3>. QED BY <1>1, <2>1, <2>5, <3>2, InvFacts, CountedMove
  <2>. QED BY <2>5, <2>7, <2>8, <2>9, <2>10, <2>11, <2>12, <2>13 DEF RfcInv
<1>. QED BY <1>2, <1>3

\* A thread that ends its call writes the file as it holds it.
LEMMA SaveMove ==
    ASSUME RfcInv, NEW t \in Threads, op[t].pc \in {"save", "edit"},
           op' = [op EXCEPT ![t] = Idle],
           rfc' = [state |-> rfc'.state, version |-> op[t].rec.version, body |-> op[t].rec.body],
           rfc'.state \in States \ {"absent"},
           rfc'.state = "active" => op[Human].pc = "save" /\ op[Human].what = "active",
           history' \in HistoryType, history'.written = history.written,
           history'.issuers = history.issuers, history'.late = history.late,
           ~history'.torn => ~history.torn /\ (t # Human => rfc.version = op[t].rec.version),
           UNCHANGED <<bodies, logs, log, loose, glued, home, up, lock, seq, edits, asks, faults>>
    PROVE  RfcInv'
<1>1. op[t].rec \in Rec /\ op[t].rec.version \in Nat /\ rfc.version \in Nat
  BY InvFacts, NaturalVersions
<1>2. op[t].rec.version >= 1
  BY InvFacts DEF VersionOrder, Holding
<1>3. /\ rfc' \in Rec /\ rfc'.version = op[t].rec.version /\ rfc'.body = op[t].rec.body
      /\ rfc'.version >= 1
  BY <1>1, <1>2 DEF Rec
<1>4. ~history'.torn => ~history.torn /\ rfc.version <= rfc'.version
  <2>. SUFFICES ASSUME ~history'.torn PROVE rfc.version <= rfc'.version
    OBVIOUS
  <2>1. CASE t = Human
    BY <1>3, <2>1, InvFacts DEF VersionOrder, Typed
  <2>2. CASE t # Human
    BY <1>1, <1>3, <2>2
  <2>. QED BY <2>1, <2>2
<1>5. Typed'
  <2>1. Idle.entry.status # "resolved"
    BY IdleCall DEF NoChange
  <2>. QED BY <1>3, <2>1, InvFacts, IdleCall, TypedMove
<1>6. VersionOrder'
  <2>1. /\ rfc'.state # "absent" /\ Idle.pc \notin Holding
        /\ t # Human => /\ ~history'.torn => rfc'.version = rfc.version
                        /\ rfc'.version \in {rfc.version, op[t].rec.version}
                        /\ Idle.rec.version = 0
    BY <1>3, IdleCall DEF Holding
  <2>. QED BY <1>3, <1>4, <1>5, <2>1, InvFacts, IdleCall, VersionMove DEF Holding
<1>7. ArchivedBefore'
  <2>1. 1 .. op[t].rec.version - 1 \subseteq bodies
    BY InvFacts DEF ArchivedBefore
  <2>. QED BY <1>3, <2>1, InvFacts, IdleCall, ArchiveMove
<1>8. PendingFresh' /\ LogFresh'
  BY InvFacts, IdleCall, IdsQuiet
<1>9. Reviewed'
  <2>1. AllReviewed' = AllReviewed
    BY DEF AllReviewed
  <2>2. op'[Human].pc = "save" => op'[Human] = op[Human]
    BY InvFacts, IdleCall
  <2>. QED BY <2>1, <2>2, InvFacts DEF Reviewed
<1>10. WrittenKept'
  BY <1>4, <1>5, InvFacts, IdleCall, KeptQuiet
<1>11. EditInv'
  <2>1. Idle.rec.body = 0 /\ Idle.pc # "edit"
    BY IdleCall
  <2>. QED BY <1>3, <2>1, InvFacts, EditMove
<1>12. IdsCounted'
  <2>1. asks \in Nat /\ Idle.entry.id = 0
    BY InvFacts, IdleCall, RfcConstants DEF NoChange
  <2>2. asks <= asks' /\ Idle.entry.id <= asks' /\ \A v \in Services : seq'[v] <= asks'
    BY <2>1, InvFacts DEF IdsCounted
  <2>. QED BY <1>5, <2>2, InvFacts, CountedMove
<1>. QED BY <1>5, <1>6, <1>7, <1>8, <1>9, <1>10, <1>11, <1>12 DEF RfcInv

\* The two ways to save.
LEMMA SaveSteps ==
    ASSUME RfcInv, TransitionSave \/ \E a \in Agents : EditSave(a) PROVE RfcInv'
<1>1. CASE TransitionSave
  <2>1. /\ op[Human].pc = "save" /\ op' = [op EXCEPT ![Human] = Idle]
        /\ rfc' = [state   |-> op[Human].what, version |-> op[Human].rec.version,
                   body    |-> op[Human].rec.body]
        /\ UNCHANGED <<bodies, logs, log, loose, glued, home, up, lock, seq, edits, asks,
                       faults, history>>
    BY <1>1 DEF TransitionSave, Goto, records, service
  <2>2. op[Human].what \in States \ {"absent"}
    BY <2>1, InvFacts DEF Typed
  <2>. QED BY <2>1, <2>2, InvFacts, SaveMove
<1>2. CASE \E a \in Agents : EditSave(a)
  <2>1. PICK a \in Agents : EditSave(a)
    BY <1>2
  <2>2. /\ op[a].pc = "edit" /\ rfc' = op[a].rec /\ op' = [op EXCEPT ![a] = Idle]
        /\ history' = [history EXCEPT !.torn = history.torn \/ rfc.version # op[a].rec.version]
        /\ UNCHANGED <<bodies, logs, log, loose, glued, home, up, lock, seq, edits, asks, faults>>
    BY <2>1 DEF EditSave, Goto, records, service
  <2>3. op[a].rec \in Rec /\ op[a].rec.state = "draft-active" /\ a \in Threads /\ a # Human
    BY <2>2, InvFacts, NaturalVersions DEF VersionOrder
  <2>4. rfc' = [state |-> rfc'.state, version |-> op[a].rec.version, body |-> op[a].rec.body]
    BY <2>2, <2>3 DEF Rec
  <2>5. /\ history' \in HistoryType /\ history'.written = history.written
        /\ history'.issuers = history.issuers /\ history'.late = history.late
        /\ ~history'.torn => ~history.torn /\ rfc.version = op[a].rec.version
    BY <2>2, InvFacts DEF HistoryType
  <2>6. rfc'.state = "draft-active" /\ "draft-active" \in States \ {"absent"}
    BY <2>2, <2>3 DEF States
  <2>. QED BY <2>2, <2>3, <2>4, <2>5, <2>6, SaveMove
<1>. QED BY <1>1, <1>2

\* The log is copied before the new version is committed.
LEMMA ReopenCopiesStep == ASSUME RfcInv, ReopenCopies PROVE RfcInv'
<1>. DEFINE n == op[Human].rec.version
            c == Call("commit", op[Human].rec, "none", NoChange, log # <<>>)
<1>1. /\ op[Human].pc = "copy" /\ op' = [op EXCEPT ![Human] = c]
      /\ logs' = IF log # <<>> THEN [logs EXCEPT ![n] = log] ELSE logs
      /\ UNCHANGED <<rfc, bodies, log, loose, glued, home, up, lock, seq, edits, asks, faults,
                     history>>
  BY DEF ReopenCopies, Goto, records, service
<1>2. "commit" \in Pcs /\ op[Human].rec \in Rec /\ (log # <<>>) \in BOOLEAN
  BY InvFacts, NaturalVersions DEF Pcs
<1>3. /\ c \in CallType /\ c.pc = "commit" /\ c.rec = op[Human].rec
      /\ c.existed = (log # <<>>) /\ c.entry = NoChange
  BY <1>2, IdleCall DEF Call, CallType
<1>. HIDE DEF c
<1>4. /\ n \in Nat /\ n >= 1 /\ n < MaxVersions /\ rfc.version >= 1 /\ rfc.version \in Nat
      /\ n \in bodies
      /\ ~history.torn => rfc.version <= n
  BY <1>1, InvFacts, NaturalVersions DEF VersionOrder, Holding, ArchivedBefore
<1>5. n \in Versions
  BY <1>4, InvFacts DEF Versions
<1>6. \A u \in Threads : op'[u] = IF u = Human THEN c ELSE op[u]
  BY <1>1, InvFacts
<1>7. logs' \in [Versions -> Seq(Decision)]
  BY <1>1, <1>5, InvFacts
<1>8. Typed'
  BY <1>1, <1>3, <1>7, InvFacts, TypedMove
<1>9. VersionOrder'
  <2>1. /\ rfc' = rfc /\ history' = history /\ rfc.version <= rfc'.version
        /\ rfc'.version >= 1 /\ c.rec.version >= 1 /\ c.rec.version < MaxVersions
        /\ ~history'.torn => rfc'.version <= c.rec.version
    BY <1>1, <1>3, <1>4
  <2>. QED BY <1>1, <1>3, <1>8, <2>1, InvFacts, VersionMove
<1>10. ArchivedBefore'
  <2>1. 1 .. op[Human].rec.version - 1 \subseteq bodies
    BY <1>1, InvFacts DEF ArchivedBefore
  <2>. QED BY <1>1, <1>3, <1>4, <2>1, InvFacts, ArchiveMove
<1>11. PendingFresh' /\ LogFresh'
  BY <1>1, <1>3, InvFacts, IdsQuiet
<1>12. Reviewed'
  BY <1>1, <1>3, InvFacts, ReviewQuiet
<1>13. EditInv'
  BY <1>1, <1>3, InvFacts, EditMove
<1>14. IdsCounted'
  <2>1. asks \in Nat /\ NoChange.id = 0
    BY InvFacts, RfcConstants DEF NoChange
  <2>2. asks <= asks' /\ c.entry.id <= asks' /\ \A v \in Services : seq'[v] <= asks'
    BY <1>1, <1>3, <2>1, InvFacts DEF IdsCounted
  <2>. QED BY <1>1, <1>8, <2>2, InvFacts, CountedMove
<1>15. WrittenKept'
  <2>. SUFFICES ASSUME ~history.torn PROVE WrittenKept'
    BY <1>1 DEF WrittenKept
  <2>w. WrittenKept /\ rfc' = rfc /\ log' = log /\ history' = history
    BY <1>1, InvFacts
  <2>1. \A m \in Versions : m # n => logs'[m] = logs[m]
    BY <1>1, <1>5, InvFacts
  <2>2. log # <<>> => logs'[n] = log
    BY <1>1, <1>5, InvFacts
  <2>n. rfc.version <= n
    BY <1>4
  <2>. HIDE DEF n
  <2>3. ASSUME NEW d, Archived(d, rfc.version, logs)
        PROVE  Archived(d, rfc'.version, logs') /\ Archived(d, n + 1, logs')
    <3>1. PICK m \in Versions : /\ m < rfc.version /\ d.version <= m
                                /\ \E i \in DOMAIN logs[m] : logs[m][i] = d
      BY <2>3 DEF Archived
    <3>2. m \in Nat /\ m # n /\ m < n + 1 /\ logs'[m] = logs[m]
      BY <1>4, <2>1, <2>n, <3>1 DEF Versions
    <3>. QED BY <2>w, <3>1, <3>2 DEF Archived
  <2>4. ASSUME NEW i \in DOMAIN log PROVE Archived(log[i], n + 1, logs')
    <3>1. log # <<>> /\ log[i] \in Decision
      BY <2>4, InvFacts
    <3>2. log[i].version <= rfc.version /\ log[i].version \in Nat
      BY <2>4, <2>w, <3>1 DEF WrittenKept, Decision
    <3>3. log[i].version <= n /\ n < n + 1
      BY <1>4, <2>n, <3>2
    <3>4. \E k \in DOMAIN logs'[n] : logs'[n][k] = log[i]
      BY <2>2, <2>4, <3>1
    <3>. QED BY <1>5, <3>3, <3>4 DEF Archived
  <2>5. \A i \in DOMAIN log' : log'[i].version <= rfc'.version
    BY <2>w DEF WrittenKept
  <2>6. \A u \in Threads : op'[u].pc \in {"append", "resolve"} =>
            op'[u].entry.version <= rfc'.version
    BY <1>3, <1>6, <2>w DEF WrittenKept
  <2>7. \A d \in history'.written :
            (\E i \in DOMAIN log' : log'[i] = d) \/ Archived(d, rfc'.version, logs')
    BY <2>3, <2>w DEF WrittenKept
  <2>8. \A d \in history'.written : Archived(d, n + 1, logs')
    BY <2>3, <2>4, <2>w DEF WrittenKept
  <2>9. op'[Human] = c /\ c.pc = "commit" /\ c.rec.version = n
    BY <1>3, <1>6, InvFacts DEF n
  <2>. QED BY <2>5, <2>6, <2>7, <2>8, <2>9 DEF WrittenKept
<1>. QED BY <1>8, <1>9, <1>10, <1>11, <1>12, <1>13, <1>14, <1>15 DEF RfcInv

\* The new version is committed with its predecessor in the archive.
LEMMA ReopenCommitStep == ASSUME RfcInv, ReopenCommit PROVE RfcInv'
<1>. DEFINE n == op[Human].rec.version
            c == IF op[Human].existed
                 THEN Call("clear", op[Human].rec, "none", NoChange, TRUE) ELSE Idle
<1>1. /\ op[Human].pc = "commit" /\ op' = [op EXCEPT ![Human] = c]
      /\ rfc' = [state |-> "draft-active", version |-> n + 1, body |-> op[Human].rec.body]
      /\ UNCHANGED <<bodies, logs, log, loose, glued, home, up, lock, seq, edits, asks, faults,
                     history>>
  BY DEF ReopenCommit, Goto, NextVersion, records, service
<1>2. "clear" \in Pcs /\ op[Human].rec \in Rec
  BY InvFacts, NaturalVersions DEF Pcs
<1>3. /\ c \in CallType /\ c.pc = (IF op[Human].existed THEN "clear" ELSE "idle")
      /\ c.rec.body \in {0, op[Human].rec.body} /\ c.entry = NoChange
      /\ op[Human].existed => c.rec = op[Human].rec /\ c.existed
  BY <1>2, IdleCall DEF Call, CallType
<1>. HIDE DEF c
<1>4. /\ n \in Nat /\ n >= 1 /\ n < MaxVersions /\ rfc.version \in Nat
      /\ n \in bodies
      /\ ~history.torn => rfc.version <= n
  BY <1>1, InvFacts, NaturalVersions DEF VersionOrder, Holding, ArchivedBefore
<1>5. \A u \in Threads : op'[u] = IF u = Human THEN c ELSE op[u]
  BY <1>1, InvFacts
<1>6. /\ rfc' \in Rec /\ rfc'.version = n + 1 /\ rfc'.state = "draft-active"
      /\ rfc'.body = op[Human].rec.body
  <2>1. op[Human].rec.body \in Nat
    BY <1>2 DEF Rec
  <2>2. n + 1 \in 0 .. MaxVersions
    <3>. HIDE DEF n
    <3>. QED BY <1>4, RfcConstants
  <2>. QED BY <1>1, <2>1, <2>2 DEF Rec, States
<1>7. Typed'
  <2>1. c.pc \in {"clear", "idle"} /\ (c.pc = "clear" => c.existed)
    BY <1>3
  <2>. QED BY <1>1, <1>3, <1>6, <2>1, InvFacts, TypedMove
<1>8. VersionOrder'
  <2>1. /\ rfc'.state # "absent" /\ rfc'.version >= 1 /\ history' = history
        /\ ~history.torn => rfc.version <= rfc'.version
        /\ c.pc \in {"clear", "idle"} /\ (c.pc = "clear" => c.rec = op[Human].rec)
    BY <1>1, <1>3, <1>4, <1>6
  <2>2. c.pc = "clear" => c.rec.version >= 1 /\ c.rec.version < MaxVersions
    BY <1>4, <2>1
  <2>. HIDE DEF n
  <2>. QED BY <1>1, <1>3, <1>7, <2>1, <2>2, InvFacts, VersionMove DEF Holding
<1>9. ArchivedBefore'
  <2>1. 1 .. n - 1 \subseteq bodies
    BY <1>1, InvFacts DEF ArchivedBefore
  <2>2. 1 .. rfc'.version - 1 \subseteq bodies
    BY <1>4, <1>6, <2>1
  <2>3. c.pc # "idle" => 1 .. c.rec.version - 1 \subseteq bodies
    BY <1>3, <2>1
  <2>4. c.pc \notin {"copy", "commit"}
    BY <1>3
  <2>. QED BY <1>1, <2>2, <2>3, <2>4, InvFacts, ArchiveMove
<1>10. c.pc \in {"clear", "idle"}
  BY <1>3
<1>11. PendingFresh' /\ LogFresh'
  BY <1>1, <1>10, InvFacts, IdsQuiet
<1>12. Reviewed'
  BY <1>1, <1>6, <1>10, InvFacts, ReviewQuiet
<1>13. EditInv'
  BY <1>1, <1>3, <1>6, <1>10, InvFacts, EditMove
<1>14. IdsCounted'
  <2>1. asks \in Nat /\ NoChange.id = 0
    BY InvFacts, RfcConstants DEF NoChange
  <2>2. asks <= asks' /\ c.entry.id <= asks' /\ \A v \in Services : seq'[v] <= asks'
    BY <1>1, <1>3, <2>1, InvFacts DEF IdsCounted
  <2>. QED BY <1>1, <1>7, <2>2, InvFacts, CountedMove
<1>15. WrittenKept'
  <2>. SUFFICES ASSUME ~history.torn PROVE WrittenKept'
    BY <1>1 DEF WrittenKept
  <2>w. WrittenKept /\ log' = log /\ logs' = logs /\ history' = history /\ op[Human].pc = "commit"
    BY <1>1, InvFacts
  <2>1. rfc.version <= rfc'.version /\ rfc'.version \in Nat
    BY <1>4, <1>6
  <2>2. \A d : Archived(d, rfc.version, logs) => Archived(d, rfc'.version, logs')
    BY <1>4, <2>1, <2>w, ArchivedMonotone
  <2>3. \A i \in DOMAIN log : log[i] \in Decision
    BY InvFacts
  <2>4. \A i \in DOMAIN log : log[i].version \in Nat
    BY <2>3 DEF Decision
  <2>5. \A u \in Threads : op[u].entry \in Decision
    BY InvFacts DEF Typed, TypeOK
  <2>6. \A u \in Threads : op[u].entry.version \in Nat
    BY <2>5 DEF Decision
  <2>7. \A i \in DOMAIN log' : log'[i].version <= rfc'.version
    BY <1>4, <2>1, <2>4, <2>w DEF WrittenKept
  <2>8. \A u \in Threads : op'[u].pc \in {"append", "resolve"} =>
            op'[u].entry.version <= rfc'.version
    BY <1>4, <1>5, <1>10, <2>1, <2>6, <2>w DEF WrittenKept
  <2>9. \A d \in history'.written :
            (\E i \in DOMAIN log' : log'[i] = d) \/ Archived(d, rfc'.version, logs')
    BY <2>2, <2>w DEF WrittenKept
  <2>10. op[Human].existed => \A d \in history'.written : Archived(d, rfc'.version, logs')
    BY <1>6, <2>w DEF WrittenKept
  <2>11. op'[Human] = c
    BY <1>5, InvFacts
  <2>. QED BY <1>3, <1>10, <2>7, <2>8, <2>9, <2>10, <2>11 DEF WrittenKept
<1>. QED BY <1>7, <1>8, <1>9, <1>11, <1>12, <1>13, <1>14, <1>15 DEF RfcInv

\* The log is removed, and with it what made it unreadable.
LEMMA ReopenClearStep == ASSUME RfcInv, ReopenClear PROVE RfcInv'
<1>1. /\ op[Human].pc = "clear" /\ op' = [op EXCEPT ![Human] = Idle]
      /\ log' = <<>> /\ loose' = None /\ glued' = FALSE
      /\ history' = [history EXCEPT !.torn =
                        history.torn \/ \E a \in Agents : op[a].pc = "append"]
      /\ UNCHANGED <<rfc, bodies, logs, home, up, lock, seq, edits, asks, faults>>
  BY DEF ReopenClear, Goto, store, service
<1>2. log' \in Seq(Decision) /\ DOMAIN log' = {}
  BY <1>1
<1>3. /\ history' \in HistoryType /\ history'.written = history.written
      /\ history'.issuers = history.issuers
      /\ ~history'.torn => ~history.torn
  BY <1>1, InvFacts DEF HistoryType
<1>4. \A u \in Threads : op'[u] = IF u = Human THEN Idle ELSE op[u]
  BY <1>1, InvFacts
<1>5. Typed'
  BY <1>1, <1>2, <1>3, InvFacts, IdleCall, TypedMove
<1>6. rfc.version \in Nat
  BY InvFacts, NaturalVersions
<1>7. VersionOrder'
  <2>1. /\ rfc' = rfc /\ rfc.version <= rfc'.version
        /\ ~history'.torn => ~history.torn
        /\ Idle.pc \notin Holding
    BY <1>1, <1>3, <1>6, IdleCall DEF Holding
  <2>. QED BY <1>1, <1>5, <2>1, InvFacts, IdleCall, VersionMove DEF Holding
<1>8. ArchivedBefore'
  BY <1>1, InvFacts, IdleCall, ArchiveMove
<1>9. EditInv'
  <2>1. Idle.rec.body = 0 /\ Idle.pc # "edit"
    BY IdleCall
  <2>. QED BY <1>1, <2>1, InvFacts, EditMove
<1>10. \A u \in Threads : op'[u].pc \in {"append", "resolve"} => op'[u] = op[u] /\ u # Human
  BY <1>4, IdleCall
<1>11. OneIssuer' = OneIssuer
  BY <1>3 DEF OneIssuer
<1>12. PendingFresh'
  <2>1. op'[Human].pc # "resolve"
    BY <1>10, InvFacts
  <2>. QED BY <1>1, <1>3, <1>10, <1>11, <2>1, InvFacts DEF PendingFresh
<1>13. LogFresh'
  <2>1. LogWellFormed'
    BY <1>2 DEF LogWellFormed
  <2>2. op'[Human].pc # "resolve"
    BY <1>10, InvFacts
  <2>. QED BY <1>2, <2>1, <2>2 DEF LogFresh
<1>14. Reviewed'
  BY <1>2 DEF Reviewed, AllReviewed
<1>15. WrittenKept'
  <2>. SUFFICES ASSUME ~history'.torn PROVE WrittenKept'
    BY DEF WrittenKept
  <2>w. WrittenKept /\ ~history.torn /\ rfc' = rfc /\ logs' = logs /\ op[Human].pc = "clear"
    BY <1>1, <1>3, InvFacts
  <2>1. \A d \in history'.written : Archived(d, rfc'.version, logs')
    BY <1>3, <2>w DEF WrittenKept
  <2>2. op'[Human].pc = "idle"
    BY <1>4, InvFacts, IdleCall
  <2>3. \A u \in Threads : op'[u].pc \in {"append", "resolve"} =>
            op'[u].entry.version <= rfc'.version
    BY <1>10, <2>w DEF WrittenKept
  <2>. QED BY <1>2, <2>1, <2>2, <2>3 DEF WrittenKept
<1>16. IdsCounted'
  <2>1. \A u \in Threads : op'[u].entry.id <= asks'
    <3>1. asks \in Nat /\ Idle.entry.id = 0
      BY InvFacts, IdleCall, RfcConstants DEF NoChange
    <3>. QED BY <1>1, <1>4, <3>1, InvFacts DEF IdsCounted
  <2>. QED BY <1>1, <1>2, <2>1, InvFacts DEF IdsCounted
<1>. QED BY <1>5, <1>7, <1>8, <1>9, <1>12, <1>13, <1>14, <1>15, <1>16 DEF RfcInv

\* An edit starts: no other of its process is in flight, and its body is new.
LEMMA EditLoadStep == ASSUME RfcInv, NEW a \in Agents, EditLoad(a) PROVE RfcInv'
<1>. DEFINE v == home[a]
            r == [state |-> rfc.state, version |-> rfc.version, body |-> Len(edits) + 1]
            c == Call("edit", r, "none", NoChange, FALSE)
<1>1. /\ op[a] = Idle /\ rfc.state = "draft-active" /\ MutexFree(v)
      /\ lock' = [lock EXCEPT ![v] = [by |-> a, expired |-> FALSE]]
      /\ edits' = Append(edits, v) /\ op' = [op EXCEPT ![a] = c]
      /\ UNCHANGED <<rfc, bodies, logs, log, loose, glued, home, up, seq, asks, faults, history>>
  BY DEF EditLoad, Ready, Goto, store, records
<1>2. a \in Threads /\ a # Human /\ v \in Services /\ Len(edits) \in Nat
  BY InvFacts
<1>3. /\ edits' \in Seq(Services) /\ Len(edits') = Len(edits) + 1
      /\ \A x \in 1 .. Len(edits) : edits'[x] = edits[x]
      /\ edits'[Len(edits) + 1] = v
  BY <1>1, <1>2, InvFacts
<1>4. [by |-> a, expired |-> FALSE] \in LockType
  BY DEF LockType
<1>5. lock' \in [Services -> LockType]
  BY <1>1, <1>4, InvFacts
<1>6. r \in Rec /\ r.version = rfc.version /\ r.state = "draft-active" /\ r.body = Len(edits) + 1
  BY <1>1, <1>2, InvFacts, NaturalVersions DEF Rec, States
<1>. HIDE DEF r
<1>7. "edit" \in Pcs
  BY DEF Pcs
<1>8. c \in CallType /\ c.pc = "edit" /\ c.rec = r /\ c.entry = NoChange
  BY <1>6, <1>7, IdleCall DEF Call, CallType
<1>. HIDE DEF c, v
<1>9. \A u \in Threads : op'[u] = IF u = a THEN c ELSE op[u]
  BY <1>1, InvFacts
<1>10. Typed'
  <2>1. c.entry.status # "resolved"
    BY <1>8 DEF NoChange
  <2>. QED BY <1>1, <1>2, <1>3, <1>5, <1>8, <2>1, InvFacts, TypedMove
<1>11. rfc.version >= 1 /\ rfc.version \in Nat
  BY <1>1, InvFacts, NaturalVersions DEF VersionOrder
<1>12. VersionOrder'
  <2>1. /\ rfc' = rfc /\ history' = history /\ rfc.version <= rfc'.version /\ rfc'.version >= 1
        /\ c.rec.version >= 1 /\ c.rec.version = rfc.version /\ c.rec.version <= rfc'.version
        /\ c.rec.state = "draft-active"
    BY <1>1, <1>6, <1>8, <1>11
  <2>. QED BY <1>1, <1>2, <1>8, <1>10, <2>1, InvFacts, VersionMove
<1>13. ArchivedBefore'
  <2>1. 1 .. c.rec.version - 1 \subseteq bodies
    BY <1>6, <1>8, InvFacts
  <2>. QED BY <1>1, <1>2, <1>8, <2>1, InvFacts, ArchiveMove
<1>14. PendingFresh' /\ LogFresh'
  BY <1>1, <1>2, <1>8, InvFacts, IdsQuiet
<1>15. Reviewed'
  BY <1>1, <1>2, <1>8, InvFacts, ReviewQuiet
<1>16. WrittenKept'
  <2>1. rfc.version <= rfc'.version
    BY <1>1, <1>11
  <2>. QED BY <1>1, <1>2, <1>8, <1>10, <2>1, InvFacts, KeptQuiet
<1>17. IdsCounted'
  <2>1. asks \in Nat /\ NoChange.id = 0
    BY InvFacts, RfcConstants DEF NoChange
  <2>2. asks <= asks' /\ c.entry.id <= asks' /\ \A w \in Services : seq'[w] <= asks'
    BY <1>1, <1>8, <2>1, InvFacts DEF IdsCounted
  <2>. QED BY <1>1, <1>2, <1>10, <2>2, InvFacts, CountedMove
<1>18. EditInv'
  <2>1. /\ BodiesKnown /\ NewestInFlight /\ rfc.body \in Nat
        /\ \A u \in Threads : op[u].rec.body \in Nat
    <3>1. \A x \in Rec : x.body \in Nat
      BY DEF Rec
    <3>. QED BY <3>1, InvFacts, NaturalVersions DEF EditInv
  <2>2. BodiesKnown'
    BY <1>1, <1>2, <1>3, <1>6, <1>8, <1>9, <2>1 DEF BodiesKnown
  <2>3. /\ op'[a].rec.body = Len(edits) + 1 /\ op'[a].pc = "edit"
    BY <1>2, <1>6, <1>8, <1>9
  <2>4. \A u \in Threads \ {a} : op'[u] = op[u]
    BY <1>9
  <2>5. \A u \in Agents : op[u].pc = "edit" => home[u] # v
    BY <1>1 DEF MutexFree
  <2>6. \A u \in Threads \ {a} : op'[u].pc = "edit" => u \in Agents /\ home'[u] # home'[a]
    BY <1>1, <2>4, <2>5, InvFacts DEF Typed, Threads, v
  <2>7. ASSUME NEW b \in Agents, op'[b].pc = "edit"
        PROVE  /\ op'[b].rec.body >= 1 /\ edits'[op'[b].rec.body] = home'[b]
               /\ Older(rfc.body, b)'
               /\ \A u \in Threads \ {b} :
                     Older(op[u].rec.body, b)' /\ (op'[u].pc = "edit" => home'[u] # home'[b])
    <3>1. CASE b = a
      <4>1. op'[b].rec.body >= 1 /\ edits'[op'[b].rec.body] = home'[b]
        BY <1>1, <1>2, <1>3, <2>3, <3>1 DEF v
      <4>2. Older(rfc.body, b)'
        BY <1>1, <1>2, <2>1, <2>3, <3>1 DEF BodiesKnown, Older
      <4>3. \A u \in Threads \ {b} : Older(op[u].rec.body, b)'
        BY <1>2, <2>1, <2>3, <2>4, <3>1 DEF BodiesKnown, Older
      <4>. QED BY <2>6, <3>1, <4>1, <4>2, <4>3
    <3>2. CASE b # a
      <4>1. /\ b \in Threads /\ op'[b] = op[b] /\ op[b].pc = "edit" /\ home'[b] = home[b]
            /\ home[b] # v
        BY <1>1, <2>4, <2>5, <2>7, <3>2, InvFacts
      <4>2. /\ op[b].rec.body >= 1 /\ edits[op[b].rec.body] = home[b]
            /\ Older(rfc.body, b)
            /\ \A u \in Threads \ {b} :
                  Older(op[u].rec.body, b) /\ (op[u].pc = "edit" => home[u] # home[b])
        BY <2>1, <4>1 DEF NewestInFlight
      <4>3. \A x \in Nat : x <= Len(edits) /\ Older(x, b) =>
                x = 0 \/ edits'[x] # home'[b] \/ x < op'[b].rec.body
        BY <1>2, <1>3, <4>1 DEF Older
      <4>4. edits'[op'[b].rec.body] = home'[b]
        BY <1>2, <1>3, <2>1, <4>1, <4>2 DEF BodiesKnown
      <4>5. Older(rfc.body, b)'
        BY <1>1, <2>1, <4>2, <4>3 DEF BodiesKnown, Older
      <4>6. ASSUME NEW u \in Threads \ {b}
            PROVE  Older(op[u].rec.body, b)' /\ (op'[u].pc = "edit" => home'[u] # home'[b])
        <5>1. CASE u = a
          BY <1>1, <1>3, <2>3, <4>1, <5>1 DEF Older, v
        <5>2. CASE u # a
          BY <1>1, <2>1, <2>4, <4>2, <4>3, <5>2 DEF BodiesKnown, Older
        <5>. QED BY <5>1, <5>2
      <4>. QED BY <4>1, <4>2, <4>4, <4>5, <4>6
    <3>. QED BY <3>1, <3>2
  <2>. QED BY <2>2, <2>7 DEF EditInv, NewestInFlight
<1>. QED BY <1>10, <1>12, <1>13, <1>14, <1>15, <1>16, <1>17, <1>18 DEF RfcInv

\* A write fails: the call ends.
LEMMA IoFailsStep == ASSUME RfcInv, NEW t \in Threads, IoFails(t) PROVE RfcInv'
<1>1. /\ op' = [op EXCEPT ![t] = Idle] /\ faults < MaxFaults /\ faults' = faults + 1
      /\ loose' \in {loose, IF op[t].pc = "newline" /\ loose = t THEN None ELSE loose}
      /\ UNCHANGED <<rfc, bodies, logs, log, glued, home, up, lock, seq, edits, asks, history>>
  BY DEF IoFails, Goto, store, service
<1>2. faults' \in 0 .. MaxFaults
  BY <1>1, InvFacts
<1>3. loose' \in Threads \union {None}
  BY <1>1, InvFacts
<1>. QED BY <1>1, <1>2, <1>3, InvFacts, IdleCall, QuietMove

\* A process dies: its threads end their calls, the rest is as it was.
LEMMA CrashStep == ASSUME RfcInv, NEW v \in Services, Crash(v) PROVE RfcInv'
<1>1. /\ op' = [t \in Threads |-> IF home[t] = v THEN Idle ELSE op[t]]
      /\ faults < MaxFaults /\ faults' = faults + 1 /\ up' = up \ {v}
      /\ lock' = [lock EXCEPT ![v] = NoLock] /\ seq' = [seq EXCEPT ![v] = 0]
      /\ UNCHANGED <<rfc, bodies, logs, log, loose, glued, home, edits, asks, history>>
  BY DEF Crash, store, records
<1>2. /\ \A t \in Threads : op'[t] = IF home[t] = v THEN Idle ELSE op[t]
      /\ \A t \in Threads : op'[t].pc # "idle" => op'[t] = op[t] /\ home[t] # v
  BY <1>1, IdleCall
<1>3. /\ seq' \in [Services -> Nat] /\ up' \subseteq Services
      /\ \A w \in Services : seq'[w] = IF w = v THEN 0 ELSE seq[w]
  BY <1>1, InvFacts
<1>4. Typed'
  <2>1. op' \in [Threads -> CallType]
    BY <1>1, IdleCall, InvFacts DEF Typed
  <2>2. lock' \in [Services -> LockType]
    <3>1. NoLock \in LockType
      BY DEF NoLock, LockType
    <3>. QED BY <1>1, <3>1, InvFacts
  <2>3. faults' \in 0 .. MaxFaults
    BY <1>1, InvFacts
  <2>4. \A t \in Threads : op'[t].rec \in Rec /\ op'[t].entry \in Decision
    BY <2>1 DEF CallType
  <2>5. TypeOK'
    BY <1>1, <1>3, <2>2, <2>3, <2>4, InvFacts DEF TypeOK, LockType
  <2>6. Idle.entry.status # "resolved"
    BY IdleCall DEF NoChange
  <2>7. Typed /\ history' \in HistoryType
    BY <1>1, InvFacts
  <2>. QED BY <1>2, <2>1, <2>5, <2>6, <2>7, IdleCall DEF Typed, Threads
<1>5. EditInv'
  <2>1. BodiesKnown'
    <3>1. Len(edits) \in Nat
      BY InvFacts
    <3>. QED BY <1>1, <1>2, <3>1, IdleCall, InvFacts DEF EditInv, BodiesKnown
  <2>2. ASSUME NEW a \in Agents, op'[a].pc = "edit"
        PROVE  /\ op'[a].rec.body >= 1 /\ edits'[op'[a].rec.body] = home'[a]
               /\ Older(rfc.body, a)'
               /\ \A t \in Threads \ {a} :
                     Older(op[t].rec.body, a)' /\ (op'[t].pc = "edit" => home'[t] # home'[a])
    <3>1. op'[a] = op[a] /\ op[a].pc = "edit" /\ a \in Threads
      BY <1>2, <2>2, InvFacts
    <3>2. /\ op[a].rec.body >= 1 /\ edits[op[a].rec.body] = home[a]
          /\ Older(rfc.body, a)
          /\ \A t \in Threads \ {a} :
                Older(op[t].rec.body, a) /\ (op[t].pc = "edit" => home[t] # home[a])
      BY <3>1, InvFacts DEF EditInv, NewestInFlight
    <3>3. Older(rfc.body, a)'
      BY <1>1, <3>1, <3>2 DEF Older
    <3>4. ASSUME NEW t \in Threads \ {a}
          PROVE  Older(op[t].rec.body, a)' /\ (op'[t].pc = "edit" => home'[t] # home'[a])
      <4>1. CASE home[t] = v
        BY <1>1, <1>2, <4>1, IdleCall DEF Older
      <4>2. CASE home[t] # v
        BY <1>1, <1>2, <3>1, <3>2, <4>2 DEF Older
      <4>. QED BY <4>1, <4>2
    <3>. QED BY <1>1, <3>1, <3>2, <3>3, <3>4
  <2>. QED BY <2>1, <2>2 DEF EditInv, NewestInFlight
<1>6. VersionOrder'
  <2>1. /\ VersionOrder /\ Human \in Threads /\ Agents \subseteq Threads /\ 0 < MaxVersions
        /\ Idle.rec.version = 0
    BY InvFacts, IdleCall, RfcConstants
  <2>2. op'[Human].pc = "reopen" => VersionsLeft'
    <3>. SUFFICES ASSUME op'[Human].pc = "reopen" PROVE VersionsLeft'
      OBVIOUS
    <3>1. VersionsLeft
      BY <1>2, <2>1 DEF VersionOrder
    <3>. QED BY <1>1, <1>2, <2>1, <3>1 DEF VersionsLeft
  <2>3. \A t \in Threads : op'[t].pc \in Holding => op'[t].pc # "idle"
    BY DEF Holding
  <2>. QED BY <1>1, <1>2, <2>1, <2>2, <2>3 DEF VersionOrder
<1>7. ArchivedBefore'
  BY <1>1, <1>2, InvFacts DEF ArchivedBefore, VersionsArchived
<1>8. IdsCounted'
  <2>1. asks \in Nat /\ Idle.entry.id = 0
    BY InvFacts, IdleCall, RfcConstants DEF NoChange
  <2>. QED BY <1>1, <1>2, <1>3, <2>1, InvFacts DEF IdsCounted
<1>9. OneIssuer' = OneIssuer /\ OneNumbering' = OneNumbering
  BY <1>1 DEF OneIssuer, OneNumbering
<1>10. PendingFresh'
  <2>1. \A t \in Threads : op'[t].pc \in {"append", "resolve"} => op'[t] = op[t] /\ home[t] # v
    BY <1>2
  <2>2. \A t \in Threads : home[t] \in Services
    BY InvFacts
  <2>3. \A t \in Threads : op'[t].pc = "append" =>
          /\ home'[t] \in (history.issuers \intersect up)'
          /\ op'[t].entry.id <= seq'[home'[t]]
    BY <1>1, <1>3, <2>1, <2>2, InvFacts DEF PendingFresh
  <2>. QED BY <1>1, <1>9, <2>1, <2>3, InvFacts DEF PendingFresh
<1>11. LogFresh'
  <2>. SUFFICES ASSUME OneNumbering PROVE LogFresh'
    BY <1>9 DEF LogFresh
  <2>1. LogWellFormed'
    BY <1>1, InvFacts DEF LogFresh, LogWellFormed
  <2>2. \A t \in Threads : op'[t].pc \in {"append", "resolve"} => op'[t] = op[t]
    BY <1>2
  <2>3. \A w \in (history.issuers \intersect up)' :
          w \in history.issuers \intersect up /\ seq'[w] = seq[w]
    BY <1>1, <1>3, InvFacts
  <2>. QED BY <1>1, <2>1, <2>2, <2>3, InvFacts DEF LogFresh
<1>12. Reviewed'
  <2>1. AllReviewed' = AllReviewed
    BY <1>1 DEF AllReviewed
  <2>. QED BY <1>1, <1>2, <2>1, InvFacts DEF Reviewed
<1>13. WrittenKept'
  BY <1>1, <1>2, InvFacts DEF WrittenKept
<1>. QED BY <1>4, <1>5, <1>6, <1>7, <1>8, <1>10, <1>11, <1>12, <1>13 DEF RfcInv

\* Every step keeps the invariant.
LEMMA RfcInvStep == RfcInv /\ [Next]_vars => RfcInv'
<1>. SUFFICES ASSUME RfcInv, [Next]_vars PROVE RfcInv'
  OBVIOUS
<1>1. CASE ForceRelease \/ \E v \in Services : TimePasses(v) \/ ReapExpired(v)
  <2>1. NoLock \in LockType /\ \A v \in Services : lock[v] \in LockType
    BY InvFacts DEF NoLock, LockType
  <2>2. \A v \in Services : [by |-> lock[v].by, expired |-> TRUE] \in LockType
    BY <2>1 DEF LockType
  <2>. QED BY <1>1, <2>1, <2>2, LockStep, RfcConstants DEF ForceRelease, TimePasses, ReapExpired
<1>2. CASE UNCHANGED vars
  <2>1. UNCHANGED <<rfc, bodies, logs, log, loose, glued, home, up, lock, seq, op, edits, asks,
                    faults, history>>
    BY <1>2 DEF vars, store, records, service
  <2>2. Typed' /\ EditInv' /\ VersionOrder' /\ ArchivedBefore'
    BY <2>1, InvFacts
       DEF Typed, TypeOK, EditInv, BodiesKnown, NewestInFlight, Older, VersionOrder,
           VersionsLeft, ArchivedBefore, VersionsArchived
  <2>3. Reviewed' /\ WrittenKept' /\ PendingFresh' /\ IdsCounted'
    BY <2>1, InvFacts
       DEF Reviewed, AllReviewed, WrittenKept, Archived, PendingFresh, IdsCounted, OneIssuer
  <2>4. LogFresh'
    BY <2>1, InvFacts DEF LogFresh, LogWellFormed, OneNumbering
  <2>. QED BY <2>2, <2>3, <2>4 DEF RfcInv
<1>. QED
  BY <1>1, <1>2, StartStep, CreateStep, AskLoadStep, AppendLineStep, AppendNewlineStep,
     ResolveLoadStep, ReadingSteps, TransitionCountsStep, SaveSteps, ReopenCopiesStep,
     ReopenCommitStep, ReopenClearStep, EditLoadStep, IoFailsStep, CrashStep DEF Next

LEMMA AlwaysRfcInv == Spec => []RfcInv
  BY RfcInvInit, RfcInvStep, PTL DEF Spec

-----------------------------------------------------------------------------
(* The theorems. *)

\* No edit is saved over a body that its own process proposed after it, for any
\* number of processes and agents: the mutex of propose_edit is enough for that,
\* whatever the lock's expiry, forced releases, transitions, reopens, edits of
\* other processes, failed writes and crashes do.
THEOREM EditsNeverLost == Spec => []EditsInOrder
<1>1. RfcInv => EditsInOrder
  BY DEF RfcInv, EditInv, NewestInFlight, Older, EditsInOrder
<1>. QED BY <1>1, AlwaysRfcInv, PTL

\* As long as one of the processes hands out the ids, over crashes, restarts, failed
\* appends and any interleaving of agents' questions with the human's answers, an
\* id of a readable live log names one decision and an answer follows the one
\* question it answers: initial_decision_seq and the counter hand out ids that
\* neither the log nor a call in progress has.
THEOREM LogAlwaysWellFormed == Spec => []LogWellFormed
<1>1. RfcInv => LogWellFormed
  BY DEF RfcInv, LogFresh, LogWellFormed
<1>. QED BY <1>1, AlwaysRfcInv, PTL

\* Neither a decision nor a version is lost, for any number of reopens and wherever
\* they stop: reopen copies the log before it commits and removes it afterwards.
THEOREM NothingEverLost == Spec => []NothingLost
<1>1. RfcInv => NothingLost
  <2>. SUFFICES ASSUME RfcInv PROVE NothingLost
    OBVIOUS
  <2>1. TypeOK /\ VersionsArchived
    BY DEF RfcInv, Typed, ArchivedBefore
  <2>2. history.written \in SUBSET Decision /\ rfc.version \in Nat
    BY InvFacts, NaturalVersions DEF HistoryType
  <2>3. ASSUME NEW d \in history.written, Archived(d, rfc.version, logs)
        PROVE  /\ d.version < rfc.version
               /\ \E n \in Versions : \E i \in DOMAIN logs[n] : logs[n][i] = d
    <3>1. PICK m \in Versions : /\ m < rfc.version /\ d.version <= m
                                /\ \E i \in DOMAIN logs[m] : logs[m][i] = d
      BY <2>3 DEF Archived
    <3>2. d \in Decision
      BY <2>2
    <3>3. d.version \in Nat /\ m \in Nat
      BY <3>2 DEF Decision, Versions
    <3>. QED BY <2>2, <3>1, <3>3
  <2>4. DecisionsKept
    BY <2>3 DEF RfcInv, WrittenKept, DecisionsKept
  <2>. QED BY <2>1, <2>4 DEF NothingLost
<1>. QED BY <1>1, AlwaysRfcInv, PTL

\* No version becomes active with a design decision unreviewed, whatever edits,
\* reopens, failed writes and restarts led there and whoever numbered the decisions,
\* unless one was appended after promote had counted.
THEOREM PromotedAlwaysReviewed == Spec => []PromotedReviewed
<1>1. RfcInv => PromotedReviewed
  BY CountsZero, InvFacts DEF Reviewed, PromotedReviewed
<1>. QED BY <1>1, AlwaysRfcInv, PTL

=============================================================================
